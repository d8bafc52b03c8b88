----------------------------- MODULE MscpProofs -----------------------------
(***************************************************************************)
(* No packet and no credit of the disk controller is ever lost or          *)
(* invented, no work is left without its event and no response without its *)
(* interrupt, for any drives, rings, packets and commands.                 *)
(***************************************************************************)
EXTENDS Mscp, Integers, DeltaListProofs


-----------------------------------------------------------------------------
(***************************************************************************)
(* The inductive invariant, as statements on the state s of a controller,  *)
(* the host h, and what a handler has in hand: k packets, of which c are   *)
(* commands.                                                               *)
(***************************************************************************)
Command ==
    [ref : Nat \ {0}, op : STRING, unit : Nat, size : Nat, buf : {"ok", "bad", "nxm", "part"},
     ths : BOOLEAN, tmo : BOOLEAN, target : Nat]
Sts == {"SUC", "OFL", "AVL", "CMD", "ABO", "HST", "DRV", "CMP", "CNT"}
Rsp == [ref : Nat, end : BOOLEAN, sts : Sts]
Given == [ref : Nat, end : BOOLEAN, sts : Sts, cr : Nat]

Words == {"VL", "WR", "IE", "VEC", "NXM", "GO", "LF"}

Msc ==
    [csta : {"S1", "S1_WR", "S2", "S3", "S3_PPA", "S3_PPB", "S4", "UP", "DEAD"},
     saw : SUBSET Words, s1dat : SUBSET Words, bad : BOOLEAN,
     perr : {"none", "NSR", "PRE", "PIE", "QWE", "PPF", "HAT"}, ths : BOOLEAN,
     htmo : Nat, hat : Nat, irq : BOOLEAN, pip : BOOLEAN, free : Nat, pbsy : Nat,
     rspq : Seq(Rsp), credits : Nat, cidx : 0 .. CmdLen - 1, ridx : 0 .. RspLen - 1]
Unit ==
    [onl : BOOLEAN, cpkt : Command \cup {Nil}, pktq : Seq(Command),
     io_complete : BOOLEAN, io_status : BOOLEAN, io_ref : Nat]
Drives == [Drive -> Unit]
CmdRing == [0 .. CmdLen - 1 -> [own : BOOLEAN, pkt : Command \cup {Nil}]]
RspRing == [0 .. RspLen - 1 -> [own : BOOLEAN, pkt : Given \cup {Nil}]]
States ==
    [cp : Msc, unit : Drives, active : SUBSET (0 .. NumDrives + 1), comm : [cmd : CmdRing, rsp : RspRing]]
Hosts ==
    [awake : BOOLEAN, cidx : 0 .. CmdLen - 1, ridx : 0 .. RspLen - 1, credits : Nat, got : SUBSET Nat,
     sent : Nat, resets : Nat]

(* The drives hold commands of their own; one is queued exactly while it   *)
(* has one, but for a write without a callback.                            *)
Owns(u, d) ==
    /\ u.cpkt # Nil => u.cpkt.unit = d
    /\ \A i \in DOMAIN u.pktq : u.pktq[i].unit = d
OwnCommands(units) == \A d \in Drive : Owns(units[d], d)
Timed(units, evs) ==
    \A d \in Drive : IF d \in evs THEN units[d].cpkt # Nil
                     ELSE units[d].cpkt = Nil \/ NothingToWrite(units[d].cpkt)

Packets(s, k) ==
    /\ s.cp.free + s.cp.pbsy = NPkts - 1
    /\ s.cp.pbsy = k + Len(s.cp.rspq) + HeldInAll(s.unit)

Credits(s, h, c) ==
    h.credits + s.cp.credits + OnTheirWay(s.comm.rsp) + InRing(s.comm.cmd) + HeldInAll(s.unit)
    + Ends(s.cp.rspq) + c = NPkts \div 2

(* The host has yet to read n responses, those behind its own index, and   *)
(* what it gives to the controller is a command.                           *)
Off(i, from) == IF i >= from THEN i - from ELSE i - from + RspLen
Turn(from, n) == IF from + n >= RspLen THEN from + n - RspLen ELSE from + n
Unread(ring, from, to, n) ==
    /\ to = Turn(from, n)
    /\ \A i \in 0 .. RspLen - 1 : IF Off(i, from) < n THEN Filled(ring[i]) ELSE ring[i].own
RingOrder(s, h) ==
    /\ \E n \in 0 .. RspLen : Unread(s.comm.rsp, h.ridx, s.cp.ridx, n)
    /\ \A i \in 0 .. CmdLen - 1 : s.comm.cmd[i].own => s.comm.cmd[i].pkt # Nil

Called(s, h) ==
    "VEC" \in s.cp.s1dat /\ ~h.awake /\ Filled(s.comm.rsp[h.ridx]) => s.cp.irq

Base(s, h, k, c) ==
    /\ s \in States /\ h \in Hosts
    /\ s.cp.csta = "UP" /\ s.cp.perr # "NSR"
    /\ OwnCommands(s.unit)
    /\ Packets(s, k) /\ Credits(s, h, c)
    /\ RingOrder(s, h) /\ Called(s, h)

(* Every error log is followed by the end packet of its command, so that   *)
(* there are no more logs than end packets.  Bare is the number of end     *)
(* packets beyond that.                                                    *)
Paired(q) == \A i \in 1 .. Len(q) : ~q[i].end => i < Len(q) /\ q[i + 1].end
Bare(q) == 2 * Ends(q) - Len(q)

(* A log that was the last to reach the ring has left its end packet       *)
(* behind.                                                                 *)
LastEnds(s) ==
    LET last == s.comm.rsp[Prior(s.cp.ridx, RspLen)]
    IN  ~last.own /\ ~last.pkt.end => Bare(s.cp.rspq) >= 1 \/ (~s.cp.ths /\ s.cp.rspq = <<>>)

Slack(s) == Paired(s.cp.rspq) /\ LastEnds(s)

(* Where logs wait, one credit at least is with the host or on its way.    *)
Room(s) ==
    s.cp.rspq # <<>> /\ Bare(s.cp.rspq) = 0 => Ends(s.cp.rspq) + HeldInAll(s.unit) <= (NPkts \div 2) - 1

Woken(s) ==
    s.cp.pip \/ s.cp.rspq # <<>> \/ (\E d \in Drive : s.unit[d].cpkt = Nil /\ s.unit[d].pktq # <<>>)
    => QUEUE \in s.active

Running(s, h) == Base(s, h, 0, 0) /\ Timed(s.unit, s.active) /\ Slack(s) /\ Room(s) /\ Woken(s)

(* Before initialization is complete, and after a fatal error.             *)
Rest(s, h) ==
    /\ s \in States /\ h \in Hosts
    /\ s.cp.csta # "UP" /\ s.cp.perr # "NSR"
    /\ s.cp.free = NPkts - 1 /\ s.cp.pbsy = 0 /\ s.cp.rspq = <<>> /\ ~s.cp.ths /\ ~s.cp.pip
    /\ \A d \in Drive : s.unit[d].cpkt = Nil /\ s.unit[d].pktq = <<>>
    /\ s.active \subseteq {QUEUE}
    /\ s.cp.csta = "DEAD" => s.active = {}
    /\ "GO" \in s.cp.saw => s.cp.csta = "S4" /\ h.credits = 1 /\ s.comm.rsp = Empty(RspLen, TRUE)
    /\ s.cp.csta = "S4" => s.comm.cmd = Empty(CmdLen, FALSE)
    /\ s.cp.csta # "DEAD" =>
           /\ s.cp.credits = (NPkts \div 2) - 1
           /\ s.cp.cidx = 0 /\ s.cp.ridx = 0 /\ h.cidx = 0 /\ h.ridx = 0

IInv == Running(State, host) \/ Rest(State, host)

-----------------------------------------------------------------------------
(***************************************************************************)
(* Sums.                                                                   *)
(***************************************************************************)
Adds(b, n, f) ==
    /\ b \in [0 .. n -> Int]
    /\ b[0] = 0
    /\ \A k \in 1 .. n : b[k] = b[k - 1] + f[k - 1]

(* A sum is what adding up term by term leads to. *)
LEMMA SumExists ==
    ASSUME NEW n \in Nat, NEW f, \A i \in 0 .. n - 1 : f[i] \in Int
    PROVE  \E b : Adds(b, n, f) /\ Sum(n, f) = b[n]
<1> DEFINE B == {m \in Nat : m <= n => \E b : Adds(b, m, f)}
<1>1. 0 \in B
    <2> DEFINE b == [i \in 0 .. 0 |-> 0]
    <2>1. b \in [0 .. 0 -> Int] /\ b[0] = 0
        OBVIOUS
    <2>2. Adds(b, 0, f)
        BY <2>1 DEF Adds
    <2> QED BY <2>2
<1>2. ASSUME NEW m \in B PROVE m + 1 \in B
    <2>0. m \in Nat /\ m + 1 \in Nat /\ (m <= n => \E b : Adds(b, m, f))
        OBVIOUS
    <2> SUFFICES ASSUME m + 1 <= n PROVE \E b : Adds(b, m + 1, f)
        BY <2>0
    <2>1. PICK g : Adds(g, m, f)
        BY <2>0
    <2> DEFINE b == [i \in 0 .. m + 1 |-> IF i = m + 1 THEN g[m] + f[m] ELSE g[i]]
    <2>2. f[m] \in Int /\ g[m] \in Int
        BY <2>0, <2>1 DEF Adds
    <2>3. b \in [0 .. m + 1 -> Int]
        BY <2>0, <2>1, <2>2 DEF Adds
    <2>4. b[0] = 0
        BY <2>0, <2>1 DEF Adds
    <2>5. \A k \in 1 .. m + 1 : b[k] = b[k - 1] + f[k - 1]
        BY <2>0, <2>1 DEF Adds
    <2>6. Adds(b, m + 1, f)
        <3> HIDE DEF b
        <3> QED BY <2>3, <2>4, <2>5 DEF Adds
    <2> QED BY <2>6
<1>3. n \in B
    <2> B \in SUBSET Nat
        OBVIOUS
    <2> HIDE DEF B
    <2> QED BY <1>1, <1>2, SetInduction
<1>4. PICK b : Adds(b, n, f)
    BY <1>3
<1>5. b = [k \in 0 .. n |-> IF k = 0 THEN 0 ELSE b[k - 1] + f[k - 1]]
    BY <1>4 DEF Adds
<1> DEFINE A == CHOOSE a : a = [k \in 0 .. n |-> IF k = 0 THEN 0 ELSE a[k - 1] + f[k - 1]]
<1>6. A = [k \in 0 .. n |-> IF k = 0 THEN 0 ELSE A[k - 1] + f[k - 1]]
    BY <1>5
<1>7. Sum(n, f) = A[n]
    BY DEF Sum
<1> HIDE DEF A
<1> DEFINE D == {m \in Nat : m <= n => A[m] = b[m]}
<1>8. 0 \in D
    BY <1>4, <1>6 DEF Adds
<1>9. ASSUME NEW m \in D PROVE m + 1 \in D
    <2> SUFFICES ASSUME m + 1 <= n PROVE A[m + 1] = b[m + 1]
        OBVIOUS
    <2>1. m \in Nat /\ A[m] = b[m] /\ m + 1 \in 0 .. n /\ m + 1 # 0 /\ (m + 1) - 1 = m
        OBVIOUS
    <2>2. A[m + 1] = A[m] + f[m]
        BY <1>6, <2>1
    <2>3. b[m + 1] = b[m] + f[m]
        BY <1>4, <2>1 DEF Adds
    <2> QED BY <2>1, <2>2, <2>3
<1>10. n \in D
    <2> D \in SUBSET Nat
        OBVIOUS
    <2> HIDE DEF D
    <2> QED BY <1>8, <1>9, SetInduction
<1> QED BY <1>4, <1>7, <1>10

(* Two ways of adding up that agree but for one term, the d-th.            *)
LEMMA AddsApart ==
    ASSUME NEW n \in Nat, NEW f, NEW g, NEW a, NEW b, Adds(a, n, f), Adds(b, n, g),
           \A i \in 0 .. n - 1 : f[i] \in Int /\ g[i] \in Int,
           NEW d \in Int, \A i \in 0 .. n - 1 : i # d => f[i] = g[i]
    PROVE  b[n] = a[n] + IF d \in 0 .. n - 1 THEN g[d] - f[d] ELSE 0
<1> DEFINE B == {m \in Nat : m <= n => b[m] = a[m] + IF d \in 0 .. m - 1 THEN g[d] - f[d] ELSE 0}
<1>1. 0 \in B
    BY DEF Adds
<1>2. ASSUME NEW m \in B PROVE m + 1 \in B
    <2> SUFFICES ASSUME m + 1 <= n
                 PROVE  b[m + 1] = a[m + 1] + IF d \in 0 .. m THEN g[d] - f[d] ELSE 0
        OBVIOUS
    <2>1. m \in Nat /\ m + 1 \in 1 .. n /\ (m + 1) - 1 = m /\ m \in 0 .. n - 1 /\ m \in 0 .. n
        OBVIOUS
    <2>2. b[m] = a[m] + IF d \in 0 .. m - 1 THEN g[d] - f[d] ELSE 0
        OBVIOUS
    <2>3. /\ a[m + 1] = a[m] + f[m] /\ b[m + 1] = b[m] + g[m]
          /\ a[m] \in Int /\ b[m] \in Int /\ f[m] \in Int /\ g[m] \in Int
        BY <2>1 DEF Adds
    <2>4. CASE d = m
        BY <2>1, <2>2, <2>3, <2>4
    <2>5. CASE d # m
        <3>1. f[m] = g[m]
            BY <2>1, <2>5
        <3>2. d \in 0 .. m - 1 <=> d \in 0 .. m
            BY <2>1, <2>5
        <3>3. CASE d \in 0 .. m
            <4>1. f[d] \in Int /\ g[d] \in Int
                BY <2>1, <3>3
            <4> QED BY <2>2, <2>3, <3>1, <3>2, <3>3, <4>1
        <3>4. CASE d \notin 0 .. m
            BY <2>2, <2>3, <3>1, <3>2, <3>4
        <3> QED BY <3>3, <3>4
    <2> QED BY <2>4, <2>5
<1>3. n \in B
    <2> B \in SUBSET Nat
        OBVIOUS
    <2> HIDE DEF B
    <2> QED BY <1>1, <1>2, SetInduction
<1> QED BY <1>3

LEMMA SumChanged ==
    ASSUME NEW n \in Nat, NEW f, NEW g, NEW d \in 0 .. n - 1,
           \A i \in 0 .. n - 1 : f[i] \in Int /\ g[i] \in Int,
           \A i \in 0 .. n - 1 : i # d => f[i] = g[i]
    PROVE  Sum(n, g) = Sum(n, f) - f[d] + g[d] /\ Sum(n, f) \in Int
<1>1. PICK a : Adds(a, n, f) /\ Sum(n, f) = a[n]
    BY SumExists
<1>2. PICK b : Adds(b, n, g) /\ Sum(n, g) = b[n]
    BY SumExists
<1>3. b[n] = a[n] + IF d \in 0 .. n - 1 THEN g[d] - f[d] ELSE 0
    BY <1>1, <1>2, AddsApart
<1>4. a[n] \in Int /\ f[d] \in Int /\ g[d] \in Int
    BY <1>1 DEF Adds
<1> QED BY <1>1, <1>2, <1>3, <1>4

LEMMA SumSame ==
    ASSUME NEW n \in Nat, NEW f, NEW g,
           \A i \in 0 .. n - 1 : f[i] \in Int /\ f[i] = g[i]
    PROVE  Sum(n, g) = Sum(n, f)
<1>0. /\ \A i \in 0 .. n - 1 : f[i] \in Int
      /\ \A i \in 0 .. n - 1 : g[i] \in Int
    OBVIOUS
<1>1. PICK a : Adds(a, n, f) /\ Sum(n, f) = a[n]
    BY <1>0, SumExists
<1>2. PICK b : Adds(b, n, g) /\ Sum(n, g) = b[n]
    BY <1>0, SumExists
<1>3. b[n] = a[n] + IF n \in 0 .. n - 1 THEN g[n] - f[n] ELSE 0
    BY <1>1, <1>2, AddsApart
<1>4. a[n] \in Int /\ n \notin 0 .. n - 1
    BY <1>1 DEF Adds
<1> QED BY <1>1, <1>2, <1>3, <1>4

(* A sum of natural numbers is one, and no smaller than any of them.       *)
LEMMA SumNat ==
    ASSUME NEW n \in Nat, NEW f, \A i \in 0 .. n - 1 : f[i] \in Nat
    PROVE  Sum(n, f) \in Nat /\ \A i \in 0 .. n - 1 : f[i] <= Sum(n, f)
<1>0. \A i \in 0 .. n - 1 : f[i] \in Int
    OBVIOUS
<1>1. PICK a : Adds(a, n, f) /\ Sum(n, f) = a[n]
    BY <1>0, SumExists
<1> DEFINE B == {m \in Nat : m <= n => a[m] \in Nat /\ \A i \in 0 .. m - 1 : f[i] <= a[m]}
<1>2. 0 \in B
    BY <1>1 DEF Adds
<1>3. ASSUME NEW m \in B PROVE m + 1 \in B
    <2> SUFFICES ASSUME m + 1 <= n
                 PROVE  a[m + 1] \in Nat /\ \A i \in 0 .. m : f[i] <= a[m + 1]
        OBVIOUS
    <2>1. m \in Nat /\ m + 1 \in 1 .. n /\ (m + 1) - 1 = m /\ m \in 0 .. n - 1
        OBVIOUS
    <2>2. a[m + 1] = a[m] + f[m] /\ f[m] \in Nat
        BY <1>1, <2>1 DEF Adds
    <2>3. a[m] \in Nat /\ \A i \in 0 .. m - 1 : f[i] <= a[m]
        BY <2>1
    <2>4. \A i \in 0 .. m - 1 : f[i] \in Nat
        BY <2>1
    <2> QED BY <2>1, <2>2, <2>3, <2>4
<1>4. n \in B
    <2> B \in SUBSET Nat
        OBVIOUS
    <2> HIDE DEF B
    <2> QED BY <1>2, <1>3, SetInduction
<1> QED BY <1>1, <1>4

LEMMA SumZero ==
    ASSUME NEW n \in Nat, NEW f, \A i \in 0 .. n - 1 : f[i] = 0
    PROVE  Sum(n, f) = 0
<1>0. \A i \in 0 .. n - 1 : f[i] \in Int
    OBVIOUS
<1>1. PICK a : Adds(a, n, f) /\ Sum(n, f) = a[n]
    BY <1>0, SumExists
<1> DEFINE B == {m \in Nat : m <= n => a[m] = 0}
<1>2. 0 \in B
    BY <1>1 DEF Adds
<1>3. ASSUME NEW m \in B PROVE m + 1 \in B
    <2> SUFFICES ASSUME m + 1 <= n PROVE a[m + 1] = 0
        OBVIOUS
    <2>1. m \in Nat /\ m + 1 \in 1 .. n /\ (m + 1) - 1 = m /\ m \in 0 .. n - 1
        OBVIOUS
    <2>2. a[m + 1] = a[m] + f[m] /\ f[m] = 0 /\ a[m] = 0
        BY <1>1, <2>1 DEF Adds
    <2> QED BY <2>2
<1>4. n \in B
    <2> B \in SUBSET Nat
        OBVIOUS
    <2> HIDE DEF B
    <2> QED BY <1>2, <1>3, SetInduction
<1> QED BY <1>1, <1>4

(* One more term at the end, or at the beginning. *)
LEMMA SumStep ==
    ASSUME NEW n \in Nat, NEW f, \A i \in 0 .. n : f[i] \in Int
    PROVE  Sum(n + 1, f) = Sum(n, f) + f[n] /\ Sum(n, f) \in Int
<1>1. PICK a : Adds(a, n, f) /\ Sum(n, f) = a[n]
    BY SumExists
<1>2. PICK b : Adds(b, n + 1, f) /\ Sum(n + 1, f) = b[n + 1]
    BY SumExists
<1>3. b[n + 1] = b[n] + f[n]
    BY <1>2 DEF Adds
<1> DEFINE r == [k \in 0 .. n |-> b[k]]
<1>4. Adds(r, n, f)
    <2>1. r \in [0 .. n -> Int] /\ r[0] = 0
        BY <1>2 DEF Adds
    <2>2. \A k \in 1 .. n : r[k] = r[k - 1] + f[k - 1]
        BY <1>2 DEF Adds
    <2> HIDE DEF r
    <2> QED BY <2>1, <2>2 DEF Adds
<1>5. r[n] = a[n] + IF n \in 0 .. n - 1 THEN f[n] - f[n] ELSE 0
    <2> HIDE DEF r
    <2> QED BY <1>1, <1>4, AddsApart
<1>6. a[n] \in Int /\ r[n] = b[n]
    BY <1>1 DEF Adds
<1> QED BY <1>1, <1>2, <1>3, <1>5, <1>6

LEMMA SumShift ==
    ASSUME NEW n \in Nat, NEW f, NEW g, \A i \in 0 .. n : f[i] \in Int,
           \A i \in 0 .. n - 1 : g[i] = f[i + 1]
    PROVE  Sum(n + 1, f) = f[0] + Sum(n, g)
<1>0. \A i \in 0 .. n - 1 : g[i] \in Int
    OBVIOUS
<1>1. PICK a : Adds(a, n, g) /\ Sum(n, g) = a[n]
    BY <1>0, SumExists
<1>2. PICK b : Adds(b, n + 1, f) /\ Sum(n + 1, f) = b[n + 1]
    BY SumExists
<1> DEFINE B == {m \in Nat : m <= n => b[m + 1] = f[0] + a[m]}
<1>3. 0 \in B
    <2>1. b[1] = b[0] + f[0] /\ b[0] = 0 /\ a[0] = 0 /\ f[0] \in Int
        BY <1>1, <1>2 DEF Adds
    <2> QED BY <2>1
<1>4. ASSUME NEW m \in B PROVE m + 1 \in B
    <2> SUFFICES ASSUME m + 1 <= n PROVE b[(m + 1) + 1] = f[0] + a[m + 1]
        OBVIOUS
    <2>1. m \in Nat /\ m + 1 \in 1 .. n /\ (m + 1) - 1 = m /\ (m + 1) + 1 \in 1 .. n + 1
          /\ ((m + 1) + 1) - 1 = m + 1
        OBVIOUS
    <2>2. a[m + 1] = a[m] + g[m] /\ b[(m + 1) + 1] = b[m + 1] + f[m + 1] /\ g[m] = f[m + 1]
        BY <1>1, <1>2, <2>1 DEF Adds
    <2>3. b[m + 1] = f[0] + a[m] /\ a[m] \in Int /\ f[0] \in Int /\ f[m + 1] \in Int
        BY <1>1, <2>1 DEF Adds
    <2> QED BY <2>2, <2>3
<1>5. n \in B
    <2> B \in SUBSET Nat
        OBVIOUS
    <2> HIDE DEF B
    <2> QED BY <1>3, <1>4, SetInduction
<1> QED BY <1>1, <1>2, <1>5

-----------------------------------------------------------------------------
(***************************************************************************)
(* What drives, rings and the response queue hold.                         *)
(***************************************************************************)
One(p) == IF p.end THEN 1 ELSE 0

LEMMA Lengths ==
    /\ NumDrives \in Nat /\ NumDrives > 0 /\ CmdLen \in Nat /\ CmdLen > 0 /\ RspLen \in Nat /\ RspLen > 0
    /\ NPkts \in Nat /\ NPkts >= 4 /\ Htmo \in Nat
    /\ NPkts \div 2 \in Nat /\ NPkts \div 2 >= 2 /\ 2 * (NPkts \div 2) <= NPkts
<1>1. /\ NumDrives \in Nat /\ NumDrives > 0 /\ CmdLen \in Nat /\ CmdLen > 0 /\ RspLen \in Nat /\ RspLen > 0
      /\ NPkts \in Nat /\ NPkts >= 4 /\ Htmo \in Nat
    BY MscpAssumption
<1> QED BY <1>1

LEMMA EndsNat ==
    ASSUME NEW q \in Seq(Rsp)
    PROVE  Ends(q) \in Nat
<1> DEFINE f == [i \in 0 .. Len(q) - 1 |-> IF q[i + 1].end THEN 1 ELSE 0]
<1>1. Len(q) \in Nat /\ \A i \in 0 .. Len(q) - 1 : f[i] \in Nat
    BY LenProperties
<1>2. Sum(Len(q), f) \in Nat
    <2> HIDE DEF f
    <2> QED BY <1>1, SumNat
<1> QED BY <1>2 DEF Ends

LEMMA EndsEmpty == Ends(<<>>) = 0
<1> DEFINE f == [i \in 0 .. Len(<<>>) - 1 |-> IF <<>>[i + 1].end THEN 1 ELSE 0]
<1>1. Len(<<>>) = 0
    OBVIOUS
<1>2. Sum(0, f) = 0
    BY SumZero
<1> QED BY <1>1, <1>2 DEF Ends

LEMMA EndsAppend ==
    ASSUME NEW q \in Seq(Rsp), NEW p \in Rsp
    PROVE  Ends(Append(q, p)) = Ends(q) + One(p)
<1> DEFINE n == Len(q)
           r == Append(q, p)
           f == [i \in 0 .. n - 1 |-> IF q[i + 1].end THEN 1 ELSE 0]
           g == [i \in 0 .. Len(r) - 1 |-> IF r[i + 1].end THEN 1 ELSE 0]
<1>1. /\ n \in Nat /\ Len(r) = n + 1 /\ r[n + 1] = p
      /\ \A i \in 1 .. n : r[i] = q[i]
    BY LenProperties, AppendProperties
<1> HIDE DEF n, r
<1>2. /\ \A i \in 0 .. n : g[i] \in Int
      /\ g[n] = One(p)
      /\ \A i \in 0 .. n - 1 : g[i] \in Int
      /\ \A i \in 0 .. n - 1 : g[i] = f[i]
    BY <1>1 DEF One
<1>3. Sum(n + 1, g) = Sum(n, g) + One(p)
    <2> HIDE DEF g, f
    <2> QED BY <1>1, <1>2, SumStep
<1>4. Sum(n, f) = Sum(n, g)
    <2> HIDE DEF g, f
    <2> QED BY <1>1, <1>2, SumSame
<1>5. Ends(q) = Sum(n, f) /\ Ends(r) = Sum(n + 1, g)
    BY <1>1 DEF Ends, n
<1> QED BY <1>3, <1>4, <1>5 DEF r

LEMMA EndsCons ==
    ASSUME NEW q \in Seq(Rsp), NEW p \in Rsp
    PROVE  Ends(<<p>> \o q) = One(p) + Ends(q)
<1> DEFINE n == Len(q)
           r == <<p>> \o q
           f == [i \in 0 .. n - 1 |-> IF q[i + 1].end THEN 1 ELSE 0]
           g == [i \in 0 .. Len(r) - 1 |-> IF r[i + 1].end THEN 1 ELSE 0]
<1>1. /\ n \in Nat /\ Len(r) = n + 1 /\ r[1] = p
      /\ \A i \in 1 .. n : r[i + 1] = q[i]
    <2> <<p>> \in Seq(Rsp) /\ Len(<<p>>) = 1 /\ <<p>>[1] = p
        OBVIOUS
    <2> n \in Nat
        BY LenProperties
    <2> QED BY ConcatProperties
<1> HIDE DEF n, r
<1>2. /\ \A i \in 0 .. n : g[i] \in Int
      /\ g[0] = One(p)
      /\ \A i \in 0 .. n - 1 : f[i] = g[i + 1]
    <2>1. \A i \in 0 .. n : g[i] \in Int
        BY <1>1
    <2>2. g[0] = One(p)
        BY <1>1 DEF One
    <2>3. \A i \in 0 .. n - 1 : i + 1 \in 1 .. n /\ i + 1 \in 0 .. Len(r) - 1
        BY <1>1
    <2>4. \A i \in 0 .. n - 1 : r[(i + 1) + 1] = q[i + 1]
        BY <1>1, <2>3
    <2>5. \A i \in 0 .. n - 1 : f[i] = g[i + 1]
        BY <2>3, <2>4
    <2> QED BY <2>1, <2>2, <2>5
<1>3. Sum(n + 1, g) = g[0] + Sum(n, f)
    <2> HIDE DEF g, f
    <2> QED BY <1>1, <1>2, SumShift
<1>4. Ends(q) = Sum(n, f) /\ Ends(r) = Sum(n + 1, g)
    BY <1>1 DEF Ends, n
<1> QED BY <1>2, <1>3, <1>4 DEF r

LEMMA HeadAndTail ==
    ASSUME NEW R, NEW q \in Seq(R), q # <<>>
    PROVE  /\ Head(q) \in R /\ Tail(q) \in Seq(R) /\ q = <<Head(q)>> \o Tail(q)
           /\ Len(Tail(q)) = Len(q) - 1 /\ Len(q) \in Nat /\ Len(q) > 0
           /\ Head(q) = q[1] /\ \A i \in 1 .. Len(q) - 1 : Tail(q)[i] = q[i + 1]
<1>1. /\ Len(q) \in Nat /\ Len(q) > 0
    BY LenProperties, EmptySeq
<1>2. /\ Head(q) \in R /\ Tail(q) \in Seq(R) /\ Len(Tail(q)) = Len(q) - 1
      /\ Head(q) = q[1] /\ \A i \in 1 .. Len(q) - 1 : Tail(q)[i] = q[i + 1]
    BY <1>1, HeadTailProperties
<1>3. q = <<Head(q)>> \o Tail(q)
    <2> DEFINE h == <<Head(q)>>
               t == Tail(q)
    <2>1. h \in Seq(R) /\ Len(h) = 1 /\ h[1] = q[1] /\ t \in Seq(R)
        BY <1>2
    <2>2. Len(t) = Len(q) - 1 /\ \A i \in 1 .. Len(q) - 1 : t[i] = q[i + 1]
        BY <1>2
    <2> HIDE DEF h, t
    <2>0. /\ h \o t \in Seq(R)
          /\ Len(h \o t) = Len(h) + Len(t)
          /\ \A i \in 1 .. Len(h) + Len(t) : (h \o t)[i] = IF i <= Len(h) THEN h[i] ELSE t[i - Len(h)]
        BY <2>1, ConcatProperties
    <2>3. h \o t \in Seq(R) /\ Len(h \o t) = Len(q)
        BY <1>1, <2>0, <2>1, <2>2
    <2>4. \A i \in 1 .. Len(q) : (h \o t)[i] = q[i]
        <3> SUFFICES ASSUME NEW i \in 1 .. Len(q) PROVE (h \o t)[i] = q[i]
            OBVIOUS
        <3>1. (h \o t)[i] = IF i <= 1 THEN h[i] ELSE t[i - 1]
            BY <1>1, <2>0, <2>1, <2>2
        <3>2. CASE i = 1
            BY <2>1, <3>1, <3>2
        <3>3. CASE i # 1
            <4> i - 1 \in 1 .. Len(q) - 1 /\ (i - 1) + 1 = i /\ ~(i <= 1)
                BY <1>1, <3>3
            <4> QED BY <2>2, <3>1
        <3> QED BY <3>2, <3>3
    <2>5. h \o t = q
        BY <2>3, <2>4, SeqEqual
    <2> QED BY <2>5 DEF h, t
<1> QED BY <1>1, <1>2, <1>3

LEMMA EndsTail ==
    ASSUME NEW q \in Seq(Rsp), q # <<>>
    PROVE  Ends(q) = One(Head(q)) + Ends(Tail(q))
<1>1. Head(q) \in Rsp /\ Tail(q) \in Seq(Rsp) /\ q = <<Head(q)>> \o Tail(q)
    BY HeadAndTail
<1> QED BY <1>1, EndsCons

(* Where each log is followed by an end packet there are no more logs than *)
(* end packets.                                                            *)
LEMMA PairedTail ==
    ASSUME NEW q \in Seq(Rsp), Paired(q), q # <<>>
    PROVE  /\ Paired(Tail(q))
           /\ ~Head(q).end => Tail(q) # <<>> /\ Head(Tail(q)).end
<1>1. /\ Tail(q) \in Seq(Rsp) /\ Len(Tail(q)) = Len(q) - 1 /\ Len(q) \in Nat /\ Len(q) > 0
      /\ Head(q) = q[1] /\ \A i \in 1 .. Len(q) - 1 : Tail(q)[i] = q[i + 1]
    BY HeadAndTail
<1> DEFINE t == Tail(q)
<1>2. Paired(t)
    <2> SUFFICES ASSUME NEW i \in 1 .. Len(t), ~t[i].end PROVE i < Len(t) /\ t[i + 1].end
        BY DEF Paired
    <2>1. i \in 1 .. Len(q) - 1 /\ i + 1 \in 1 .. Len(q) /\ Len(t) = Len(q) - 1
        BY <1>1
    <2>2. i + 1 < Len(q) /\ q[(i + 1) + 1].end
        BY <1>1, <2>1 DEF Paired
    <2>3. i + 1 \in 1 .. Len(q) - 1
        BY <1>1, <2>1, <2>2
    <2> QED BY <1>1, <2>1, <2>2, <2>3
<1>3. ASSUME ~Head(q).end PROVE t # <<>> /\ Head(t).end
    <2>1. 1 < Len(q) /\ q[1 + 1].end
        BY <1>1, <1>3 DEF Paired
    <2>2. Len(t) > 0 /\ t[1] = q[1 + 1]
        BY <1>1, <2>1
    <2>3. t # <<>>
        <3>1. Len(<<>>) = 0
            OBVIOUS
        <3> HIDE DEF t
        <3> QED BY <2>2, <3>1
    <2>4. Head(t) = t[1]
        BY <1>1, <2>3, HeadAndTail
    <2> QED BY <2>1, <2>2, <2>3, <2>4
<1> QED BY <1>2, <1>3

LEMMA PairedBare ==
    ASSUME NEW q \in Seq(Rsp), Paired(q)
    PROVE  Bare(q) \in Nat /\ (q # <<>> /\ Head(q).end => Bare(q) >= 1)
<1> DEFINE B == {m \in Nat : \A r \in Seq(Rsp) : Len(r) <= m /\ Paired(r) => Bare(r) \in Nat}
<1>0. ASSUME NEW r \in Seq(Rsp), r # <<>>
      PROVE  Bare(r) = 2 * One(Head(r)) - 1 + Bare(Tail(r)) /\ Bare(Tail(r)) \in Int
    <2>1. /\ Tail(r) \in Seq(Rsp) /\ Len(Tail(r)) = Len(r) - 1 /\ Len(r) \in Nat
        BY <1>0, HeadAndTail
    <2>2. Ends(Tail(r)) \in Nat /\ One(Head(r)) \in Nat
        BY <2>1, EndsNat DEF One
    <2>3. Ends(r) = One(Head(r)) + Ends(Tail(r))
        BY <1>0, EndsTail
    <2> QED BY <2>1, <2>2, <2>3 DEF Bare
<1>1. 0 \in B
    <2> SUFFICES ASSUME NEW r \in Seq(Rsp), Len(r) <= 0 PROVE Bare(r) \in Nat
        OBVIOUS
    <2>1. r = <<>>
        BY LenProperties, EmptySeq
    <2> QED BY <2>1, EndsEmpty DEF Bare
<1>2. ASSUME NEW m \in B PROVE m + 1 \in B
    <2> SUFFICES ASSUME NEW r \in Seq(Rsp), Len(r) <= m + 1, Paired(r) PROVE Bare(r) \in Nat
        OBVIOUS
    <2>0. m \in Nat /\ \A x \in Seq(Rsp) : Len(x) <= m /\ Paired(x) => Bare(x) \in Nat
        OBVIOUS
    <2> HIDE DEF B
    <2>1. CASE r = <<>>
        BY <2>1, EndsEmpty DEF Bare
    <2>2. CASE r # <<>>
        <3> DEFINE t == Tail(r)
        <3>1. t \in Seq(Rsp) /\ Len(t) = Len(r) - 1 /\ Len(r) \in Nat /\ Paired(t)
            BY <2>2, HeadAndTail, PairedTail
        <3>2. Bare(t) \in Nat /\ Len(t) <= m
            <4> HIDE DEF t
            <4>1. Len(t) <= m
                BY <2>0, <3>1
            <4> QED BY <2>0, <3>1, <4>1
        <3>3. CASE Head(r).end
            BY <1>0, <2>2, <3>2, <3>3 DEF One
        <3>4. CASE ~Head(r).end
            <4>1. t # <<>> /\ Head(t).end
                BY <2>2, <3>4, PairedTail
            <4>2. Tail(t) \in Seq(Rsp) /\ Len(Tail(t)) = Len(t) - 1 /\ Paired(Tail(t)) /\ Len(t) \in Nat
                BY <3>1, <4>1, HeadAndTail, PairedTail
            <4>3. Bare(Tail(t)) \in Nat
                <5> DEFINE x == Tail(t)
                <5>1. x \in Seq(Rsp) /\ Len(x) = Len(t) - 1 /\ Paired(x) /\ Len(t) \in Nat
                    BY <4>2
                <5> HIDE DEF x, t
                <5>2. Len(x) <= m
                    BY <2>0, <3>2, <5>1
                <5>3. Bare(x) \in Nat
                    BY <2>0, <5>1, <5>2
                <5> QED BY <5>3 DEF x, t
            <4>4. Bare(t) = 2 * One(Head(t)) - 1 + Bare(Tail(t))
                BY <1>0, <3>1, <4>1
            <4>5. Bare(r) = 2 * One(Head(r)) - 1 + Bare(t)
                BY <1>0, <2>2
            <4>6. One(Head(t)) = 1 /\ One(Head(r)) = 0
                BY <3>4, <4>1 DEF One
            <4> HIDE DEF t
            <4> QED BY <4>3, <4>4, <4>5, <4>6
        <3> QED BY <3>3, <3>4
    <2> QED BY <2>1, <2>2
<1>3. \A r \in Seq(Rsp) : Paired(r) => Bare(r) \in Nat
    <2> SUFFICES ASSUME NEW r \in Seq(Rsp), Paired(r) PROVE Bare(r) \in Nat
        OBVIOUS
    <2>1. Len(r) \in Nat
        BY LenProperties
    <2>2. B \in SUBSET Nat
        OBVIOUS
    <2>3. Len(r) \in B
        <3> HIDE DEF B
        <3> QED BY <1>1, <1>2, <2>1, <2>2, SetInduction
    <2> QED BY <2>1, <2>3
<1>4. ASSUME q # <<>>, Head(q).end PROVE Bare(q) >= 1
    <2>1. Tail(q) \in Seq(Rsp) /\ Paired(Tail(q))
        BY <1>4, HeadAndTail, PairedTail
    <2>2. Bare(Tail(q)) \in Nat
        BY <1>3, <2>1
    <2>3. Bare(q) = 2 * One(Head(q)) - 1 + Bare(Tail(q)) /\ One(Head(q)) = 1
        BY <1>0, <1>4 DEF One
    <2> QED BY <2>2, <2>3
<1> QED BY <1>3, <1>4

(* The entry after another in a ring, and the one before it. *)
LEMMA Around ==
    ASSUME NEW n \in Nat, n > 0, NEW i \in 0 .. n - 1
    PROVE  /\ (i + 1) % n = IF i = n - 1 THEN 0 ELSE i + 1
           /\ Prior(i, n) = IF i = 0 THEN n - 1 ELSE i - 1
           /\ (i + 1) % n \in 0 .. n - 1 /\ Prior(i, n) \in 0 .. n - 1
           /\ Prior((i + 1) % n, n) = i
<1>1. (i + 1) % n = IF i = n - 1 THEN 0 ELSE i + 1
    OBVIOUS
<1>2. \A j \in 0 .. n - 1 : Prior(j, n) = IF j = 0 THEN n - 1 ELSE j - 1
    BY DEF Prior
<1> QED BY <1>1, <1>2

LEMMA HeldIs ==
    ASSUME NEW u, NEW n \in Nat, Len(u.pktq) = n
    PROVE  /\ Held(u) \in Nat
           /\ u.cpkt = Nil => Held(u) = n
           /\ u.cpkt # Nil => Held(u) = n + 1
<1>1. CASE u.cpkt = Nil
    BY <1>1 DEF Held
<1>2. CASE u.cpkt # Nil
    BY <1>2 DEF Held
<1> QED BY <1>1, <1>2

LEMMA HeldNat ==
    ASSUME NEW units \in Drives
    PROVE  /\ HeldInAll(units) \in Nat
           /\ \A d \in Drive : Held(units[d]) \in Nat /\ Held(units[d]) <= HeldInAll(units)
<1> DEFINE f == [d \in Drive |-> Held(units[d])]
<1>1. \A d \in Drive : Held(units[d]) \in Nat
    <2> SUFFICES ASSUME NEW d \in Drive PROVE Held(units[d]) \in Nat
        OBVIOUS
    <2>1. units[d].pktq \in Seq(Command)
        BY DEF Drives, Unit
    <2>2. Len(units[d].pktq) \in Nat
        BY <2>1, LenProperties
    <2> DEFINE n == Len(units[d].pktq)
    <2>3. n \in Nat /\ Len(units[d].pktq) = n
        BY <2>2
    <2> HIDE DEF n
    <2> QED BY <2>3, HeldIs
<1>2. \A d \in 0 .. NumDrives - 1 : f[d] \in Nat /\ f[d] = Held(units[d])
    BY <1>1 DEF Drive
<1>3. HeldInAll(units) = Sum(NumDrives, f)
    BY DEF HeldInAll
<1>4. Sum(NumDrives, f) \in Nat /\ \A d \in 0 .. NumDrives - 1 : f[d] <= Sum(NumDrives, f)
    <2> HIDE DEF f
    <2>1. \A d \in 0 .. NumDrives - 1 : f[d] \in Nat
        BY <1>2
    <2> QED BY <2>1, Lengths, SumNat
<1> HIDE DEF f
<1> QED BY <1>1, <1>2, <1>3, <1>4 DEF Drive

(* What a change of one drive does to what all of them hold. *)
LEMMA HeldChanged ==
    ASSUME NEW units \in Drives, NEW others \in Drives, NEW d \in Drive,
           \A e \in Drive : e # d => Held(others[e]) = Held(units[e])
    PROVE  HeldInAll(others) = HeldInAll(units) - Held(units[d]) + Held(others[d])
<1> DEFINE f == [e \in Drive |-> Held(units[e])]
           g == [e \in Drive |-> Held(others[e])]
<1>1. /\ \A e \in 0 .. NumDrives - 1 : f[e] \in Int /\ g[e] \in Int
      /\ \A e \in 0 .. NumDrives - 1 : e # d => f[e] = g[e]
      /\ d \in 0 .. NumDrives - 1 /\ f[d] = Held(units[d]) /\ g[d] = Held(others[d])
    <2>1. \A e \in Drive : Held(units[e]) \in Nat /\ Held(others[e]) \in Nat
        BY HeldNat
    <2> QED BY <2>1 DEF Drive
<1>2. Sum(NumDrives, g) = Sum(NumDrives, f) - f[d] + g[d]
    <2> HIDE DEF f, g
    <2>1. \A e \in 0 .. NumDrives - 1 : f[e] \in Int /\ g[e] \in Int
        BY <1>1
    <2>2. \A e \in 0 .. NumDrives - 1 : e # d => f[e] = g[e]
        BY <1>1
    <2>3. d \in 0 .. NumDrives - 1 /\ NumDrives \in Nat
        BY <1>1, Lengths
    <2> QED BY <2>1, <2>2, <2>3, SumChanged
<1>3. HeldInAll(units) = Sum(NumDrives, f) /\ HeldInAll(others) = Sum(NumDrives, g)
    BY DEF HeldInAll
<1> QED BY <1>1, <1>2, <1>3

LEMMA HeldNone ==
    ASSUME NEW units \in Drives, \A d \in Drive : units[d].cpkt = Nil /\ units[d].pktq = <<>>
    PROVE  HeldInAll(units) = 0
<1> DEFINE f == [d \in Drive |-> Held(units[d])]
<1>1. \A d \in 0 .. NumDrives - 1 : f[d] = 0
    <2>1. Len(<<>>) = 0
        OBVIOUS
    <2>2. \A d \in Drive : Held(units[d]) = 0
        BY <2>1, HeldIs
    <2> QED BY <2>2 DEF Drive
<1>2. Sum(NumDrives, f) = 0
    <2> HIDE DEF f
    <2> QED BY <1>1, Lengths, SumZero
<1> QED BY <1>2 DEF HeldInAll

(* The entries of the command ring that are the controller's. *)
LEMMA InRingChanged ==
    ASSUME NEW ring \in CmdRing, NEW i \in 0 .. CmdLen - 1, NEW e \in [own : BOOLEAN, pkt : Command \cup {Nil}]
    PROVE  /\ InRing(ring) \in Nat
           /\ InRing([ring EXCEPT ![i] = e])
              = InRing(ring) - (IF ring[i].own THEN 1 ELSE 0) + (IF e.own THEN 1 ELSE 0)
           /\ ring[i].own => InRing(ring) >= 1
<1> DEFINE other == [ring EXCEPT ![i] = e]
           f == [j \in 0 .. CmdLen - 1 |-> IF ring[j].own THEN 1 ELSE 0]
           g == [j \in 0 .. CmdLen - 1 |-> IF other[j].own THEN 1 ELSE 0]
<1>1. /\ \A j \in 0 .. CmdLen - 1 : f[j] \in Int /\ g[j] \in Int
      /\ \A j \in 0 .. CmdLen - 1 : f[j] \in Nat
      /\ \A j \in 0 .. CmdLen - 1 : j # i => f[j] = g[j]
      /\ f[i] = IF ring[i].own THEN 1 ELSE 0
      /\ g[i] = IF e.own THEN 1 ELSE 0
    BY DEF CmdRing
<1>2. InRing(ring) = Sum(CmdLen, f) /\ InRing(other) = Sum(CmdLen, g)
    BY DEF InRing
<1> HIDE DEF f, g
<1>3. \A j \in 0 .. CmdLen - 1 : f[j] \in Int /\ g[j] \in Int
    BY <1>1
<1>4. \A j \in 0 .. CmdLen - 1 : j # i => f[j] = g[j]
    BY <1>1
<1>5. \A j \in 0 .. CmdLen - 1 : f[j] \in Nat
    BY <1>1
<1>6. Sum(CmdLen, g) = Sum(CmdLen, f) - f[i] + g[i]
    BY <1>3, <1>4, Lengths, SumChanged
<1>7. Sum(CmdLen, f) \in Nat /\ f[i] <= Sum(CmdLen, f)
    BY <1>5, Lengths, SumNat
<1> QED BY <1>1, <1>2, <1>6, <1>7

LEMMA InRingEmpty ==
    InRing(Empty(CmdLen, FALSE)) = 0 /\ Empty(CmdLen, FALSE) \in CmdRing
<1> DEFINE ring == Empty(CmdLen, FALSE)
           f == [j \in 0 .. CmdLen - 1 |-> IF ring[j].own THEN 1 ELSE 0]
<1>1. \A j \in 0 .. CmdLen - 1 : f[j] = 0
    BY DEF Empty
<1>2. Sum(CmdLen, f) = 0
    <2> HIDE DEF f
    <2> QED BY <1>1, Lengths, SumZero
<1>3. ring \in CmdRing
    BY DEF Empty, CmdRing
<1> QED BY <1>2, <1>3 DEF InRing

(* The credits an entry of the response ring gives to the host. *)
Worth(e) == IF Filled(e) /\ e.pkt.end THEN e.pkt.cr + 1 ELSE 0

LEMMA WorthNat ==
    ASSUME NEW e \in [own : BOOLEAN, pkt : Given \cup {Nil}]
    PROVE  Worth(e) \in Nat
<1>1. Filled(e) => e.pkt \in Given
    BY DEF Filled
<1> QED BY <1>1 DEF Worth, Given

LEMMA OnTheirWayChanged ==
    ASSUME NEW ring \in RspRing, NEW i \in 0 .. RspLen - 1, NEW e \in [own : BOOLEAN, pkt : Given \cup {Nil}]
    PROVE  /\ OnTheirWay(ring) \in Nat
           /\ OnTheirWay([ring EXCEPT ![i] = e]) = OnTheirWay(ring) - Worth(ring[i]) + Worth(e)
           /\ Worth(ring[i]) \in Nat /\ Worth(ring[i]) <= OnTheirWay(ring) /\ Worth(e) \in Nat
<1> DEFINE other == [ring EXCEPT ![i] = e]
           f == [j \in 0 .. RspLen - 1 |-> IF Filled(ring[j]) /\ ring[j].pkt.end THEN ring[j].pkt.cr + 1 ELSE 0]
           g == [j \in 0 .. RspLen - 1 |-> IF Filled(other[j]) /\ other[j].pkt.end THEN other[j].pkt.cr + 1 ELSE 0]
<1>0. \A j \in 0 .. RspLen - 1 : Worth(ring[j]) \in Nat /\ Worth(other[j]) \in Nat
    <2>1. \A j \in 0 .. RspLen - 1 : /\ ring[j] \in [own : BOOLEAN, pkt : Given \cup {Nil}]
                                     /\ other[j] \in [own : BOOLEAN, pkt : Given \cup {Nil}]
        BY DEF RspRing
    <2> HIDE DEF other
    <2> QED BY <2>1, WorthNat
<1>1. /\ \A j \in 0 .. RspLen - 1 : f[j] = Worth(ring[j])
      /\ \A j \in 0 .. RspLen - 1 : g[j] = Worth(other[j])
    BY DEF Worth
<1>2. OnTheirWay(ring) = Sum(RspLen, f) /\ OnTheirWay(other) = Sum(RspLen, g)
    BY DEF OnTheirWay
<1>3. other[i] = e /\ \A j \in 0 .. RspLen - 1 : j # i => other[j] = ring[j]
    BY DEF RspRing
<1> HIDE DEF f, g, other
<1>4. \A j \in 0 .. RspLen - 1 : f[j] \in Int /\ g[j] \in Int
    BY <1>0, <1>1
<1>5. \A j \in 0 .. RspLen - 1 : j # i => f[j] = g[j]
    BY <1>1, <1>3
<1>6. \A j \in 0 .. RspLen - 1 : f[j] \in Nat
    BY <1>0, <1>1
<1>7. Sum(RspLen, g) = Sum(RspLen, f) - f[i] + g[i]
    BY <1>4, <1>5, Lengths, SumChanged
<1>8. Sum(RspLen, f) \in Nat /\ f[i] <= Sum(RspLen, f)
    BY <1>6, Lengths, SumNat
<1>9. f[i] = Worth(ring[i]) /\ g[i] = Worth(e) /\ Worth(e) \in Nat /\ Worth(ring[i]) \in Nat
    BY <1>0, <1>1, <1>3
<1> QED BY <1>2, <1>7, <1>8, <1>9 DEF other

LEMMA OnTheirWayNone ==
    OnTheirWay(Empty(RspLen, TRUE)) = 0 /\ \A own \in BOOLEAN : Empty(RspLen, own) \in RspRing
<1> DEFINE ring == Empty(RspLen, TRUE)
           f == [j \in 0 .. RspLen - 1 |-> IF Filled(ring[j]) /\ ring[j].pkt.end THEN ring[j].pkt.cr + 1 ELSE 0]
<1>1. \A j \in 0 .. RspLen - 1 : f[j] = 0
    BY DEF Empty, Filled
<1>2. Sum(RspLen, f) = 0
    <2> HIDE DEF f
    <2> QED BY <1>1, Lengths, SumZero
<1>3. \A own \in BOOLEAN : Empty(RspLen, own) \in RspRing
    BY DEF Empty, RspRing
<1> QED BY <1>2, <1>3 DEF OnTheirWay

-----------------------------------------------------------------------------
(***************************************************************************)
(* States, part by part.                                                   *)
(***************************************************************************)
(* A record with the fields of a state, whatever is in them. *)
Shaped(s) == s \in [cp : {s.cp}, unit : {s.unit}, active : {s.active}, comm : {s.comm}]

LEMMA ShapedStates ==
    ASSUME NEW s
    PROVE  s \in States <=> /\ Shaped(s)
                            /\ s.cp \in Msc /\ s.unit \in Drives /\ s.active \subseteq 0 .. NumDrives + 1
                            /\ s.comm \in [cmd : CmdRing, rsp : RspRing]
BY DEF Shaped, States

LEMMA ShapedCp ==
    ASSUME NEW s, Shaped(s), NEW m, NEW t, t = [s EXCEPT !.cp = m]
    PROVE  Shaped(t) /\ t.cp = m /\ t.unit = s.unit /\ t.active = s.active /\ t.comm = s.comm
BY DEF Shaped

LEMMA ShapedUnit ==
    ASSUME NEW s, Shaped(s), NEW m, NEW t, t = [s EXCEPT !.unit = m]
    PROVE  Shaped(t) /\ t.cp = s.cp /\ t.unit = m /\ t.active = s.active /\ t.comm = s.comm
BY DEF Shaped

LEMMA ShapedActive ==
    ASSUME NEW s, Shaped(s), NEW m, NEW t, t = [s EXCEPT !.active = m]
    PROVE  Shaped(t) /\ t.cp = s.cp /\ t.unit = s.unit /\ t.active = m /\ t.comm = s.comm
BY DEF Shaped

(***************************************************************************)
(* A packet is put into the response ring or into the queue.               *)
(***************************************************************************)
(* What of the controller's MSC most handlers leave alone. *)
Alike(m, n) ==
    /\ n.csta = m.csta /\ n.perr = m.perr /\ n.saw = m.saw /\ n.s1dat = m.s1dat /\ n.ths = m.ths /\ n.pip = m.pip
    /\ n.htmo = m.htmo /\ n.cidx = m.cidx

(* The entry x with a packet, given to the host. *)
Filling(x, pkt, cr) == [[x EXCEPT !.pkt = WithCredits(pkt, cr)] EXCEPT !.own = FALSE]

(* The packet is in the ring, with credits cr. *)
Delivered(s, t, pkt, cr) ==
    LET i == s.cp.ridx
        ring == [s.comm.rsp EXCEPT ![i] = Filling(s.comm.rsp[i], pkt, cr)]
    IN  /\ s.comm.rsp[i].own
        /\ cr \in Nat /\ (~pkt.end => cr = 0)
        /\ t \in States /\ Alike(s.cp, t.cp)
        /\ t.unit = s.unit /\ t.active = s.active /\ t.comm.cmd = s.comm.cmd /\ t.comm.rsp = ring
        /\ s.cp.credits = t.cp.credits + cr
        /\ t.cp.free = s.cp.free + 1 /\ s.cp.pbsy = t.cp.pbsy + 1 /\ t.cp.rspq = s.cp.rspq
        /\ t.cp.ridx = (i + 1) % RspLen
        /\ t.cp.irq = (s.cp.irq \/ ("VEC" \in s.cp.s1dat /\ Interrupts(ring, RspLen, i)))

(* The state t after Sent, and after the step to the next entry. *)
AfterSent(s, t, pkt, cr) ==
    /\ Shaped(t) /\ t.unit = s.unit /\ t.active = s.active
    /\ t.cp = [s.cp EXCEPT !.credits = @ - cr, !.free = @ + 1, !.pbsy = @ - 1,
                           !.hat = IF s.cp.pbsy = 1 THEN s.cp.htmo ELSE @]
    /\ t.comm = [s.comm EXCEPT !.rsp = [s.comm.rsp EXCEPT ![s.cp.ridx] =
                                          [s.comm.rsp[s.cp.ridx] EXCEPT !.pkt = WithCredits(pkt, cr)]]]

AfterTurn(s, t, ring, r) ==
    /\ Shaped(t) /\ t.unit = s.unit /\ t.active = s.active
    /\ t.cp = [s.cp EXCEPT !.ridx = r]
    /\ t.comm = [s.comm EXCEPT !.rsp = ring] /\ t.comm.rsp = ring

AfterInterrupt(s, t) ==
    /\ Shaped(t) /\ t.unit = s.unit /\ t.active = s.active /\ t.comm = s.comm
    /\ t.cp = [s.cp EXCEPT !.irq = s.cp.irq \/ "VEC" \in s.cp.s1dat]

LEMMA SentIs ==
    ASSUME NEW s, Shaped(s), NEW pkt, NEW cr, cr = Credit(s, pkt)
    PROVE  AfterSent(s, Sent(s, pkt), pkt, cr)
BY DEF Shaped, Sent, AfterSent

LEMMA Turned ==
    ASSUME NEW s, Shaped(s), s.comm \in [cmd : {s.comm.cmd}, rsp : {s.comm.rsp}], NEW i, NEW r, NEW ring,
           ring = [s.comm.rsp EXCEPT ![i] = [s.comm.rsp[i] EXCEPT !.own = FALSE]]
    PROVE  AfterTurn(s, [s EXCEPT !.comm.rsp[i].own = FALSE, !.cp.ridx = r], ring, r)
BY DEF Shaped, AfterTurn

LEMMA InterruptIs ==
    ASSUME NEW s, Shaped(s)
    PROVE  AfterInterrupt(s, rq_ring_int(s))
BY DEF Shaped, rq_ring_int, AfterInterrupt

LEMMA Delivers ==
    ASSUME NEW s \in States, NEW pkt \in Rsp, s.cp.pbsy > 0, s.comm.rsp[s.cp.ridx].own
    PROVE  Delivered(s, PutRspDesc(Sent(s, pkt)), pkt, Credit(s, pkt))
<1> DEFINE cr == Credit(s, pkt)
           i == s.cp.ridx
           u == Sent(s, pkt)
           t == PutRspDesc(u)
           e == Filling(s.comm.rsp[i], pkt, cr)
           ring == [s.comm.rsp EXCEPT ![i] = e]
           hat == IF s.cp.pbsy = 1 THEN s.cp.htmo ELSE s.cp.hat
           irq == s.cp.irq \/ ("VEC" \in s.cp.s1dat /\ Interrupts(ring, RspLen, i))
           next == (i + 1) % RspLen
           m == [s.cp EXCEPT !.credits = s.cp.credits - cr, !.free = s.cp.free + 1, !.pbsy = s.cp.pbsy - 1,
                             !.hat = hat]
<1>1. /\ s.cp \in Msc /\ s.comm \in [cmd : CmdRing, rsp : RspRing] /\ s.comm.rsp \in RspRing
      /\ s.cp.credits \in Nat /\ s.cp.free \in Nat /\ s.cp.pbsy \in Nat /\ i \in 0 .. RspLen - 1
      /\ hat \in Nat /\ s.cp.irq \in BOOLEAN /\ Shaped(s) /\ s.unit \in Drives
      /\ s.active \subseteq 0 .. NumDrives + 1 /\ s.comm.rsp[i] \in [own : BOOLEAN, pkt : Given \cup {Nil}]
    BY DEF States, Msc, Shaped, RspRing
<1>2. cr \in Nat /\ cr <= s.cp.credits /\ (~pkt.end => cr = 0)
    BY <1>1 DEF Credit
<1>3. next \in 0 .. RspLen - 1
    BY <1>1, Around, Lengths
<1>4. e \in [own : BOOLEAN, pkt : Given \cup {Nil}]
    <2>1. WithCredits(pkt, cr) \in Given
        BY <1>2 DEF WithCredits, Given, Rsp
    <2> QED BY <1>1, <2>1 DEF Filling
<1>5. ring \in RspRing
    <2> HIDE DEF e
    <2> QED BY <1>1, <1>4 DEF RspRing
<1>6. irq \in BOOLEAN
    BY <1>1
<1>7. s.cp.credits - cr \in Nat /\ s.cp.free + 1 \in Nat /\ s.cp.pbsy - 1 \in Nat
    BY <1>1, <1>2
<1>8. /\ Shaped(u) /\ u.unit = s.unit /\ u.active = s.active
      /\ u.cp = m
      /\ u.comm = [s.comm EXCEPT !.rsp = [s.comm.rsp EXCEPT ![i] = [s.comm.rsp[i] EXCEPT !.pkt = WithCredits(pkt, cr)]]]
    <2>1. AfterSent(s, u, pkt, cr)
        BY <1>1, SentIs
    <2> HIDE DEF u, cr
    <2> QED BY <2>1 DEF AfterSent
<1>9. /\ m \in Msc /\ m.ridx = i /\ m.irq = s.cp.irq /\ m.s1dat = s.cp.s1dat
      /\ Alike(s.cp, m) /\ m.rspq = s.cp.rspq
      /\ m.credits = s.cp.credits - cr /\ m.free = s.cp.free + 1 /\ m.pbsy = s.cp.pbsy - 1
    <2> HIDE DEF hat, cr
    <2> QED BY <1>1, <1>7 DEF Msc, Alike
<1>10. /\ u.comm \in [cmd : {s.comm.cmd}, rsp : {u.comm.rsp}]
       /\ ring = [u.comm.rsp EXCEPT ![i] = [u.comm.rsp[i] EXCEPT !.own = FALSE]]
    <2>1. u.comm \in [cmd : {s.comm.cmd}, rsp : {u.comm.rsp}]
        <3> HIDE DEF u
        <3> QED BY <1>1, <1>8
    <2> DEFINE x == [s.comm.rsp[i] EXCEPT !.pkt = WithCredits(pkt, cr)]
    <2>2. u.comm.rsp = [s.comm.rsp EXCEPT ![i] = x]
        <3> HIDE DEF u, x
        <3> QED BY <1>1, <1>8 DEF x
    <2>3. e = [x EXCEPT !.own = FALSE]
        BY DEF Filling
    <2>4. i \in DOMAIN s.comm.rsp
        BY <1>1 DEF RspRing
    <2>5. u.comm.rsp[i] = x
        <3> HIDE DEF u, x
        <3> QED BY <2>2, <2>4
    <2>6. [u.comm.rsp EXCEPT ![i] = e] = ring
        <3> HIDE DEF u, x, e
        <3> QED BY <2>2, <2>4
    <2> HIDE DEF u, x, e, ring
    <2> QED BY <2>1, <2>3, <2>5, <2>6
<1> DEFINE v == [u EXCEPT !.comm.rsp[u.cp.ridx].own = FALSE, !.cp.ridx = (u.cp.ridx + 1) % RspLen]
<1>11. /\ Shaped(v) /\ v.unit = s.unit /\ v.active = s.active
       /\ v.cp = [m EXCEPT !.ridx = next]
       /\ v.comm = [u.comm EXCEPT !.rsp = ring] /\ v.comm.rsp = ring
    <2>1. u.cp.ridx = i /\ (u.cp.ridx + 1) % RspLen = next
        BY <1>8, <1>9
    <2>2. /\ Shaped(v) /\ v.unit = u.unit /\ v.active = u.active
          /\ v.cp = [u.cp EXCEPT !.ridx = next]
          /\ v.comm = [u.comm EXCEPT !.rsp = ring] /\ v.comm.rsp = ring
        <3>1. ring = [u.comm.rsp EXCEPT ![u.cp.ridx] = [u.comm.rsp[u.cp.ridx] EXCEPT !.own = FALSE]]
            <4> HIDE DEF u, ring, i
            <4> QED BY <1>10, <2>1
        <3>2. u.comm \in [cmd : {u.comm.cmd}, rsp : {u.comm.rsp}]
            <4> HIDE DEF u
            <4> QED BY <1>10
        <3>3. Shaped(u)
            BY <1>8
        <3>4. AfterTurn(u, v, ring, (u.cp.ridx + 1) % RspLen)
            <4> HIDE DEF u, ring
            <4> QED BY <3>1, <3>2, <3>3, Turned
        <3> HIDE DEF u, ring, next, v
        <3> QED BY <2>1, <3>4 DEF AfterTurn
    <2> HIDE DEF v, u, m, ring, i, next
    <2> QED BY <1>8, <2>2
<1>12. t = IF Interrupts(ring, RspLen, i) THEN rq_ring_int(v) ELSE v
    <2>1. t = IF Interrupts(v.comm.rsp, RspLen, u.cp.ridx) THEN rq_ring_int(v) ELSE v
        <3> HIDE DEF u
        <3> QED BY DEF PutRspDesc
    <2>2. u.cp.ridx = i
        BY <1>8, <1>9
    <2> HIDE DEF t, v, u, ring, i
    <2> QED BY <1>11, <2>1, <2>2
<1>13. /\ v.cp \in Msc /\ Alike(s.cp, v.cp) /\ v.cp.rspq = s.cp.rspq /\ v.cp.irq = s.cp.irq /\ v.cp.s1dat = s.cp.s1dat
       /\ v.cp.credits = s.cp.credits - cr /\ v.cp.free = s.cp.free + 1 /\ v.cp.pbsy = s.cp.pbsy - 1
       /\ v.cp.ridx = next
    <2>1. m \in Msc /\ next \in 0 .. RspLen - 1 /\ v.cp = [m EXCEPT !.ridx = next]
        BY <1>3, <1>9, <1>11
    <2> HIDE DEF m, v, u, next, cr, hat, ring, irq, i
    <2>2. v.cp \in Msc
        BY <2>1, SMTT(30) DEF Msc
    <2>3. v.cp.ridx = next
        BY <2>1 DEF Msc
    <2>4. /\ Alike(m, v.cp) /\ v.cp.rspq = m.rspq /\ v.cp.irq = m.irq
          /\ v.cp.credits = m.credits /\ v.cp.free = m.free /\ v.cp.pbsy = m.pbsy
        BY <2>1 DEF Msc, Alike
    <2>5. Alike(s.cp, v.cp) /\ v.cp.s1dat = s.cp.s1dat
        BY <1>9, <2>4 DEF Alike
    <2> QED BY <1>9, <2>2, <2>3, <2>4, <2>5
<1>14. v.comm \in [cmd : CmdRing, rsp : RspRing] /\ v.comm.cmd = s.comm.cmd
    <2> HIDE DEF v, u, ring
    <2> QED BY <1>1, <1>5, <1>10, <1>11
<1>15. /\ Shaped(t) /\ t.unit = s.unit /\ t.active = s.active /\ t.comm = v.comm
       /\ t.cp \in Msc /\ Alike(s.cp, t.cp) /\ t.cp.rspq = s.cp.rspq
       /\ t.cp.credits = s.cp.credits - cr /\ t.cp.free = s.cp.free + 1 /\ t.cp.pbsy = s.cp.pbsy - 1
       /\ t.cp.ridx = next /\ t.cp.irq = irq
    <2>1. CASE Interrupts(ring, RspLen, i)
        <3>1. t = rq_ring_int(v)
            BY <1>12, <2>1
        <3>2. /\ Shaped(t) /\ t.unit = v.unit /\ t.active = v.active /\ t.comm = v.comm
              /\ t.cp = [v.cp EXCEPT !.irq = v.cp.irq \/ "VEC" \in v.cp.s1dat]
            <4> HIDE DEF t, v
            <4>1. AfterInterrupt(v, t)
                BY <1>11, <3>1, InterruptIs
            <4> QED BY <4>1 DEF AfterInterrupt
        <3>3. (v.cp.irq \/ "VEC" \in v.cp.s1dat) = irq
            <4> HIDE DEF v
            <4> QED BY <1>13, <2>1
        <3>4. t.cp = [v.cp EXCEPT !.irq = irq]
            BY <3>2, <3>3
        <3> HIDE DEF t, v, irq, next, cr
        <3>5. t.cp \in Msc
            BY <1>6, <1>13, <3>4 DEF Msc
        <3>6. Alike(v.cp, t.cp)
            BY <1>13, <3>4 DEF Msc, Alike
        <3>7. /\ t.cp.rspq = v.cp.rspq /\ t.cp.credits = v.cp.credits /\ t.cp.free = v.cp.free
              /\ t.cp.pbsy = v.cp.pbsy /\ t.cp.ridx = v.cp.ridx /\ t.cp.irq = irq
            BY <1>13, <3>4 DEF Msc
        <3>8. Alike(s.cp, t.cp)
            BY <1>13, <3>6 DEF Alike
        <3> QED BY <1>11, <1>13, <3>2, <3>5, <3>7, <3>8
    <2>2. CASE ~Interrupts(ring, RspLen, i)
        <3>1. t = v
            BY <1>12, <2>2
        <3>2. s.cp.irq = irq
            BY <1>1, <2>2
        <3> HIDE DEF t, v, irq, next, cr
        <3> QED BY <1>11, <1>13, <3>1, <3>2
    <2> QED BY <2>1, <2>2
<1>16. t \in States
    <2> HIDE DEF t, v
    <2> QED BY <1>1, <1>14, <1>15, ShapedStates
<1>17. s.cp.credits = t.cp.credits + cr /\ s.cp.pbsy = t.cp.pbsy + 1
    <2> HIDE DEF t, cr
    <2> QED BY <1>1, <1>2, <1>15
<1>18. t.comm.cmd = s.comm.cmd /\ t.comm.rsp = ring
    <2> HIDE DEF t, v, ring
    <2> QED BY <1>11, <1>14, <1>15
<1> HIDE DEF t
<1> QED BY <1>2, <1>15, <1>16, <1>17, <1>18 DEF Delivered, t

(***************************************************************************)
(* The response ring: what the host has yet to read is filled, the rest is *)
(* the controller's.                                                       *)
(***************************************************************************)
LEMMA UnreadFilled ==
    ASSUME NEW ring \in RspRing, NEW from \in 0 .. RspLen - 1, NEW to, NEW n \in 0 .. RspLen,
           Unread(ring, from, to, n), ~Filled(ring[from])
    PROVE  n = 0
<1>1. Off(from, from) = 0
    BY Lengths DEF Off
<1>2. ~(0 < n)
    BY <1>1 DEF Unread
<1> QED BY <1>2, Lengths

LEMMA UnreadMore ==
    ASSUME NEW ring \in RspRing, NEW from \in 0 .. RspLen - 1, NEW to \in 0 .. RspLen - 1, NEW n \in 0 .. RspLen,
           Unread(ring, from, to, n), ring[to].own, NEW e, Filled(e)
    PROVE  n + 1 \in 0 .. RspLen /\ Unread([ring EXCEPT ![to] = e], from, (to + 1) % RspLen, n + 1)
<1> DEFINE new == [ring EXCEPT ![to] = e]
<1>1. RspLen \in Nat /\ RspLen > 0 /\ n \in Nat /\ n <= RspLen
    BY Lengths
<1>2. to = IF from + n >= RspLen THEN from + n - RspLen ELSE from + n
    BY DEF Unread, Turn
<1>3. Off(to, from) < n => Filled(ring[to])
    BY DEF Unread
<1>4. ~(Off(to, from) < n)
    BY <1>3 DEF Filled
<1>5. n < RspLen /\ Off(to, from) = n
    BY <1>1, <1>2, <1>4 DEF Off
<1>6. (to + 1) % RspLen = IF to = RspLen - 1 THEN 0 ELSE to + 1
    BY <1>1, Around
<1>7. (to + 1) % RspLen = Turn(from, n + 1)
    BY <1>1, <1>2, <1>5, <1>6 DEF Turn
<1>8. ASSUME NEW i \in 0 .. RspLen - 1
      PROVE  IF Off(i, from) < n + 1 THEN Filled(new[i]) ELSE new[i].own
    <2>1. CASE i = to
        <3>1. new[i] = e
            BY <2>1 DEF RspRing
        <3>2. Off(i, from) < n + 1
            BY <1>1, <1>5, <2>1
        <3> QED BY <3>1, <3>2
    <2>2. CASE i # to
        <3>1. new[i] = ring[i]
            BY <2>2 DEF RspRing
        <3>2. Off(i, from) < n + 1 <=> Off(i, from) < n
            BY <1>1, <1>2, <1>5, <2>2 DEF Off
        <3>3. IF Off(i, from) < n THEN Filled(ring[i]) ELSE ring[i].own
            BY DEF Unread
        <3> QED BY <3>1, <3>2, <3>3
    <2> QED BY <2>1, <2>2
<1>9. Unread(new, from, (to + 1) % RspLen, n + 1)
    <2> HIDE DEF new
    <2> QED BY <1>7, <1>8 DEF Unread
<1> QED BY <1>1, <1>5, <1>9

(* A ring whose next entry is the host's is full. *)
LEMMA UnreadFull ==
    ASSUME NEW ring \in RspRing, NEW from \in 0 .. RspLen - 1, NEW to \in 0 .. RspLen - 1, NEW n \in 0 .. RspLen,
           Unread(ring, from, to, n), ~ring[to].own
    PROVE  \A i \in 0 .. RspLen - 1 : Filled(ring[i])
<1>1. RspLen \in Nat /\ RspLen > 0 /\ n \in Nat /\ n <= RspLen
    BY Lengths
<1>2. to = IF from + n >= RspLen THEN from + n - RspLen ELSE from + n
    BY DEF Unread, Turn
<1>3. Off(to, from) < n
    BY DEF Unread
<1>4. n = RspLen
    BY <1>1, <1>2, <1>3 DEF Off
<1>5. \A i \in 0 .. RspLen - 1 : Off(i, from) < n
    BY <1>1, <1>4 DEF Off
<1> QED BY <1>5 DEF Unread

LEMMA FillingFilled ==
    ASSUME NEW x \in [own : BOOLEAN, pkt : Given \cup {Nil}], NEW pkt \in Rsp, NEW cr \in Nat
    PROVE  LET e == Filling(x, pkt, cr)
           IN  /\ e \in [own : BOOLEAN, pkt : Given \cup {Nil}] /\ e.pkt.end = pkt.end
               /\ Filled(e) /\ ~e.own
               /\ Worth(e) = IF pkt.end THEN cr + 1 ELSE 0
<1> DEFINE e == Filling(x, pkt, cr)
           p == WithCredits(pkt, cr)
<1>1. p \in Given /\ p.end = pkt.end /\ p.cr = cr
    BY DEF WithCredits, Given, Rsp
<1>2. p # Nil
    BY <1>1 DEF Given, Nil
<1>3. e = [[x EXCEPT !.pkt = p] EXCEPT !.own = FALSE]
    BY DEF Filling
<1>4. e \in [own : BOOLEAN, pkt : Given \cup {Nil}] /\ e.pkt = p /\ e.own = FALSE
    <2> HIDE DEF e, p
    <2> QED BY <1>1, <1>3
<1>5. Filled(e)
    <2> HIDE DEF e, p
    <2> QED BY <1>2, <1>4 DEF Filled
<1>6. Worth(e) = IF pkt.end THEN cr + 1 ELSE 0
    <2> HIDE DEF e, p
    <2> QED BY <1>1, <1>4, <1>5 DEF Worth
<1> HIDE DEF e, p
<1> QED BY <1>1, <1>4, <1>5, <1>6 DEF e

LEMMA HostTypes ==
    ASSUME NEW h \in Hosts
    PROVE  /\ h.awake \in BOOLEAN /\ h.cidx \in 0 .. CmdLen - 1 /\ h.ridx \in 0 .. RspLen - 1
           /\ h.credits \in Nat /\ h.sent \in Nat
BY DEF Hosts

LEMMA StateTypes ==
    ASSUME NEW s \in States
    PROVE  /\ Shaped(s) /\ s.cp \in Msc /\ s.unit \in Drives /\ s.active \subseteq 0 .. NumDrives + 1
           /\ s.comm \in [cmd : CmdRing, rsp : RspRing] /\ s.comm.cmd \in CmdRing /\ s.comm.rsp \in RspRing
           /\ s.cp.credits \in Nat /\ s.cp.free \in Nat /\ s.cp.pbsy \in Nat
           /\ s.cp.ridx \in 0 .. RspLen - 1 /\ s.cp.cidx \in 0 .. CmdLen - 1
           /\ s.cp.rspq \in Seq(Rsp) /\ Len(s.cp.rspq) \in Nat /\ s.cp.irq \in BOOLEAN
<1>1. s.cp.rspq \in Seq(Rsp)
    BY DEF States, Msc
<1>2. Len(s.cp.rspq) \in Nat
    BY <1>1, LenProperties
<1> QED BY <1>1, <1>2 DEF States, Msc, Shaped

LEMMA RingsNat ==
    ASSUME NEW s \in States
    PROVE  InRing(s.comm.cmd) \in Nat /\ OnTheirWay(s.comm.rsp) \in Nat
<1>1. s.comm.cmd \in CmdRing /\ 0 \in 0 .. CmdLen - 1 /\ s.comm.cmd[0] \in [own : BOOLEAN, pkt : Command \cup {Nil}]
    BY StateTypes, Lengths DEF CmdRing
<1>2. s.comm.rsp \in RspRing /\ 0 \in 0 .. RspLen - 1 /\ s.comm.rsp[0] \in [own : BOOLEAN, pkt : Given \cup {Nil}]
    BY StateTypes, Lengths DEF RspRing
<1> QED BY <1>1, <1>2, InRingChanged, OnTheirWayChanged

LEMMA DeliveredCalled ==
    ASSUME NEW s \in States, NEW h \in Hosts, NEW t, NEW pkt \in Rsp, NEW cr, Delivered(s, t, pkt, cr),
           RingOrder(s, h), Called(s, h)
    PROVE  RingOrder(t, h) /\ Called(t, h)
<1> DEFINE to == s.cp.ridx
           from == h.ridx
           ring == s.comm.rsp
           e == Filling(ring[to], pkt, cr)
           new == [ring EXCEPT ![to] = e]
<1>1. /\ ring \in RspRing /\ from \in 0 .. RspLen - 1 /\ to \in 0 .. RspLen - 1
      /\ ring[to] \in [own : BOOLEAN, pkt : Given \cup {Nil}] /\ cr \in Nat /\ ring[to].own
      /\ t.comm.rsp = new /\ t.comm.cmd = s.comm.cmd /\ t.cp.ridx = (to + 1) % RspLen /\ t.cp.s1dat = s.cp.s1dat
      /\ t.cp.irq = (s.cp.irq \/ ("VEC" \in s.cp.s1dat /\ Interrupts(new, RspLen, to)))
    BY StateTypes, HostTypes DEF Delivered, RspRing, Alike
<1>2. e \in [own : BOOLEAN, pkt : Given \cup {Nil}] /\ Filled(e)
    BY <1>1, FillingFilled
<1>3. PICK n \in 0 .. RspLen : Unread(ring, from, to, n)
    BY DEF RingOrder
<1>4. n + 1 \in 0 .. RspLen /\ Unread(new, from, (to + 1) % RspLen, n + 1)
    <2> HIDE DEF ring, e, from, to
    <2> QED BY <1>1, <1>2, <1>3, UnreadMore
<1>5. RingOrder(t, h)
    <2> HIDE DEF new
    <2> QED BY <1>1, <1>4 DEF RingOrder
<1>6. ASSUME "VEC" \in t.cp.s1dat, ~h.awake, Filled(t.comm.rsp[from]) PROVE t.cp.irq
    <2>1. CASE from # to
        <3>1. new[from] = ring[from]
            BY <1>1, <2>1 DEF RspRing
        <3>2. s.cp.irq
            BY <1>1, <1>6, <3>1 DEF Called
        <3> QED BY <1>1, <3>2
    <2>2. CASE from = to
        <3>1. ~Filled(ring[from])
            BY <1>1, <2>2 DEF Filled
        <3>2. n = 0
            <4> HIDE DEF ring, from, to
            <4> QED BY <1>1, <1>3, <3>1, UnreadFilled
        <3>3. \A i \in 0 .. RspLen - 1 : ring[i].own
            BY <1>1, <1>3, <3>2, Lengths DEF Unread, Off
        <3>4. Prior(to, RspLen) \in 0 .. RspLen - 1 /\ (RspLen # 1 => Prior(to, RspLen) # to)
            <4>1. to \in 0 .. RspLen - 1 /\ RspLen \in Nat /\ RspLen > 0
                BY <1>1, Lengths
            <4> HIDE DEF to
            <4>2. /\ Prior(to, RspLen) = IF to = 0 THEN RspLen - 1 ELSE to - 1
                  /\ Prior(to, RspLen) \in 0 .. RspLen - 1
                BY <4>1, Around
            <4> QED BY <4>1, <4>2
        <3>5. RspLen # 1 => new[Prior(to, RspLen)].own
            <4> HIDE DEF e
            <4> QED BY <1>1, <3>3, <3>4 DEF RspRing
        <3>6. Interrupts(new, RspLen, to)
            <4> HIDE DEF new
            <4> QED BY <3>5 DEF Interrupts
        <3> QED BY <1>1, <1>6, <3>6
    <2> QED BY <2>1, <2>2
<1> QED BY <1>5, <1>6 DEF Called

LEMMA DeliveredBase ==
    ASSUME NEW s, NEW h, NEW k \in Nat, NEW c \in Nat, NEW t, NEW pkt \in Rsp, NEW cr,
           Base(s, h, k + 1, c + One(pkt)), Delivered(s, t, pkt, cr)
    PROVE  Base(t, h, k, c)
<1>1. s \in States /\ h \in Hosts /\ t \in States
    BY DEF Base, Delivered
<1>2. RingOrder(t, h) /\ Called(t, h)
    BY <1>1, DeliveredCalled DEF Base
<1>3. t.unit = s.unit /\ t.active = s.active /\ t.comm.cmd = s.comm.cmd /\ t.cp.rspq = s.cp.rspq
    BY DEF Delivered
<1>4. t.cp.csta = "UP" /\ t.cp.perr # "NSR" /\ OwnCommands(t.unit)
    BY <1>3 DEF Base, Delivered, Alike
<1>5. /\ HeldInAll(s.unit) \in Nat /\ Ends(s.cp.rspq) \in Nat
      /\ s.cp.free \in Nat /\ s.cp.pbsy \in Nat /\ s.cp.credits \in Nat
      /\ t.cp.free \in Nat /\ t.cp.pbsy \in Nat /\ t.cp.credits \in Nat /\ h.credits \in Nat
    BY <1>1, StateTypes, HostTypes, HeldNat, EndsNat
<1>6. Packets(t, k)
    <2>1. s.cp.free + s.cp.pbsy = NPkts - 1 /\ s.cp.pbsy = (k + 1) + Len(s.cp.rspq) + HeldInAll(s.unit)
        BY DEF Base, Packets
    <2>2. t.cp.free = s.cp.free + 1 /\ s.cp.pbsy = t.cp.pbsy + 1
        BY DEF Delivered
    <2>3. t.cp.free + t.cp.pbsy = NPkts - 1 /\ t.cp.pbsy = k + Len(s.cp.rspq) + HeldInAll(s.unit)
        <3> DEFINE l == Len(s.cp.rspq)
        <3>1. l \in Nat /\ s.cp.pbsy = (k + 1) + l + HeldInAll(s.unit)
            BY <1>1, <2>1, StateTypes
        <3> HIDE DEF l
        <3>2. t.cp.free + t.cp.pbsy = NPkts - 1 /\ t.cp.pbsy = k + l + HeldInAll(s.unit)
            <4>1. s.cp.free + s.cp.pbsy = NPkts - 1 /\ NPkts \in Nat
                BY <2>1, Lengths
            <4> QED BY <1>5, <2>2, <3>1, <4>1
        <3> QED BY <3>2 DEF l
    <2> QED BY <1>3, <2>3 DEF Packets
<1>7. Credits(t, h, c)
    <2> DEFINE to == s.cp.ridx
               ring == s.comm.rsp
               e == Filling(ring[to], pkt, cr)
               new == [ring EXCEPT ![to] = e]
    <2>1. /\ ring \in RspRing /\ to \in 0 .. RspLen - 1 /\ ring[to].own /\ cr \in Nat
          /\ ring[to] \in [own : BOOLEAN, pkt : Given \cup {Nil}] /\ t.comm.rsp = new /\ (~pkt.end => cr = 0)
          /\ s.cp.credits = t.cp.credits + cr
        BY <1>1, StateTypes DEF Delivered, RspRing
    <2>2. e \in [own : BOOLEAN, pkt : Given \cup {Nil}] /\ Worth(e) = IF pkt.end THEN cr + 1 ELSE 0
        BY <2>1, FillingFilled
    <2>3. Worth(ring[to]) = 0
        BY <2>1 DEF Worth, Filled
    <2>4. OnTheirWay(ring) \in Nat /\ OnTheirWay(new) = OnTheirWay(ring) - Worth(ring[to]) + Worth(e)
        <3> HIDE DEF ring, e, to
        <3> QED BY <2>1, <2>2, OnTheirWayChanged
    <2>5. OnTheirWay(new) + t.cp.credits = OnTheirWay(ring) + s.cp.credits + One(pkt)
        <3> HIDE DEF new, e, ring, to
        <3>1. CASE pkt.end
            BY <1>5, <2>1, <2>2, <2>3, <2>4, <3>1 DEF One
        <3>2. CASE ~pkt.end
            BY <1>5, <2>1, <2>2, <2>3, <2>4, <3>2 DEF One
        <3> QED BY <3>1, <3>2
    <2>6. InRing(s.comm.cmd) \in Nat /\ OnTheirWay(t.comm.rsp) \in Nat /\ One(pkt) \in Nat
        BY <1>1, RingsNat DEF One
    <2>7. h.credits + s.cp.credits + OnTheirWay(ring) + InRing(s.comm.cmd) + HeldInAll(s.unit)
          + Ends(s.cp.rspq) + (c + One(pkt)) = NPkts \div 2
        BY DEF Base, Credits
    <2>8. h.credits + t.cp.credits + OnTheirWay(new) + InRing(s.comm.cmd) + HeldInAll(s.unit)
          + Ends(s.cp.rspq) + c = NPkts \div 2
        <3> HIDE DEF new, e, ring, to
        <3>1. OnTheirWay(new) \in Nat
            BY <2>1, <2>6
        <3> DEFINE half == NPkts \div 2
        <3>2. /\ half \in Nat
              /\ h.credits + s.cp.credits + OnTheirWay(ring) + InRing(s.comm.cmd) + HeldInAll(s.unit)
                 + Ends(s.cp.rspq) + (c + One(pkt)) = half
            BY <2>7, Lengths
        <3> HIDE DEF half
        <3>3. h.credits + t.cp.credits + OnTheirWay(new) + InRing(s.comm.cmd) + HeldInAll(s.unit)
              + Ends(s.cp.rspq) + c = half
            BY <1>5, <2>4, <2>5, <2>6, <3>1, <3>2
        <3> QED BY <3>3 DEF half
    <2> HIDE DEF new
    <2> QED BY <1>3, <2>1, <2>8 DEF Credits
<1> QED BY <1>1, <1>2, <1>4, <1>6, <1>7 DEF Base

(* The packet is in the queue. *)
AfterQueue(s, t, q) ==
    /\ t \in States /\ Alike(s.cp, t.cp)
    /\ t.unit = s.unit /\ t.active = s.active \cup {QUEUE} /\ t.comm = s.comm
    /\ t.cp.rspq = q
    /\ t.cp.credits = s.cp.credits /\ t.cp.free = s.cp.free /\ t.cp.pbsy = s.cp.pbsy
    /\ t.cp.ridx = s.cp.ridx /\ t.cp.irq = s.cp.irq

LEMMA Queues ==
    ASSUME NEW s \in States, NEW q \in Seq(Rsp)
    PROVE  AfterQueue(s, Activate([s EXCEPT !.cp.rspq = q], QUEUE), q)
<1> DEFINE m == [s.cp EXCEPT !.rspq = q]
           u == [s EXCEPT !.cp = m]
           t == Activate(u, QUEUE)
<1>1. /\ Shaped(s) /\ s.cp \in Msc /\ s.unit \in Drives /\ s.active \subseteq 0 .. NumDrives + 1
      /\ s.comm \in [cmd : CmdRing, rsp : RspRing]
    BY ShapedStates
<1>2. /\ m \in Msc /\ Alike(s.cp, m) /\ m.rspq = q
      /\ m.credits = s.cp.credits /\ m.free = s.cp.free /\ m.pbsy = s.cp.pbsy
      /\ m.ridx = s.cp.ridx /\ m.irq = s.cp.irq
    BY <1>1 DEF Msc, Alike
<1>3. Shaped(u) /\ u.cp = m /\ u.unit = s.unit /\ u.active = s.active /\ u.comm = s.comm
    <2> HIDE DEF m
    <2> QED BY <1>1, ShapedCp
<1>4. t = [u EXCEPT !.active = u.active \cup {QUEUE}]
    BY DEF Activate
<1>5. Shaped(t) /\ t.cp = u.cp /\ t.unit = u.unit /\ t.active = u.active \cup {QUEUE} /\ t.comm = u.comm
    <2> DEFINE X == u.active \cup {QUEUE}
    <2>1. t = [u EXCEPT !.active = X]
        BY <1>4
    <2> HIDE DEF m, u, t, X
    <2>2. Shaped(t) /\ t.cp = u.cp /\ t.unit = u.unit /\ t.active = X /\ t.comm = u.comm
        BY <1>3, <2>1, ShapedActive
    <2> QED BY <2>2 DEF X
<1>6. QUEUE \in 0 .. NumDrives + 1
    BY Lengths DEF QUEUE
<1>7. t \in States
    <2> HIDE DEF t, u, m
    <2> QED BY <1>1, <1>2, <1>3, <1>5, <1>6, ShapedStates
<1>8. t.cp = m /\ t.unit = s.unit /\ t.active = s.active \cup {QUEUE} /\ t.comm = s.comm
    <2> HIDE DEF t, u, m
    <2> QED BY <1>3, <1>5
<1>9. AfterQueue(s, t, q)
    <2> HIDE DEF t, u, m
    <2> QED BY <1>2, <1>7, <1>8 DEF AfterQueue
<1>10. t = Activate([s EXCEPT !.cp.rspq = q], QUEUE)
    OBVIOUS
<1> HIDE DEF t
<1> QED BY <1>9, <1>10

(* What a packet on its way does not change. *)
Kept(s, t) ==
    /\ t.unit = s.unit /\ t.cp.ths = s.cp.ths /\ t.cp.pip = s.cp.pip /\ t.comm.cmd = s.comm.cmd
    /\ t.cp.cidx = s.cp.cidx /\ t.cp.csta = "UP"
    /\ \A d \in Drive : d \in t.active <=> d \in s.active

Went(s, t, pkt) ==
    /\ s.comm.rsp[s.cp.ridx].own
    /\ t.cp.rspq = s.cp.rspq /\ t.active = s.active
    /\ t.comm.rsp[Prior(t.cp.ridx, RspLen)].pkt.end = pkt.end
    /\ pkt.end => OnTheirWay(t.comm.rsp) >= 1

Waited(s, t, q) ==
    /\ ~s.comm.rsp[s.cp.ridx].own
    /\ t.cp.rspq = q /\ t.active = s.active \cup {QUEUE} /\ t.comm.rsp = s.comm.rsp /\ t.cp.ridx = s.cp.ridx

Placed(q, pkt, qt) == IF qt THEN Append(q, pkt) ELSE <<pkt>> \o q

LEMMA DeliveredWent ==
    ASSUME NEW s \in States, NEW t, NEW pkt \in Rsp, NEW cr, Delivered(s, t, pkt, cr)
    PROVE  Went(s, t, pkt)
<1> DEFINE to == s.cp.ridx
           ring == s.comm.rsp
           e == Filling(ring[to], pkt, cr)
           new == [ring EXCEPT ![to] = e]
<1>1. /\ ring \in RspRing /\ to \in 0 .. RspLen - 1 /\ ring[to].own /\ cr \in Nat
      /\ ring[to] \in [own : BOOLEAN, pkt : Given \cup {Nil}] /\ t.comm.rsp = new
      /\ t.cp.ridx = (to + 1) % RspLen /\ t.cp.rspq = s.cp.rspq /\ t.active = s.active
    BY StateTypes DEF Delivered, RspRing
<1>2. /\ e \in [own : BOOLEAN, pkt : Given \cup {Nil}] /\ e.pkt.end = pkt.end
      /\ Worth(e) = IF pkt.end THEN cr + 1 ELSE 0
    BY <1>1, FillingFilled
<1>3. Prior(t.cp.ridx, RspLen) = to
    BY <1>1, Around, Lengths
<1>4. new \in RspRing /\ new[to] = e
    <2> HIDE DEF e
    <2> QED BY <1>1, <1>2 DEF RspRing
<1>5. Worth(e) <= OnTheirWay(new) /\ OnTheirWay(new) \in Nat
    <2> HIDE DEF new, e, to, ring
    <2> QED BY <1>1, <1>2, <1>4, OnTheirWayChanged
<1>6. pkt.end => OnTheirWay(new) >= 1
    <2> HIDE DEF new, e
    <2> QED BY <1>1, <1>2, <1>5
<1> HIDE DEF new, e
<1> QED BY <1>1, <1>2, <1>3, <1>4, <1>6 DEF Went

(* The queue q is old with pkt in addition. *)
Longer(q, old, pkt) == q \in Seq(Rsp) /\ Len(q) = Len(old) + 1 /\ Ends(q) = Ends(old) + One(pkt)

LEMMA QueuedBase ==
    ASSUME NEW s, NEW h, NEW k \in Nat, NEW c \in Nat, NEW t, NEW pkt \in Rsp, NEW q,
           Base(s, h, k + 1, c + One(pkt)), AfterQueue(s, t, q),
           Longer(q, s.cp.rspq, pkt)
    PROVE  Base(t, h, k, c)
<1>1. s \in States /\ h \in Hosts /\ t \in States
    BY DEF Base, AfterQueue
<1>2. /\ t.unit = s.unit /\ t.active = s.active \cup {QUEUE} /\ t.comm = s.comm /\ t.cp.rspq = q
      /\ t.cp.credits = s.cp.credits /\ t.cp.free = s.cp.free /\ t.cp.pbsy = s.cp.pbsy
      /\ t.cp.ridx = s.cp.ridx /\ t.cp.irq = s.cp.irq /\ t.cp.s1dat = s.cp.s1dat
    BY DEF AfterQueue, Alike
<1>3. RingOrder(t, h) /\ Called(t, h)
    BY <1>2 DEF Base, RingOrder, Called
<1>4. t.cp.csta = "UP" /\ t.cp.perr # "NSR" /\ OwnCommands(t.unit)
    BY <1>2 DEF Base, AfterQueue, Alike
<1>6. /\ HeldInAll(s.unit) \in Nat /\ Ends(s.cp.rspq) \in Nat /\ One(pkt) \in Nat
      /\ s.cp.free \in Nat /\ s.cp.pbsy \in Nat /\ s.cp.credits \in Nat /\ h.credits \in Nat
    BY <1>1, StateTypes, HostTypes, HeldNat, EndsNat DEF One
<1>7. Packets(t, k)
    <2>1. s.cp.free + s.cp.pbsy = NPkts - 1 /\ s.cp.pbsy = (k + 1) + Len(s.cp.rspq) + HeldInAll(s.unit)
        BY DEF Base, Packets
    <2> DEFINE l == Len(s.cp.rspq)
               n == Len(q)
    <2>2. l \in Nat /\ n = l + 1 /\ s.cp.pbsy = (k + 1) + l + HeldInAll(s.unit)
        BY <1>1, <2>1, StateTypes DEF Longer
    <2>3. s.cp.pbsy = k + n + HeldInAll(s.unit)
        <3> HIDE DEF l, n
        <3> QED BY <1>6, <2>2
    <2> QED BY <1>2, <2>1, <2>3 DEF Packets
<1>8. Credits(t, h, c)
    <2>1. h.credits + s.cp.credits + OnTheirWay(s.comm.rsp) + InRing(s.comm.cmd) + HeldInAll(s.unit)
          + Ends(s.cp.rspq) + (c + One(pkt)) = NPkts \div 2
        BY DEF Base, Credits
    <2>2. InRing(s.comm.cmd) \in Nat /\ OnTheirWay(s.comm.rsp) \in Nat
        BY <1>1, RingsNat
    <2> DEFINE half == NPkts \div 2
               x == h.credits + s.cp.credits + OnTheirWay(s.comm.rsp) + InRing(s.comm.cmd) + HeldInAll(s.unit)
               e == Ends(s.cp.rspq)
               o == One(pkt)
    <2>3. x \in Nat /\ half \in Nat /\ e \in Nat /\ o \in Nat
        <3>1. half \in Nat
            BY Lengths
        <3>2. x \in Nat
            BY <1>6, <2>2
        <3> QED BY <1>6, <3>1, <3>2
    <2>4. x + e + (c + o) = half
        BY <2>1
    <2>5. x + (e + o) + c = half
        <3> HIDE DEF x, half, e, o
        <3> QED BY <2>3, <2>4
    <2>6. Ends(q) = e + o
        BY DEF Longer
    <2>7. x + Ends(q) + c = half
        <3> HIDE DEF x, half, e, o
        <3> QED BY <2>5, <2>6
    <2> QED BY <1>2, <2>7 DEF Credits
<1> QED BY <1>1, <1>3, <1>4, <1>7, <1>8 DEF Base

LEMMA PlacedIs ==
    ASSUME NEW q \in Seq(Rsp), NEW pkt \in Rsp, NEW qt \in BOOLEAN
    PROVE  /\ Placed(q, pkt, qt) \in Seq(Rsp) /\ Len(Placed(q, pkt, qt)) = Len(q) + 1
           /\ Ends(Placed(q, pkt, qt)) = Ends(q) + One(pkt)
<1>1. CASE qt
    <2>1. /\ Append(q, pkt) \in Seq(Rsp) /\ Len(Append(q, pkt)) = Len(q) + 1
          /\ Ends(Append(q, pkt)) = Ends(q) + One(pkt)
        BY EndsAppend, AppendProperties
    <2> QED BY <1>1, <2>1 DEF Placed
<1>2. CASE ~qt
    <2>1. <<pkt>> \in Seq(Rsp) /\ Len(<<pkt>>) = 1
        OBVIOUS
    <2>2. <<pkt>> \o q \in Seq(Rsp) /\ Len(<<pkt>> \o q) = Len(<<pkt>>) + Len(q)
        BY <2>1, ConcatProperties
    <2>3. Len(<<pkt>> \o q) = Len(q) + 1
        BY <2>1, <2>2, LenProperties
    <2>4. Ends(<<pkt>> \o q) = One(pkt) + Ends(q) /\ Ends(q) \in Nat /\ One(pkt) \in Nat
        BY EndsCons, EndsNat DEF One
    <2>5. Ends(<<pkt>> \o q) = Ends(q) + One(pkt)
        BY <2>4
    <2> QED BY <1>2, <2>2, <2>3, <2>5 DEF Placed
<1> QED BY <1>1, <1>2

(* A packet leaves the hands of a handler: it is in the ring or waits. *)
Put(s, t, h, pkt, q, k, c) == Base(t, h, k, c) /\ Kept(s, t) /\ (Went(s, t, pkt) \/ Waited(s, t, q))

LEMMA PutPkt ==
    ASSUME NEW s, NEW h, NEW k \in Nat, NEW c \in Nat, NEW pkt \in Rsp, NEW qt \in BOOLEAN,
           Base(s, h, k + 1, c + One(pkt))
    PROVE  Put(s, rq_putpkt(s, pkt, qt), h, pkt, Placed(s.cp.rspq, pkt, qt), k, c)
<1> DEFINE t == rq_putpkt(s, pkt, qt)
           q == Placed(s.cp.rspq, pkt, qt)
<1>1. s \in States /\ s.cp.csta = "UP"
    BY DEF Base
<1>2. CASE s.comm.rsp[s.cp.ridx].own
    <2>1. t = PutRspDesc(Sent(s, pkt))
        BY <1>2 DEF rq_putpkt
    <2>2. s.cp.pbsy > 0
        <3> DEFINE l == Len(s.cp.rspq)
        <3>1. l \in Nat /\ s.cp.pbsy = (k + 1) + l + HeldInAll(s.unit) /\ HeldInAll(s.unit) \in Nat
            BY <1>1, StateTypes, HeldNat DEF Base, Packets
        <3> HIDE DEF l
        <3> QED BY <3>1
    <2> HIDE DEF t
    <2>3. PICK cr : Delivered(s, t, pkt, cr)
        BY <1>1, <1>2, <2>1, <2>2, Delivers
    <2>4. Base(t, h, k, c) /\ Went(s, t, pkt)
        BY <1>1, <2>3, DeliveredBase, DeliveredWent
    <2>5. Kept(s, t)
        BY <1>1, <2>3 DEF Delivered, Alike, Kept
    <2> QED BY <2>4, <2>5 DEF Put, t
<1>3. CASE ~s.comm.rsp[s.cp.ridx].own
    <2>1. t = Activate([s EXCEPT !.cp.rspq = q], QUEUE)
        BY <1>3 DEF rq_putpkt, Placed
    <2>2. q \in Seq(Rsp) /\ Len(q) = Len(s.cp.rspq) + 1 /\ Ends(q) = Ends(s.cp.rspq) + One(pkt)
        BY <1>1, StateTypes, PlacedIs
    <2> HIDE DEF t, q
    <2>3. AfterQueue(s, t, q)
        BY <1>1, <2>1, <2>2, Queues
    <2>4. Base(t, h, k, c)
        BY <2>2, <2>3, QueuedBase DEF Longer
    <2>5. QUEUE \notin Drive
        BY Lengths DEF QUEUE, Drive
    <2>6. Kept(s, t) /\ Waited(s, t, q)
        BY <1>1, <1>3, <2>3, <2>5 DEF AfterQueue, Alike, Kept, Waited
    <2> QED BY <2>4, <2>6 DEF Put, t, q
<1> QED BY <1>2, <1>3

(***************************************************************************)
(* Logs and the end packets behind them.                                   *)
(***************************************************************************)
(* As Paired, but that the last may be a log. *)
AlmostPaired(q) == \A i \in 1 .. Len(q) : ~q[i].end => i = Len(q) \/ q[i + 1].end

LEMMA PairedAppend ==
    ASSUME NEW q \in Seq(Rsp), NEW p \in Rsp
    PROVE  /\ AlmostPaired(q) /\ p.end => Paired(Append(q, p))
           /\ Paired(q) => AlmostPaired(q) /\ AlmostPaired(Append(q, p))
<1> DEFINE n == Len(q)
           r == Append(q, p)
<1>1. n \in Nat /\ Len(r) = n + 1 /\ r[n + 1] = p /\ \A i \in 1 .. n : r[i] = q[i]
    BY LenProperties, AppendProperties
<1>2. /\ AlmostPaired(q) <=> \A i \in 1 .. n : ~q[i].end => i = n \/ q[i + 1].end
      /\ Paired(q) <=> \A i \in 1 .. n : ~q[i].end => i < n /\ q[i + 1].end
    BY DEF AlmostPaired, Paired
<1> HIDE DEF n, r
<1>3. ASSUME AlmostPaired(q), p.end PROVE Paired(r)
    <2> SUFFICES ASSUME NEW i \in 1 .. n + 1, ~r[i].end PROVE i < n + 1 /\ r[i + 1].end
        BY <1>1 DEF Paired
    <2>1. i # n + 1
        BY <1>1, <1>3
    <2>2. i \in 1 .. n /\ ~q[i].end
        BY <1>1, <2>1
    <2>3. i = n \/ q[i + 1].end
        BY <1>2, <1>3, <2>2
    <2>4. CASE i = n
        BY <1>1, <1>3, <2>4
    <2>5. CASE i # n
        <3>1. i + 1 \in 1 .. n /\ q[i + 1].end
            BY <1>1, <2>2, <2>3, <2>5
        <3> QED BY <1>1, <2>2, <3>1
    <2> QED BY <2>4, <2>5
<1>4. ASSUME Paired(q) PROVE AlmostPaired(q) /\ AlmostPaired(r)
    <2>1. AlmostPaired(q)
        BY <1>2, <1>4
    <2>2. ASSUME NEW i \in 1 .. n + 1, ~r[i].end PROVE i = n + 1 \/ r[i + 1].end
        <3> SUFFICES ASSUME i # n + 1 PROVE r[i + 1].end
            OBVIOUS
        <3>1. i \in 1 .. n /\ ~q[i].end
            BY <1>1, <2>2
        <3>2. i < n /\ q[i + 1].end
            BY <1>2, <1>4, <3>1
        <3>3. i + 1 \in 1 .. n
            BY <1>1, <3>1, <3>2
        <3> QED BY <1>1, <3>2, <3>3
    <2>3. AlmostPaired(r)
        BY <1>1, <2>2 DEF AlmostPaired
    <2> QED BY <2>1, <2>3
<1> QED BY <1>3, <1>4 DEF r

LEMMA BarePlaced ==
    ASSUME NEW q \in Seq(Rsp), NEW p \in Rsp, NEW qt \in BOOLEAN
    PROVE  Bare(Placed(q, p, qt)) = Bare(q) + (IF p.end THEN 1 ELSE -1) /\ Bare(q) \in Int
<1> DEFINE r == Placed(q, p, qt)
           n == Len(q)
           m == Len(r)
           e == Ends(q)
           o == One(p)
<1>1. m = n + 1 /\ Ends(r) = e + o /\ n \in Nat /\ e \in Nat /\ o = IF p.end THEN 1 ELSE 0
    BY PlacedIs, EndsNat, LenProperties DEF One
<1>2. Bare(r) = 2 * (e + o) - m /\ Bare(q) = 2 * e - n
    BY <1>1 DEF Bare
<1> HIDE DEF r, n, m, e, o
<1> QED BY <1>1, <1>2 DEF r

LEMMA BareEmpty == Bare(<<>>) = 0 /\ Paired(<<>>)
<1>1. Len(<<>>) = 0
    OBVIOUS
<1>2. Bare(<<>>) = 0
    BY <1>1, EndsEmpty DEF Bare
<1>3. Paired(<<>>)
    BY <1>1 DEF Paired
<1> QED BY <1>2, <1>3

Queue(q) == q \in Seq(Rsp)

(* What an answer leaves: the queue is as it was, or with an end packet    *)
(* more.                                                                   *)
Answered(s, t, h, k, c) ==
    /\ Base(t, h, k, c) /\ Kept(s, t) /\ Slack(t)
    /\ \/ t.cp.rspq = s.cp.rspq /\ t.active = s.active
       \/ Bare(t.cp.rspq) >= 1 /\ t.active = s.active \cup {QUEUE}

LEMMA Answers ==
    ASSUME NEW s, NEW h, NEW k \in Nat, NEW c \in Nat, NEW pkt, pkt.ref \in Nat, NEW sts \in Sts,
           Base(s, h, k + 1, c + 1), Paired(s.cp.rspq)
    PROVE  Answered(s, Answer(s, pkt, sts), h, k, c)
<1> DEFINE t == Answer(s, pkt, sts)
           p == End(pkt, sts)
           q == s.cp.rspq
<1>1. p \in Rsp /\ p.end /\ One(p) = 1 /\ t = rq_putpkt(s, p, TRUE)
    BY DEF End, Rsp, One, Answer, Sts
<1>2. Queue(q)
    BY StateTypes DEF Base, Queue
<1> HIDE DEF t, p
<1>3. Put(s, t, h, p, Placed(q, p, TRUE), k, c)
    BY <1>1, PutPkt
<1>4. Base(t, h, k, c) /\ Kept(s, t) /\ (Went(s, t, p) \/ Waited(s, t, Placed(q, p, TRUE)))
    BY <1>3 DEF Put
<1>5. CASE Went(s, t, p)
    <2>1. t.cp.rspq = q /\ t.active = s.active
        BY <1>5 DEF Went
    <2>2. Slack(t)
        BY <1>1, <1>5, <2>1 DEF Went, Slack, LastEnds
    <2> QED BY <1>4, <2>1, <2>2 DEF Answered, t
<1>6. CASE Waited(s, t, Placed(q, p, TRUE))
    <2>1. t.cp.rspq = Placed(q, p, TRUE) /\ t.active = s.active \cup {QUEUE}
        BY <1>6 DEF Waited
    <2>2. Bare(q) \in Nat
        BY <1>2, PairedBare DEF Queue
    <2>3. Bare(t.cp.rspq) = Bare(q) + 1
        BY <1>1, <1>2, <2>1, BarePlaced DEF Queue
    <2>4. Bare(t.cp.rspq) >= 1
        <3> HIDE DEF q
        <3> QED BY <2>2, <2>3
    <2>5. Paired(t.cp.rspq)
        BY <1>1, <1>2, <2>1, PairedAppend DEF Queue, Placed
    <2>6. Slack(t)
        BY <2>4, <2>5 DEF Slack, LastEnds
    <2> QED BY <1>4, <2>1, <2>4, <2>6 DEF Answered, t
<1> QED BY <1>4, <1>5, <1>6

(***************************************************************************)
(* Changes that leave rings, packets and credits alone.                    *)
(***************************************************************************)
Frame(s, t) ==
    /\ t \in States
    /\ t.cp.csta = s.cp.csta /\ t.cp.perr \in {s.cp.perr, "none"} /\ t.cp.s1dat = s.cp.s1dat /\ t.cp.irq = s.cp.irq
    /\ t.cp.free = s.cp.free /\ t.cp.pbsy = s.cp.pbsy /\ t.cp.credits = s.cp.credits
    /\ t.cp.ridx = s.cp.ridx /\ t.cp.rspq = s.cp.rspq /\ t.comm = s.comm

(* What the drives hold beside what a handler has in hand. *)
Balanced(s, t, k, k2) == k2 + HeldInAll(t.unit) = k + HeldInAll(s.unit)

LEMMA BaseKept ==
    ASSUME NEW s, NEW h, NEW t, NEW k \in Nat, NEW c \in Nat, NEW k2 \in Nat, NEW c2 \in Nat,
           Base(s, h, k, c), Frame(s, t), OwnCommands(t.unit), Balanced(s, t, k, k2), Balanced(s, t, c, c2)
    PROVE  Base(t, h, k2, c2)
<1>1. s \in States /\ h \in Hosts /\ t \in States
    BY DEF Base, Frame
<1>2. t.cp.csta = "UP" /\ t.cp.perr # "NSR" /\ RingOrder(t, h) /\ Called(t, h)
    BY DEF Base, Frame, RingOrder, Called
<1>3. HeldInAll(s.unit) \in Nat /\ HeldInAll(t.unit) \in Nat
    BY <1>1, StateTypes, HeldNat
<1>4. Packets(t, k2)
    <2> DEFINE l == Len(s.cp.rspq)
               a == HeldInAll(s.unit)
               b == HeldInAll(t.unit)
    <2>1. l \in Nat /\ a \in Nat /\ b \in Nat /\ s.cp.pbsy = k + l + a /\ k2 + b = k + a
        BY <1>1, <1>3, StateTypes DEF Base, Packets, Balanced
    <2>2. s.cp.pbsy = k2 + l + b
        <3> HIDE DEF l, a, b
        <3> QED BY <2>1
    <2> QED BY <2>2 DEF Base, Packets, Frame
<1>5. Credits(t, h, c2)
    <2> DEFINE x == h.credits + s.cp.credits + OnTheirWay(s.comm.rsp) + InRing(s.comm.cmd)
               e == Ends(s.cp.rspq)
               a == HeldInAll(s.unit)
               b == HeldInAll(t.unit)
               half == NPkts \div 2
    <2>1. x + a + e + c = half /\ c2 + b = c + a
        BY DEF Base, Credits, Balanced
    <2>2. h.credits \in Nat /\ s.cp.credits \in Nat /\ OnTheirWay(s.comm.rsp) \in Nat /\ InRing(s.comm.cmd) \in Nat
          /\ e \in Nat
        BY <1>1, StateTypes, HostTypes, RingsNat, EndsNat
    <2>3. half \in Nat
        BY Lengths
    <2>4. x \in Nat
        <3> HIDE DEF e
        <3> QED BY <2>2
    <2>5. x + b + e + c2 = half
        <3> HIDE DEF x, e, a, b, half
        <3>1. a \in Nat /\ b \in Nat
            BY <1>3 DEF a, b
        <3> QED BY <2>1, <2>2, <2>3, <2>4, <3>1
    <2> QED BY <2>5 DEF Credits, Frame
<1> QED BY <1>1, <1>2, <1>4, <1>5 DEF Base

(* Other events are queued. *)
WithActive(s, evs) == [s EXCEPT !.active = evs]

AfterActive(s, t, evs) ==
    t.cp = s.cp /\ t.unit = s.unit /\ t.active = evs /\ t.comm = s.comm

LEMMA BaseActive ==
    ASSUME NEW s, NEW h, NEW k, NEW c, Base(s, h, k, c), NEW evs, evs \subseteq 0 .. NumDrives + 1
    PROVE  Base(WithActive(s, evs), h, k, c) /\ AfterActive(s, WithActive(s, evs), evs)
<1> DEFINE t == WithActive(s, evs)
<1>1. s \in States /\ Shaped(s)
    BY ShapedStates DEF Base
<1>2. Shaped(t) /\ t.cp = s.cp /\ t.unit = s.unit /\ t.active = evs /\ t.comm = s.comm
    <2>1. t = [s EXCEPT !.active = evs]
        BY DEF WithActive
    <2> HIDE DEF t
    <2> QED BY <1>1, <2>1, ShapedActive
<1> HIDE DEF t
<1>3. t \in States
    BY <1>1, <1>2, ShapedStates
<1>5. Packets(t, k) /\ Credits(t, h, c) /\ RingOrder(t, h) /\ Called(t, h)
    BY <1>2 DEF Base, Packets, Credits, RingOrder, Called
<1> QED BY <1>2, <1>3, <1>5 DEF Base, AfterActive, t

(* The drive d becomes u. *)
WithUnit(s, d, u) == [s EXCEPT !.unit = [s.unit EXCEPT ![d] = u]]

AfterUnit(s, t, d, u) ==
    /\ t.cp = s.cp /\ t.active = s.active /\ t.comm = s.comm
    /\ t.unit = [s.unit EXCEPT ![d] = u] /\ t.unit[d] = u
    /\ \A e \in Drive : e # d => t.unit[e] = s.unit[e]

LEMMA UnitSet ==
    ASSUME NEW s, NEW h, NEW k \in Nat, NEW c \in Nat, NEW k2 \in Nat, NEW c2 \in Nat, Base(s, h, k, c),
           NEW d \in Drive, NEW u, u \in Unit, Owns(u, d),
           k2 + Held(u) = k + Held(s.unit[d]), c2 + Held(u) = c + Held(s.unit[d])
    PROVE  Base(WithUnit(s, d, u), h, k2, c2) /\ AfterUnit(s, WithUnit(s, d, u), d, u)
<1> DEFINE units == [s.unit EXCEPT ![d] = u]
           t == WithUnit(s, d, u)
<1>1. s \in States /\ Shaped(s) /\ s.unit \in Drives
    BY ShapedStates DEF Base
<1>2. units \in Drives /\ units[d] = u /\ \A e \in Drive : e # d => units[e] = s.unit[e]
    BY <1>1 DEF Drives
<1>3. Shaped(t) /\ t.cp = s.cp /\ t.unit = units /\ t.active = s.active /\ t.comm = s.comm
    <2>1. t = [s EXCEPT !.unit = units]
        BY DEF WithUnit
    <2> HIDE DEF t, units
    <2> QED BY <1>1, <2>1, ShapedUnit
<1> HIDE DEF t
<1>4. t \in States
    BY <1>1, <1>2, <1>3, ShapedStates
<1>5. Frame(s, t)
    BY <1>3, <1>4 DEF Frame
<1>6. OwnCommands(units)
    <2>1. OwnCommands(s.unit)
        BY DEF Base
    <2> HIDE DEF units
    <2> QED BY <1>2, <2>1 DEF OwnCommands
<1>7. HeldInAll(units) = HeldInAll(s.unit) - Held(s.unit[d]) + Held(u)
    <2> HIDE DEF units
    <2>1. HeldInAll(units) = HeldInAll(s.unit) - Held(s.unit[d]) + Held(units[d])
        BY <1>1, <1>2, HeldChanged
    <2> QED BY <1>2, <2>1
<1>8. Held(u) \in Nat /\ Held(s.unit[d]) \in Nat /\ HeldInAll(s.unit) \in Nat
    <2>1. \A e \in Drive : Held(units[e]) \in Nat /\ Held(s.unit[e]) \in Nat
        <3> HIDE DEF units
        <3> QED BY <1>1, <1>2, HeldNat
    <2>2. HeldInAll(s.unit) \in Nat
        BY <1>1, HeldNat
    <2> HIDE DEF units
    <2> QED BY <1>2, <2>1, <2>2
<1>9. Balanced(s, t, k, k2) /\ Balanced(s, t, c, c2)
    <2> HIDE DEF units
    <2> QED BY <1>3, <1>7, <1>8 DEF Balanced
<1>10. Base(t, h, k2, c2)
    <2> HIDE DEF units
    <2> QED BY <1>3, <1>5, <1>6, <1>9, BaseKept
<1>11. AfterUnit(s, t, d, u)
    <2> HIDE DEF units
    <2>1. t.unit = units /\ t.unit[d] = u /\ \A e \in Drive : e # d => t.unit[e] = s.unit[e]
        BY <1>2, <1>3
    <2> QED BY <1>3, <2>1 DEF AfterUnit, units
<1> QED BY <1>10, <1>11 DEF t

(* A drive that keeps its commands changes in some other way.              *)
LEMMA UnitTouched ==
    ASSUME NEW s, NEW h, NEW k \in Nat, NEW c \in Nat, Base(s, h, k, c), NEW d \in Drive, NEW u, u \in Unit,
           u.cpkt = s.unit[d].cpkt, u.pktq = s.unit[d].pktq
    PROVE  Base(WithUnit(s, d, u), h, k, c) /\ AfterUnit(s, WithUnit(s, d, u), d, u)
<1>1. Owns(u, d)
    BY DEF Base, OwnCommands, Owns
<1>2. Held(u) = Held(s.unit[d])
    BY DEF Held
<1>3. k + Held(u) = k + Held(s.unit[d]) /\ c + Held(u) = c + Held(s.unit[d])
    BY <1>2
<1> QED BY <1>1, <1>3, UnitSet

LEMMA UnitTypes ==
    ASSUME NEW s \in States, NEW d \in Drive
    PROVE  /\ s.unit[d] \in Unit /\ s.unit[d].cpkt \in Command \cup {Nil} /\ s.unit[d].pktq \in Seq(Command)
           /\ Len(s.unit[d].pktq) \in Nat
<1>1. s.unit[d] \in Unit
    BY DEF States, Drives
<1>2. s.unit[d].cpkt \in Command \cup {Nil} /\ s.unit[d].pktq \in Seq(Command)
    BY <1>1 DEF Unit
<1> QED BY <1>1, <1>2, LenProperties

-----------------------------------------------------------------------------
(***************************************************************************)
(* Commands.                                                               *)
(***************************************************************************)
LEMMA RefNat ==
    ASSUME NEW pkt \in Command
    PROVE  pkt.ref \in Nat /\ pkt # Nil /\ pkt.unit \in Nat /\ pkt.op \in STRING
BY DEF Command, Nil

LEMMA TimedKept ==
    ASSUME NEW s, NEW t, Timed(s.unit, s.active), Kept(s, t)
    PROVE  Timed(t.unit, t.active)
BY DEF Timed, Kept

(* What a command leaves, done, deferred or begun.                         *)
Ended(t, h) == Base(t, h, 0, 0) /\ Timed(t.unit, t.active) /\ Slack(t)

LEMMA AnswerEnds ==
    ASSUME NEW s, NEW h, NEW pkt \in Command, NEW sts \in Sts,
           Base(s, h, 1, 1), Timed(s.unit, s.active), Paired(s.cp.rspq)
    PROVE  Ended(Answer(s, pkt, sts), h)
<1>1. Base(s, h, 0 + 1, 0 + 1)
    OBVIOUS
<1>2. Answered(s, Answer(s, pkt, sts), h, 0, 0)
    BY <1>1, RefNat, Answers
<1> QED BY <1>2, TimedKept DEF Answered, Ended

LEMMA DeferEnds ==
    ASSUME NEW s, NEW h, NEW pkt \in Command, pkt.unit \in Drive,
           Base(s, h, 1, 1), Timed(s.unit, s.active), Slack(s)
    PROVE  Ended(Defer(s, pkt), h)
<1> DEFINE d == pkt.unit
           old == s.unit[d]
           q == Append(old.pktq, pkt)
           u == [old EXCEPT !.pktq = q]
           t == WithUnit(s, d, u)
<1>1. s \in States /\ s.unit \in Drives /\ old \in Unit /\ old.pktq \in Seq(Command) /\ Owns(old, d)
    BY UnitTypes, StateTypes DEF Base, OwnCommands
<1>2. /\ q \in Seq(Command) /\ Len(q) = Len(old.pktq) + 1 /\ Len(old.pktq) \in Nat
      /\ \A i \in DOMAIN q : q[i].unit = d
    <2> DEFINE o == old.pktq
               n == Len(o)
    <2>1. o \in Seq(Command) /\ pkt \in Command /\ \A i \in DOMAIN o : o[i].unit = d
        BY <1>1 DEF Owns
    <2> HIDE DEF o
    <2>2. n \in Nat /\ DOMAIN o = 1 .. n
        BY <2>1, LenProperties
    <2>3. /\ Append(o, pkt) \in Seq(Command) /\ Len(Append(o, pkt)) = n + 1
          /\ Append(o, pkt)[n + 1] = pkt /\ \A i \in 1 .. n : Append(o, pkt)[i] = o[i]
        BY <2>1, AppendProperties
    <2> DEFINE r == Append(o, pkt)
    <2>4. DOMAIN r = 1 .. Len(r)
        BY <2>3, LenProperties
    <2> HIDE DEF r, n
    <2>5. r \in Seq(Command) /\ Len(r) = n + 1 /\ r[n + 1] = pkt /\ \A i \in 1 .. n : r[i] = o[i]
        BY <2>3 DEF r
    <2>6. \A i \in DOMAIN r : r[i].unit = d
        BY <2>1, <2>2, <2>4, <2>5
    <2>7. q = r
        BY DEF r, o
    <2> HIDE DEF q
    <2> QED BY <2>2, <2>5, <2>6, <2>7 DEF o, n
<1>3. u \in Unit /\ u.cpkt = old.cpkt /\ u.pktq = q
    BY <1>1, <1>2 DEF Unit
<1>4. Owns(u, d)
    <2> HIDE DEF u, q
    <2> QED BY <1>1, <1>2, <1>3 DEF Owns
<1>5. 0 + Held(u) = 1 + Held(old)
    <2> DEFINE n == Len(old.pktq)
               m == Len(u.pktq)
    <2>1. n \in Nat /\ m = n + 1 /\ m \in Nat /\ Len(old.pktq) = n /\ Len(u.pktq) = m
        BY <1>2, <1>3
    <2>2. /\ old.cpkt = Nil => Held(old) = n /\ Held(u) = m
          /\ old.cpkt # Nil => Held(old) = n + 1 /\ Held(u) = m + 1
        <3> HIDE DEF n, m, u, old
        <3> QED BY <1>3, <2>1, HeldIs
    <2>3. m = n + 1 /\ n \in Nat
        BY <2>1
    <2> HIDE DEF n, m, u, old
    <2> QED BY <2>2, <2>3
<1>6. Base(t, h, 0, 0) /\ AfterUnit(s, t, d, u)
    <2> HIDE DEF u
    <2> QED BY <1>3, <1>4, <1>5, UnitSet
<1>7. Slack(t)
    BY <1>6 DEF AfterUnit, Slack, LastEnds
<1>8. Timed(t.unit, t.active)
    <2> HIDE DEF u, t
    <2> QED BY <1>3, <1>6 DEF AfterUnit, Timed
<1>9. Defer(s, pkt) = t
    BY DEF Defer, WithUnit
<1> HIDE DEF t
<1> QED BY <1>6, <1>7, <1>8, <1>9 DEF Ended

Online(s, d, onl) == [s EXCEPT !.unit[d].onl = onl]

(* A command that only changes whether its drive is online.                *)
LEMMA OnlineEnds ==
    ASSUME NEW s, NEW h, NEW pkt \in Command, pkt.unit \in Drive, NEW sts \in Sts, NEW onl \in BOOLEAN,
           Base(s, h, 1, 1), Timed(s.unit, s.active), Slack(s)
    PROVE  Ended(Answer(Online(s, pkt.unit, onl), pkt, sts), h)
<1> DEFINE d == pkt.unit
           u == [s.unit[d] EXCEPT !.onl = onl]
           t == WithUnit(s, d, u)
<1>1. s \in States /\ s.unit[d] \in Unit
    BY UnitTypes DEF Base
<1>2. u \in Unit /\ u.cpkt = s.unit[d].cpkt /\ u.pktq = s.unit[d].pktq
    BY <1>1 DEF Unit
<1>3. Base(t, h, 1, 1) /\ AfterUnit(s, t, d, u)
    <2> HIDE DEF u
    <2> QED BY <1>2, UnitTouched
<1>4. Paired(t.cp.rspq)
    BY <1>3 DEF AfterUnit, Slack
<1>5. Timed(t.unit, t.active)
    <2> HIDE DEF u, t
    <2> QED BY <1>2, <1>3 DEF AfterUnit, Timed
<1>6. Online(s, pkt.unit, onl) = t
    BY DEF WithUnit, Online
<1> HIDE DEF t
<1> QED BY <1>3, <1>4, <1>5, <1>6, AnswerEnds

LEMMA AvlEnds ==
    ASSUME NEW s, NEW h, NEW pkt \in Command, pkt.unit \in Drive, NEW q \in BOOLEAN,
           Base(s, h, 1, 1), Timed(s.unit, s.active), Slack(s)
    PROVE  Ended(rq_avl(s, pkt, q), h)
<1>1. rq_avl(s, pkt, q) \in {Defer(s, pkt), Answer(Online(s, pkt.unit, FALSE), pkt, "SUC")}
    BY DEF rq_avl, Online
<1>2. Ended(Defer(s, pkt), h)
    BY DeferEnds
<1>3. Ended(Answer(Online(s, pkt.unit, FALSE), pkt, "SUC"), h)
    BY OnlineEnds DEF Sts
<1> QED BY <1>1, <1>2, <1>3

LEMMA OnlEnds ==
    ASSUME NEW s, NEW h, NEW pkt \in Command, pkt.unit \in Drive, NEW q \in BOOLEAN,
           Base(s, h, 1, 1), Timed(s.unit, s.active), Slack(s)
    PROVE  Ended(rq_onl(s, pkt, q), h)
<1>1. rq_onl(s, pkt, q) \in {Defer(s, pkt), Answer(s, pkt, "OFL"),
                             Answer(Online(s, pkt.unit, TRUE), pkt, "SUC")}
    BY DEF rq_onl, Online
<1>2. Ended(Defer(s, pkt), h)
    BY DeferEnds
<1>3. Ended(Answer(s, pkt, "OFL"), h)
    BY AnswerEnds DEF Slack, Sts
<1>4. Ended(Answer(Online(s, pkt.unit, TRUE), pkt, "SUC"), h)
    BY OnlineEnds DEF Sts
<1> QED BY <1>1, <1>2, <1>3, <1>4

LEMMA SucEnds ==
    ASSUME NEW s, NEW h, NEW pkt \in Command, pkt.unit \in Drive, NEW q \in BOOLEAN,
           Base(s, h, 1, 1), Timed(s.unit, s.active), Slack(s)
    PROVE  Ended(rq_suc(s, pkt, q), h) /\ Ended(rq_fmt(s, pkt, q), h)
<1>1. \A sts \in Sts : Ended(Answer(s, pkt, sts), h)
    BY AnswerEnds DEF Slack
<1>2. /\ rq_suc(s, pkt, q) \in {Defer(s, pkt), Answer(s, pkt, "SUC"), Answer(s, pkt, "OFL")}
      /\ rq_fmt(s, pkt, q) \in {Defer(s, pkt), Answer(s, pkt, "CMD")}
    BY DEF rq_suc, rq_fmt
<1>3. Ended(Defer(s, pkt), h)
    BY DeferEnds
<1>4. Ended(Answer(s, pkt, "SUC"), h) /\ Ended(Answer(s, pkt, "OFL"), h) /\ Ended(Answer(s, pkt, "CMD"), h)
    BY <1>1 DEF Sts
<1> QED BY <1>2, <1>3, <1>4

LEMMA RwEnds ==
    ASSUME NEW s, NEW h, NEW pkt \in Command, pkt.unit \in Drive, NEW q \in BOOLEAN, q \/ ~Busy(s, pkt),
           Base(s, h, 1, 1), Timed(s.unit, s.active), Slack(s)
    PROVE  Ended(rq_rw(s, pkt, q), h)
<1> DEFINE d == pkt.unit
           old == s.unit[d]
           sts == rq_rw_valid(s, pkt)
           u == [old EXCEPT !.cpkt = pkt]
           t == WithUnit(s, d, u)
<1>1. CASE q /\ Busy(s, pkt)
    <2>1. rq_rw(s, pkt, q) = Defer(s, pkt)
        BY <1>1 DEF rq_rw
    <2>2. Ended(Defer(s, pkt), h)
        BY DeferEnds
    <2> QED BY <2>1, <2>2
<1>2. CASE ~Busy(s, pkt) /\ sts # "ok"
    <2>1. sts \in {"OFL", "AVL", "CMD", "ok"}
        BY DEF rq_rw_valid
    <2>2. rq_rw(s, pkt, q) = Answer(s, pkt, sts)
        BY <1>2 DEF rq_rw
    <2> QED BY <1>2, <2>1, <2>2, AnswerEnds DEF Slack, Sts
<1>3. CASE ~Busy(s, pkt) /\ sts = "ok"
    <2>1. /\ s \in States /\ old \in Unit /\ Owns(old, d) /\ old.cpkt = Nil /\ s.active \subseteq 0 .. NumDrives + 1
          /\ Len(old.pktq) \in Nat
        BY <1>3, UnitTypes, StateTypes DEF Base, OwnCommands, Busy
    <2>2. u \in Unit /\ u.cpkt = pkt /\ u.pktq = old.pktq
        BY <2>1 DEF Unit
    <2>3. Owns(u, d)
        <3> HIDE DEF u
        <3> QED BY <2>1, <2>2 DEF Owns
    <2>4. 0 + Held(u) = 1 + Held(old)
        <3> DEFINE n == Len(old.pktq)
        <3>1. n \in Nat /\ Len(old.pktq) = n /\ Len(u.pktq) = n
            BY <2>1, <2>2
        <3>2. Held(old) = n /\ Held(u) = n + 1
            <4> HIDE DEF n, u, old
            <4> QED BY <2>1, <2>2, <3>1, HeldIs, RefNat
        <3>3. n \in Nat
            BY <3>1
        <3> HIDE DEF n, u, old
        <3> QED BY <3>2, <3>3
    <2>5. Base(t, h, 0, 0) /\ AfterUnit(s, t, d, u)
        <3> HIDE DEF u
        <3> QED BY <2>2, <2>3, <2>4, UnitSet
    <2> DEFINE evs == t.active \cup {d}
               v == WithActive(t, evs)
    <2>6. evs \subseteq 0 .. NumDrives + 1
        BY <2>1, <2>5, Lengths DEF AfterUnit, Drive
    <2>7. Base(v, h, 0, 0) /\ v.cp = t.cp /\ v.unit = t.unit /\ v.active = evs /\ v.comm = t.comm
        <3> HIDE DEF t, evs
        <3> QED BY <2>5, <2>6, BaseActive DEF AfterActive
    <2>8. Slack(v)
        <3> HIDE DEF v, t
        <3> QED BY <2>5, <2>7 DEF AfterUnit, Slack, LastEnds
    <2>9. Timed(v.unit, v.active)
        <3> HIDE DEF v, t, u
        <3> QED BY <2>2, <2>5, <2>7, RefNat DEF AfterUnit, Timed
    <2>10. rq_rw(s, pkt, q) = v
        <3>1. rq_rw(s, pkt, q) = Activate([s EXCEPT !.unit[pkt.unit].cpkt = pkt], pkt.unit)
            BY <1>3 DEF rq_rw
        <3>2. [s EXCEPT !.unit[pkt.unit].cpkt = pkt] = t
            BY DEF WithUnit
        <3> HIDE DEF t
        <3> QED BY <3>1, <3>2 DEF Activate, WithActive
    <2> HIDE DEF v
    <2> QED BY <2>7, <2>8, <2>9, <2>10 DEF Ended
<1> QED BY <1>1, <1>2, <1>3

LEMMA SccEnds ==
    ASSUME NEW s, NEW h, NEW pkt \in Command,
           Base(s, h, 1, 1), Timed(s.unit, s.active), Slack(s)
    PROVE  Ended(rq_scc(s, pkt), h)
<1> DEFINE w == IF pkt.tmo THEN Htmo ELSE 0
           m == [s.cp EXCEPT !.ths = pkt.ths, !.htmo = w]
           t == [s EXCEPT !.cp = m]
<1>1. s \in States /\ Shaped(s) /\ s.cp \in Msc /\ pkt.ths \in BOOLEAN /\ pkt.tmo \in BOOLEAN
    BY ShapedStates DEF Base, Command
<1>2. /\ m \in Msc /\ m.csta = s.cp.csta /\ m.perr = s.cp.perr /\ m.s1dat = s.cp.s1dat /\ m.irq = s.cp.irq
      /\ m.free = s.cp.free /\ m.pbsy = s.cp.pbsy /\ m.credits = s.cp.credits
      /\ m.ridx = s.cp.ridx /\ m.rspq = s.cp.rspq
    <2>1. w \in Nat
        BY Lengths
    <2> HIDE DEF w
    <2> QED BY <1>1, <2>1 DEF Msc
<1>3. Shaped(t) /\ t.cp = m /\ t.unit = s.unit /\ t.active = s.active /\ t.comm = s.comm
    <2> HIDE DEF m
    <2> QED BY <1>1, ShapedCp
<1> HIDE DEF m, t
<1>4. Frame(s, t)
    <2>1. t \in States
        BY <1>1, <1>2, <1>3, ShapedStates
    <2> QED BY <1>2, <1>3, <2>1 DEF Frame
<1>5. OwnCommands(t.unit) /\ Balanced(s, t, 1, 1)
    BY <1>3 DEF Base, Balanced
<1>6. Base(t, h, 1, 1)
    BY <1>4, <1>5, BaseKept
<1>7. Paired(t.cp.rspq) /\ Timed(t.unit, t.active)
    BY <1>2, <1>3 DEF Slack
<1>8. rq_scc(s, pkt) = Answer(t, pkt, "SUC")
    BY DEF rq_scc, t, m
<1> QED BY <1>6, <1>7, <1>8, AnswerEnds DEF Sts

LEMMA MinIs ==
    ASSUME NEW S, S \subseteq Nat, S # {}
    PROVE  Min(S) \in S
<1> DEFINE B == {m \in Nat : \A y \in S : y >= m}
<1>1. ASSUME \A x \in S : ~(\A y \in S : x <= y) PROVE FALSE
    <2>1. 0 \in B
        OBVIOUS
    <2>2. ASSUME NEW m \in B PROVE m + 1 \in B
        <3>1. m \in Nat /\ \A y \in S : y >= m /\ y \in Nat
            OBVIOUS
        <3>2. m \notin S
            BY <1>1, <3>1
        <3>3. \A y \in S : y >= m + 1
            BY <3>1, <3>2
        <3> QED BY <3>1, <3>3
    <2>3. PICK y : y \in S
        OBVIOUS
    <2>4. y + 1 \in Nat /\ B \in SUBSET Nat
        BY <2>3
    <2>5. y + 1 \in B
        <3> HIDE DEF B
        <3> QED BY <2>1, <2>2, <2>4, SetInduction
    <2>6. y >= y + 1 /\ y \in Nat
        BY <2>3, <2>5
    <2> QED BY <2>6
<1>2. PICK x \in S : \A y \in S : x <= y
    BY <1>1
<1> QED BY <1>2 DEF Min

(* One command less in a queue.                                            *)
LEMMA RemoveIs ==
    ASSUME NEW R, NEW q \in Seq(R), NEW i \in 1 .. Len(q)
    PROVE  /\ RemoveAt(q, i) \in Seq(R) /\ Len(RemoveAt(q, i)) = Len(q) - 1
           /\ \A j \in DOMAIN RemoveAt(q, i) : \E l \in DOMAIN q : RemoveAt(q, i)[j] = q[l]
<1> DEFINE a == SubSeq(q, 1, i - 1)
           b == SubSeq(q, i + 1, Len(q))
           n == Len(q)
<1>1. n \in Nat /\ n >= 1 /\ i \in Nat /\ DOMAIN q = 1 .. n
    BY LenProperties
<1>2. a \in Seq(R) /\ Len(a) = i - 1 /\ \A j \in 1 .. i - 1 : a[j] = q[j]
    <2> HIDE DEF n
    <2> QED BY <1>1, SubSeqProperties DEF n
<1>3. b \in Seq(R) /\ Len(b) = n - i /\ \A j \in 1 .. n - i : b[j] = q[i + j]
    <2> HIDE DEF n
    <2>1. \A j \in i + 1 .. n : q[j] \in R
        <3>1. \A j \in 1 .. n : q[j] \in R
            BY ElementOfSeq DEF n
        <3> QED BY <1>1, <3>1
    <2>2. /\ b \in Seq(R) /\ Len(b) = IF i + 1 <= n THEN n - (i + 1) + 1 ELSE 0
          /\ \A j \in 1 .. n - (i + 1) + 1 : b[j] = q[i + 1 + j - 1]
        BY <1>1, <2>1, SubSeqProperties DEF n
    <2> HIDE DEF b
    <2>3. n - (i + 1) + 1 = n - i /\ i <= n /\ \A j \in 1 .. n - i : i + 1 + j - 1 = i + j
        BY <1>1 DEF n
    <2> QED BY <1>1, <2>2, <2>3
<1>4. RemoveAt(q, i) = a \o b
    BY DEF RemoveAt
<1> HIDE DEF a, b, n
<1>5. /\ a \o b \in Seq(R) /\ Len(a \o b) = Len(a) + Len(b)
      /\ \A j \in 1 .. Len(a) + Len(b) : (a \o b)[j] = IF j <= Len(a) THEN a[j] ELSE b[j - Len(a)]
    BY <1>2, <1>3, ConcatProperties
<1>6. Len(a \o b) = n - 1 /\ DOMAIN (a \o b) = 1 .. n - 1
    <2>1. DOMAIN (a \o b) = 1 .. Len(a \o b)
        BY <1>5, LenProperties
    <2> QED BY <1>1, <1>2, <1>3, <1>5, <2>1
<1>7. ASSUME NEW j \in 1 .. n - 1 PROVE \E l \in 1 .. n : (a \o b)[j] = q[l]
    <2>1. j \in 1 .. Len(a) + Len(b)
        BY <1>1, <1>2, <1>3
    <2>2. (a \o b)[j] = IF j <= i - 1 THEN a[j] ELSE b[j - (i - 1)]
        BY <1>2, <1>5, <2>1
    <2>3. CASE j <= i - 1
        <3>1. (a \o b)[j] = q[j] /\ j \in 1 .. n
            BY <1>1, <1>2, <2>2, <2>3
        <3> QED BY <3>1
    <2>4. CASE ~(j <= i - 1)
        <3>1. j - (i - 1) \in 1 .. n - i /\ i + (j - (i - 1)) = j + 1 /\ j + 1 \in 1 .. n
            BY <1>1, <2>4
        <3>2. (a \o b)[j] = q[j + 1]
            BY <1>3, <2>2, <2>4, <3>1
        <3> QED BY <3>1, <3>2
    <2> QED BY <2>3, <2>4
<1> QED BY <1>1, <1>4, <1>5, <1>6, <1>7 DEF n

(* The drive's queue becomes q, shorter by one, and the command taken out  *)
(* is in hand.                                                             *)
Taken(s, d, q) ==
    /\ q \in Seq(Command) /\ Len(s.unit[d].pktq) = Len(q) + 1
    /\ \A i \in DOMAIN q : \E l \in DOMAIN s.unit[d].pktq : q[i] = s.unit[d].pktq[l]

WithQueue(s, d, q) == WithUnit(s, d, [s.unit[d] EXCEPT !.pktq = q])

(* Neither rings nor responses, nor any drive's transfer, differ.          *)
Beside(s, t) ==
    /\ t.cp = s.cp /\ t.active = s.active /\ t.comm = s.comm
    /\ \A e \in Drive : t.unit[e].cpkt = s.unit[e].cpkt

LEMMA TakenBase ==
    ASSUME NEW s, NEW h, NEW k \in Nat, NEW c \in Nat, Base(s, h, k, c), NEW d \in Drive, NEW q, Taken(s, d, q)
    PROVE  /\ Base(WithQueue(s, d, q), h, k + 1, c + 1) /\ Beside(s, WithQueue(s, d, q))
           /\ WithQueue(s, d, q).unit[d].pktq = q
           /\ \A e \in Drive : e # d => WithQueue(s, d, q).unit[e] = s.unit[e]
<1> DEFINE old == s.unit[d]
           u == [old EXCEPT !.pktq = q]
           t == WithUnit(s, d, u)
<1>1. s \in States /\ old \in Unit /\ Owns(old, d) /\ Len(old.pktq) \in Nat
    BY UnitTypes DEF Base, OwnCommands
<1>2. u \in Unit /\ u.cpkt = old.cpkt /\ u.pktq = q
    BY <1>1 DEF Unit, Taken
<1>3. Owns(u, d)
    <2> HIDE DEF u
    <2> QED BY <1>1, <1>2 DEF Owns, Taken
<1>4. (k + 1) + Held(u) = k + Held(old) /\ (c + 1) + Held(u) = c + Held(old)
    <2> DEFINE n == Len(old.pktq)
               m == Len(q)
    <2>1. n \in Nat /\ m \in Nat /\ n = m + 1 /\ Len(old.pktq) = n /\ Len(u.pktq) = m
        BY <1>1, <1>2, LenProperties DEF Taken
    <2>2. /\ old.cpkt = Nil => Held(old) = n /\ Held(u) = m
          /\ old.cpkt # Nil => Held(old) = n + 1 /\ Held(u) = m + 1
        <3> HIDE DEF n, m, u, old
        <3> QED BY <1>2, <2>1, HeldIs
    <2>3. n \in Nat /\ m \in Nat /\ n = m + 1
        BY <2>1
    <2> HIDE DEF n, m, u, old
    <2> QED BY <2>2, <2>3
<1>5. k + 1 \in Nat /\ c + 1 \in Nat
    OBVIOUS
<1>6. Base(t, h, k + 1, c + 1) /\ AfterUnit(s, t, d, u)
    <2> HIDE DEF u, t
    <2> QED BY <1>2, <1>3, <1>4, <1>5, UnitSet DEF t
<1>7. WithQueue(s, d, q) = t
    BY DEF WithQueue
<1> HIDE DEF t
<1>8. t.unit[d] = u /\ \A e \in Drive : e # d => t.unit[e] = s.unit[e]
    BY <1>6 DEF AfterUnit
<1>9. \A e \in Drive : t.unit[e].cpkt = s.unit[e].cpkt
    <2> HIDE DEF u
    <2> QED BY <1>2, <1>8
<1>10. Beside(s, t) /\ t.unit[d].pktq = q
    <2> HIDE DEF u
    <2> QED BY <1>2, <1>6, <1>8, <1>9 DEF AfterUnit, Beside
<1> QED BY <1>6, <1>7, <1>8, <1>10

LEMMA TimedBeside ==
    ASSUME NEW s, NEW t, Timed(s.unit, s.active), Beside(s, t)
    PROVE  Timed(t.unit, t.active)
BY DEF Timed, Beside

LEMMA WaitingDropped ==
    ASSUME NEW s, NEW h, NEW k \in Nat, NEW c \in Nat, Base(s, h, k, c), NEW d \in Drive,
           NEW i \in DOMAIN s.unit[d].pktq
    PROVE  Base(WithoutWaiting(s, d, i), h, k + 1, c + 1) /\ Beside(s, WithoutWaiting(s, d, i))
<1> DEFINE old == s.unit[d].pktq
           q == RemoveAt(old, i)
<1>1. s \in States
    BY DEF Base
<1>2. old \in Seq(Command) /\ i \in 1 .. Len(old) /\ Len(old) \in Nat
    BY <1>1, UnitTypes, LenProperties
<1>3. Taken(s, d, q)
    <2>1. /\ q \in Seq(Command) /\ Len(q) = Len(old) - 1
          /\ \A j \in DOMAIN q : \E l \in DOMAIN old : q[j] = old[l]
        BY <1>2, RemoveIs
    <2>2. Len(old) = Len(q) + 1
        BY <1>2, <2>1
    <2> HIDE DEF q
    <2> QED BY <2>1, <2>2 DEF Taken
<1>4. WithoutWaiting(s, d, i) = WithQueue(s, d, q)
    BY DEF WithoutWaiting, WithQueue, WithUnit
<1> HIDE DEF q
<1> QED BY <1>3, <1>4, TakenBase

(* The drive d has no command to work on and is not queued.                *)
Stopped(s, d) == [s EXCEPT !.unit[d].cpkt = Nil]

AfterStopped(s, t, d) ==
    /\ t.cp = s.cp /\ t.active = s.active /\ t.comm = s.comm
    /\ t.unit[d].cpkt = Nil /\ t.unit[d].pktq = s.unit[d].pktq
    /\ \A e \in Drive : e # d => t.unit[e] = s.unit[e]

LEMMA CurrentStopped ==
    ASSUME NEW s, NEW h, NEW k \in Nat, NEW c \in Nat, Base(s, h, k, c), NEW d \in Drive, s.unit[d].cpkt # Nil
    PROVE  Base(Stopped(s, d), h, k + 1, c + 1) /\ AfterStopped(s, Stopped(s, d), d)
<1> DEFINE old == s.unit[d]
           u == [old EXCEPT !.cpkt = Nil]
           t == WithUnit(s, d, u)
<1>1. s \in States /\ old \in Unit /\ Owns(old, d) /\ Len(old.pktq) \in Nat
    BY UnitTypes DEF Base, OwnCommands
<1>2. u \in Unit /\ u.cpkt = Nil /\ u.pktq = old.pktq
    BY <1>1 DEF Unit
<1>3. Owns(u, d)
    <2> HIDE DEF u
    <2> QED BY <1>1, <1>2 DEF Owns
<1>4. (k + 1) + Held(u) = k + Held(old) /\ (c + 1) + Held(u) = c + Held(old)
    <2> DEFINE n == Len(old.pktq)
    <2>1. n \in Nat /\ Len(old.pktq) = n /\ Len(u.pktq) = n
        BY <1>1, <1>2
    <2>2. Held(old) = n + 1 /\ Held(u) = n
        <3> HIDE DEF n, u, old
        <3> QED BY <1>2, <2>1, HeldIs DEF old
    <2>3. n \in Nat
        BY <2>1
    <2> HIDE DEF n, u, old
    <2> QED BY <2>2, <2>3
<1>5. k + 1 \in Nat /\ c + 1 \in Nat
    OBVIOUS
<1>6. Base(t, h, k + 1, c + 1) /\ AfterUnit(s, t, d, u)
    <2> HIDE DEF u, t
    <2> QED BY <1>2, <1>3, <1>4, <1>5, UnitSet DEF t
<1>7. Stopped(s, d) = t
    BY DEF Stopped, WithUnit
<1> HIDE DEF t
<1>8. t.unit[d] = u /\ \A e \in Drive : e # d => t.unit[e] = s.unit[e]
    BY <1>6 DEF AfterUnit
<1>9. t.unit[d].cpkt = Nil /\ t.unit[d].pktq = old.pktq
    <2> HIDE DEF u
    <2> QED BY <1>2, <1>8
<1> QED BY <1>6, <1>7, <1>8, <1>9 DEF AfterUnit, AfterStopped

LEMMA CurrentDropped ==
    ASSUME NEW s, NEW h, NEW k \in Nat, NEW c \in Nat, Base(s, h, k, c), Timed(s.unit, s.active),
           NEW d \in Drive, s.unit[d].cpkt # Nil
    PROVE  LET t == WithoutCurrent(s, d)
           IN  Base(t, h, k + 1, c + 1) /\ Timed(t.unit, t.active) /\ t.cp = s.cp /\ t.comm = s.comm
<1> DEFINE v == Stopped(s, d)
           evs == (v.active \ {d}) \cup {QUEUE}
           t == WithActive(v, evs)
<1>1. /\ Base(v, h, k + 1, c + 1) /\ v.cp = s.cp /\ v.active = s.active /\ v.comm = s.comm
      /\ v.unit[d].cpkt = Nil /\ \A e \in Drive : e # d => v.unit[e] = s.unit[e]
    <2>1. Base(v, h, k + 1, c + 1) /\ AfterStopped(s, v, d)
        BY CurrentStopped
    <2> HIDE DEF v
    <2> QED BY <2>1 DEF AfterStopped
<1>2. evs \subseteq 0 .. NumDrives + 1
    <2>1. v.active \subseteq 0 .. NumDrives + 1 /\ QUEUE \in 0 .. NumDrives + 1
        BY <1>1, StateTypes, Lengths DEF Base, QUEUE
    <2> QED BY <2>1
<1>3. t = WithoutCurrent(s, d)
    <2>1. v = [s EXCEPT !.unit[d].cpkt = Nil] /\ evs = (s.active \ {d}) \cup {QUEUE}
        BY <1>1 DEF Stopped
    <2> QED BY <2>1 DEF WithActive, WithoutCurrent
<1> HIDE DEF v
<1>4. Base(t, h, k + 1, c + 1) /\ AfterActive(v, t, evs)
    <2> HIDE DEF evs
    <2> QED BY <1>1, <1>2, BaseActive
<1> HIDE DEF t
<1>5. t.active = evs /\ t.unit = v.unit /\ t.cp = s.cp /\ t.comm = s.comm
    BY <1>1, <1>4 DEF AfterActive
<1>6. QUEUE \notin Drive
    BY Lengths DEF QUEUE, Drive
<1>7. Timed(t.unit, t.active)
    BY <1>1, <1>5, <1>6 DEF Timed
<1> QED BY <1>3, <1>4, <1>5, <1>7

(* The one command is answered, another is still in hand.                  *)
Between(t, h) == Base(t, h, 1, 1) /\ Timed(t.unit, t.active) /\ Slack(t)

LEMMA AnswerBetween ==
    ASSUME NEW s, NEW h, NEW p \in Command, NEW sts \in Sts,
           Base(s, h, 2, 2), Timed(s.unit, s.active), Paired(s.cp.rspq)
    PROVE  Between(Answer(s, p, sts), h)
<1>1. Base(s, h, 1 + 1, 1 + 1)
    OBVIOUS
<1>2. Answered(s, Answer(s, p, sts), h, 1, 1)
    BY <1>1, RefNat, Answers
<1> QED BY <1>2, TimedKept DEF Answered, Between

LEMMA FoundBetween ==
    ASSUME NEW s, NEW h, NEW pkt \in Command, pkt.unit \in Drive, Between(s, h)
    PROVE  Between(Found(s, pkt), h)
<1> DEFINE d == pkt.unit
           u == s.unit[d]
           i == Min(Waiting(s, pkt))
<1>1. s \in States /\ Base(s, h, 1, 1) /\ Timed(s.unit, s.active) /\ Paired(s.cp.rspq)
    BY DEF Between, Base, Slack
<1>2. u.cpkt \in Command \cup {Nil} /\ u.pktq \in Seq(Command)
    BY <1>1, UnitTypes
<1>3. 1 + 1 = 2
    OBVIOUS
<1>4. CASE Current(s, pkt)
    <2>1. u.cpkt # Nil /\ u.cpkt \in Command
        BY <1>2, <1>4 DEF Current, Busy
    <2> DEFINE t == WithoutCurrent(s, d)
    <2>2. Base(t, h, 2, 2) /\ Timed(t.unit, t.active) /\ t.cp = s.cp
        BY <1>1, <1>3, <2>1, CurrentDropped
    <2>3. Found(s, pkt) = Answer(t, u.cpkt, "ABO")
        BY <1>4 DEF Found
    <2> HIDE DEF t
    <2> QED BY <1>1, <2>1, <2>2, <2>3, AnswerBetween DEF Sts
<1>5. CASE ~Current(s, pkt) /\ Waiting(s, pkt) # {}
    <2>1. i \in DOMAIN u.pktq
        <3>1. Waiting(s, pkt) \subseteq DOMAIN u.pktq /\ DOMAIN u.pktq \subseteq Nat
            BY <1>2, LenProperties DEF Waiting
        <3> QED BY <1>5, <3>1, MinIs
    <2>2. u.pktq[i] \in Command
        BY <1>2, <2>1, LenProperties, ElementOfSeq
    <2> DEFINE t == WithoutWaiting(s, d, i)
    <2>3. Base(t, h, 2, 2) /\ Beside(s, t)
        BY <1>1, <1>3, <2>1, WaitingDropped
    <2>4. Timed(t.unit, t.active) /\ t.cp = s.cp
        BY <1>1, <2>3, TimedBeside DEF Beside
    <2>5. Found(s, pkt) = Answer(t, u.pktq[i], "ABO")
        BY <1>5 DEF Found
    <2> HIDE DEF t, i
    <2> QED BY <1>1, <2>2, <2>3, <2>4, <2>5, AnswerBetween DEF Sts
<1>6. CASE ~Current(s, pkt) /\ Waiting(s, pkt) = {}
    <2>1. Found(s, pkt) = s
        BY <1>6 DEF Found
    <2> QED BY <2>1
<1> QED BY <1>4, <1>5, <1>6

LEMMA AboEnds ==
    ASSUME NEW s, NEW h, NEW pkt \in Command, pkt.unit \in Drive, Between(s, h)
    PROVE  Ended(rq_abo(s, pkt), h)
<1>1. Between(Found(s, pkt), h)
    BY FoundBetween
<1> QED BY <1>1, AnswerEnds DEF Between, Slack, rq_abo, Sts

(* rq_mscp of a command in hand, which waits for its drive (q), or is at   *)
(* the head of the queue of a drive that does nothing.                     *)
LEMMA MscpEnds ==
    ASSUME NEW s, NEW h, NEW pkt \in Command, NEW q \in BOOLEAN, Between(s, h),
           pkt.unit \in Drive => q \/ ~Busy(s, pkt)
    PROVE  Ended(rq_mscp(s, pkt, q), h)
<1> DEFINE f == rq_mscp(s, pkt, q)
<1>1. Base(s, h, 1, 1) /\ Timed(s.unit, s.active) /\ Slack(s) /\ Paired(s.cp.rspq)
    BY DEF Between, Slack
<1>2. \A sts \in Sts : Ended(Answer(s, pkt, sts), h)
    BY <1>1, AnswerEnds
<1>3. Ended(Answer(s, pkt, "OFL"), h) /\ Ended(Answer(s, pkt, "SUC"), h)
    BY <1>2 DEF Sts
<1>4. CASE pkt.op \in Sequential /\ pkt.unit \notin Drive
    <2>1. f = Answer(s, pkt, "OFL")
        BY <1>4 DEF rq_mscp
    <2> HIDE DEF f
    <2> QED BY <1>3, <2>1 DEF f
<1>5. CASE ~(pkt.op \in Sequential /\ pkt.unit \notin Drive)
    <2>1. CASE pkt.op = "SCC"
        <3>1. f = rq_scc(s, pkt)
            BY <1>5, <2>1 DEF Sequential, Transfers, rq_mscp
        <3> HIDE DEF f
        <3> QED BY <1>1, <3>1, SccEnds DEF f
    <2>2. CASE pkt.op = "ABO" /\ pkt.unit \in Drive
        <3>1. f = rq_abo(s, pkt)
            BY <1>5, <2>2 DEF Sequential, Transfers, rq_mscp
        <3> HIDE DEF f
        <3> QED BY <2>2, <3>1, AboEnds DEF f
    <2>3. CASE pkt.op = "AVL"
        <3>1. pkt.unit \in Drive /\ f = rq_avl(s, pkt, q)
            BY <1>5, <2>3 DEF Sequential, Transfers, rq_mscp
        <3> QED BY <1>1, <3>1, AvlEnds
    <2>4. CASE pkt.op = "ONL"
        <3>1. pkt.unit \in Drive /\ f = rq_onl(s, pkt, q)
            BY <1>5, <2>4 DEF Sequential, Transfers, rq_mscp
        <3> QED BY <1>1, <3>1, OnlEnds
    <2>5. CASE pkt.op = "SUC"
        <3>1. pkt.unit \in Drive /\ f = rq_suc(s, pkt, q)
            BY <1>5, <2>5 DEF Sequential, Transfers, rq_mscp
        <3> QED BY <1>1, <3>1, SucEnds
    <2>6. CASE pkt.op = "FMT"
        <3>1. pkt.unit \in Drive /\ f = rq_fmt(s, pkt, q)
            BY <1>5, <2>6 DEF Sequential, Transfers, rq_mscp
        <3> QED BY <1>1, <3>1, SucEnds
    <2>7. CASE pkt.op \in Transfers
        <3>1. pkt.unit \in Drive /\ f = rq_rw(s, pkt, q)
            BY <1>5, <2>7 DEF Sequential, Transfers, rq_mscp
        <3> HIDE DEF f
        <3> QED BY <1>1, <3>1, RwEnds DEF f
    <2>8. CASE /\ pkt.op \notin {"SCC", "AVL", "ONL", "SUC", "FMT"} \cup Transfers
               /\ ~(pkt.op = "ABO" /\ pkt.unit \in Drive)
        <3>1. f = Answer(s, pkt, "SUC")
            BY <1>5, <2>8 DEF rq_mscp
        <3> HIDE DEF f
        <3> QED BY <1>3, <3>1 DEF f
    <2> HIDE DEF f
    <2> QED BY <2>1, <2>2, <2>3, <2>4, <2>5, <2>6, <2>7, <2>8
<1> QED BY <1>4, <1>5

-----------------------------------------------------------------------------
(***************************************************************************)
(* The queue thread.                                                       *)
(***************************************************************************)
(* What has come of the state s after the first n drives.                  *)
Worked(w, s, h, n) ==
    /\ w.work \in BOOLEAN /\ Ended(w.s, h)
    /\ ~w.work => w.s = s /\ \A d \in 0 .. n - 1 : s.unit[d].cpkt # Nil \/ s.unit[d].pktq = <<>>

LEMMA FromDriveWorked ==
    ASSUME NEW s, NEW h, NEW d \in Drive, NEW w, Worked(w, s, h, d)
    PROVE  Worked(FromDrive(w, d), s, h, d + 1)
<1> DEFINE u == w.s.unit[d]
           q == Tail(u.pktq)
           t == WithQueue(w.s, d, q)
           p == Head(u.pktq)
<1>1. /\ Base(w.s, h, 0, 0) /\ w.s \in States /\ w.s.cp.csta = "UP" /\ OwnCommands(w.s.unit)
      /\ Timed(w.s.unit, w.s.active) /\ Slack(w.s) /\ d \in Nat
    BY DEF Worked, Ended, Base, Drive
<1>2. CASE u.cpkt # Nil \/ u.pktq = <<>>
    <2>1. FromDrive(w, d) = w
        BY <1>2 DEF FromDrive
    <2>2. \A e \in 0 .. (d + 1) - 1 : e = d \/ e \in 0 .. d - 1
        BY <1>1
    <2> QED BY <1>2, <2>1, <2>2 DEF Worked
<1>3. CASE u.cpkt = Nil /\ u.pktq # <<>>
    <2>1. u.pktq \in Seq(Command)
        BY <1>1, UnitTypes
    <2>2. /\ p \in Command /\ q \in Seq(Command) /\ Len(q) = Len(u.pktq) - 1 /\ Len(u.pktq) \in Nat
          /\ Len(u.pktq) > 0 /\ p = u.pktq[1] /\ \A i \in 1 .. Len(u.pktq) - 1 : q[i] = u.pktq[i + 1]
        BY <1>3, <2>1, HeadAndTail
    <2>3. Taken(w.s, d, q)
        <3> DEFINE n == Len(u.pktq)
                   old == u.pktq
        <3>1. n \in Nat /\ n > 0 /\ Len(q) = n - 1 /\ DOMAIN old = 1 .. n /\ \A i \in 1 .. n - 1 : q[i] = old[i + 1]
            BY <2>1, <2>2, LenProperties
        <3>2. DOMAIN q = 1 .. Len(q)
            BY <2>2, LenProperties
        <3>3. q \in Seq(Command) /\ n = Len(q) + 1
            BY <2>2, <3>1
        <3> HIDE DEF q, n, old
        <3>4. ASSUME NEW i \in DOMAIN q PROVE \E l \in DOMAIN old : q[i] = old[l]
            <4>1. i \in 1 .. n - 1 /\ i + 1 \in 1 .. n
                BY <3>1, <3>2
            <4> QED BY <3>1, <4>1
        <3> QED BY <3>3, <3>4 DEF Taken, n, old
    <2>4. p.unit = d
        <3>1. 1 \in DOMAIN u.pktq
            BY <2>1, <2>2, LenProperties
        <3> QED BY <1>1, <2>2, <3>1 DEF OwnCommands, Owns
    <2>5. Base(t, h, 0 + 1, 0 + 1) /\ Beside(w.s, t)
        <3> HIDE DEF q
        <3> QED BY <1>1, <2>3, TakenBase
    <2> HIDE DEF t
    <2>6. Base(t, h, 1, 1) /\ Timed(t.unit, t.active) /\ Slack(t) /\ t.unit[d].cpkt = Nil
        BY <1>1, <1>3, <2>5, TimedBeside DEF Beside, Slack, LastEnds
    <2>7. Ended(rq_mscp(t, p, FALSE), h)
        <3> HIDE DEF p
        <3> QED BY <2>2, <2>4, <2>6, MscpEnds DEF Between, Busy
    <2>8. FromDrive(w, d) = [s |-> rq_mscp(t, p, FALSE), work |-> TRUE]
        <3>1. ~Dead(w.s)
            BY <1>1 DEF Dead
        <3>2. t = [w.s EXCEPT !.unit[d].pktq = q]
            BY DEF t, WithQueue, WithUnit
        <3>3. FromDrive(w, d) = [s |-> rq_mscp([w.s EXCEPT !.unit[d].pktq = Tail(@)], Head(w.s.unit[d].pktq), FALSE),
                                 work |-> TRUE]
            BY <1>3, <3>1 DEF FromDrive
        <3> QED BY <3>2, <3>3
    <2> HIDE DEF p
    <2>9. FromDrive(w, d).s = rq_mscp(t, p, FALSE) /\ FromDrive(w, d).work = TRUE
        BY <2>8
    <2> QED BY <2>7, <2>9 DEF Worked
<1> QED BY <1>2, <1>3

Following(b, n, s) ==
    /\ b[0] = [s |-> s, work |-> FALSE]
    /\ \A k \in 1 .. n : b[k] = FromDrive(b[k - 1], k - 1)

(* The first n drives one after the other.                                 *)
LEMMA FollowingExists ==
    ASSUME NEW s
    PROVE  \E b : Following(b, NumDrives, s) /\ FromDrives(s) = b[NumDrives]
<1> DEFINE z == [s |-> s, work |-> FALSE]
           N == NumDrives
           B == {m \in Nat : m <= N => \E b : Following(b, m, s)}
<1>0. N \in Nat
    BY Lengths
<1>1. 0 \in B
    <2> DEFINE b == [i \in 0 .. 0 |-> z]
    <2>1. b[0] = z
        OBVIOUS
    <2>2. Following(b, 0, s)
        BY <2>1 DEF Following
    <2> QED BY <2>2
<1>2. ASSUME NEW m \in B PROVE m + 1 \in B
    <2>0. m \in Nat /\ m + 1 \in Nat /\ (m <= N => \E b : Following(b, m, s))
        OBVIOUS
    <2> SUFFICES ASSUME m + 1 <= N PROVE \E b : Following(b, m + 1, s)
        BY <2>0
    <2>1. PICK g : Following(g, m, s)
        BY <1>0, <2>0
    <2> DEFINE new == FromDrive(g[m], m)
               b == [i \in 0 .. m + 1 |-> IF i = m + 1 THEN new ELSE g[i]]
    <2> HIDE DEF new
    <2>2. b[0] = z
        BY <2>0, <2>1 DEF Following
    <2>3. ASSUME NEW k \in 1 .. m + 1 PROVE b[k] = FromDrive(b[k - 1], k - 1)
        <3>1. CASE k = m + 1
            <4>1. b[k] = new /\ b[k - 1] = g[m] /\ k - 1 = m
                BY <2>0, <3>1
            <4> HIDE DEF b
            <4> QED BY <4>1 DEF new
        <3>2. CASE k # m + 1
            <4>1. b[k] = g[k] /\ b[k - 1] = g[k - 1] /\ k \in 1 .. m
                BY <2>0, <3>2
            <4> HIDE DEF b
            <4> QED BY <2>1, <4>1 DEF Following
        <3> QED BY <3>1, <3>2
    <2>4. Following(b, m + 1, s)
        <3> HIDE DEF b
        <3> QED BY <2>2, <2>3 DEF Following
    <2> QED BY <2>4
<1>3. N \in B
    <2> B \in SUBSET Nat
        OBVIOUS
    <2> HIDE DEF B
    <2> QED BY <1>0, <1>1, <1>2, SetInduction
<1>4. PICK c : Following(c, N, s)
    BY <1>3
<1> DEFINE b == [k \in 0 .. N |-> c[k]]
<1>5. Following(b, N, s)
    <2>1. b[0] = c[0]
        BY <1>0
    <2>2. \A k \in 1 .. N : b[k] = c[k] /\ b[k - 1] = c[k - 1]
        BY <1>0
    <2> HIDE DEF b
    <2> QED BY <1>4, <2>1, <2>2 DEF Following
<1>6. b = [k \in 0 .. N |-> IF k = 0 THEN z ELSE FromDrive(b[k - 1], k - 1)]
    <2>1. b = [k \in 0 .. N |-> b[k]]
        OBVIOUS
    <2>2. \A k \in 0 .. N : b[k] = IF k = 0 THEN z ELSE FromDrive(b[k - 1], k - 1)
        <3> SUFFICES ASSUME NEW k \in 0 .. N PROVE b[k] = IF k = 0 THEN z ELSE FromDrive(b[k - 1], k - 1)
            OBVIOUS
        <3>1. k = 0 \/ k \in 1 .. N
            BY <1>0
        <3> HIDE DEF b
        <3> QED BY <1>5, <3>1 DEF Following
    <2> HIDE DEF b
    <2> QED BY <2>1, <2>2
<1> DEFINE A == CHOOSE a : a = [k \in 0 .. N |-> IF k = 0 THEN z ELSE FromDrive(a[k - 1], k - 1)]
<1>7. A = [k \in 0 .. N |-> IF k = 0 THEN z ELSE FromDrive(A[k - 1], k - 1)]
    <2> HIDE DEF b
    <2> QED BY <1>6
<1>8. FromDrives(s) = A[N]
    BY DEF FromDrives
<1> HIDE DEF A
<1>9. A[0] = z /\ \A k \in 1 .. N : A[k] = FromDrive(A[k - 1], k - 1)
    <2>1. \A k \in 0 .. N : A[k] = IF k = 0 THEN z ELSE FromDrive(A[k - 1], k - 1)
        BY <1>7
    <2>2. 0 \in 0 .. N /\ \A k \in 1 .. N : k \in 0 .. N /\ k # 0
        BY <1>0
    <2> QED BY <2>1, <2>2
<1> QED BY <1>8, <1>9 DEF Following

LEMMA FromDrivesWorked ==
    ASSUME NEW s, NEW h, Ended(s, h)
    PROVE  Worked(FromDrives(s), s, h, NumDrives)
<1>1. PICK b : Following(b, NumDrives, s) /\ FromDrives(s) = b[NumDrives]
    BY FollowingExists
<1> DEFINE B == {m \in Nat : m <= NumDrives => Worked(b[m], s, h, m)}
<1>2. 0 \in B
    <2>1. b[0].s = s /\ b[0].work = FALSE
        BY <1>1 DEF Following
    <2>2. 0 .. 0 - 1 = {} /\ FALSE \in BOOLEAN
        OBVIOUS
    <2>3. Worked(b[0], s, h, 0)
        BY <2>1, <2>2 DEF Worked
    <2> QED BY <2>3
<1>3. ASSUME NEW m \in B PROVE m + 1 \in B
    <2>0. m \in Nat /\ m + 1 \in Nat /\ (m <= NumDrives => Worked(b[m], s, h, m))
        OBVIOUS
    <2> SUFFICES ASSUME m + 1 <= NumDrives PROVE Worked(b[m + 1], s, h, m + 1)
        BY <2>0
    <2>1. Worked(b[m], s, h, m) /\ m \in Drive /\ m + 1 \in 1 .. NumDrives /\ (m + 1) - 1 = m
        BY <2>0, Lengths DEF Drive
    <2>2. b[m + 1] = FromDrive(b[m], m)
        BY <1>1, <2>1 DEF Following
    <2> QED BY <2>1, <2>2, FromDriveWorked
<1>4. NumDrives \in B
    <2> B \in SUBSET Nat
        OBVIOUS
    <2> HIDE DEF B
    <2> QED BY <1>2, <1>3, Lengths, SetInduction
<1> QED BY <1>1, <1>4

WithHat(s, n) == [s EXCEPT !.cp.hat = n]

LEMMA HatBase ==
    ASSUME NEW s, NEW h, NEW k \in Nat, NEW c \in Nat, Base(s, h, k, c), NEW n \in Nat, NEW t, t = WithHat(s, n)
    PROVE  /\ Base(t, h, k, c)
           /\ t.cp.rspq = s.cp.rspq /\ t.cp.ridx = s.cp.ridx /\ t.cp.ths = s.cp.ths /\ t.cp.pip = s.cp.pip
           /\ t.cp.cidx = s.cp.cidx /\ t.unit = s.unit /\ t.active = s.active /\ t.comm = s.comm
<1> DEFINE m == [s.cp EXCEPT !.hat = n]
<1>1. s \in States /\ Shaped(s) /\ s.cp \in Msc
    BY ShapedStates DEF Base
<1>2. /\ m \in Msc /\ m.csta = s.cp.csta /\ m.perr = s.cp.perr /\ m.s1dat = s.cp.s1dat /\ m.irq = s.cp.irq
      /\ m.free = s.cp.free /\ m.pbsy = s.cp.pbsy /\ m.credits = s.cp.credits
      /\ m.ridx = s.cp.ridx /\ m.rspq = s.cp.rspq /\ m.ths = s.cp.ths /\ m.pip = s.cp.pip /\ m.cidx = s.cp.cidx
    BY <1>1 DEF Msc
<1>3. Shaped(t) /\ t.cp = m /\ t.unit = s.unit /\ t.active = s.active /\ t.comm = s.comm
    <2>1. t = [s EXCEPT !.cp = m]
        BY DEF WithHat
    <2> HIDE DEF m
    <2> QED BY <1>1, <2>1, ShapedCp
<1> HIDE DEF m
<1>4. Frame(s, t)
    <2>1. t \in States
        BY <1>1, <1>2, <1>3, ShapedStates
    <2> QED BY <1>2, <1>3, <2>1 DEF Frame
<1>5. OwnCommands(t.unit) /\ Balanced(s, t, k, k) /\ Balanced(s, t, c, c)
    BY <1>3 DEF Base, Balanced
<1> QED BY <1>2, <1>3, <1>4, <1>5, BaseKept

(* A packet is taken off the free list.                                    *)
AfterDeqf(s, t) ==
    /\ t.cp.rspq = s.cp.rspq /\ t.cp.ridx = s.cp.ridx /\ t.cp.ths = s.cp.ths /\ t.cp.pip = s.cp.pip
    /\ t.cp.cidx = s.cp.cidx /\ t.cp.hat = s.cp.hat /\ t.unit = s.unit /\ t.active = s.active /\ t.comm = s.comm

LEMMA DeqfBase ==
    ASSUME NEW s, NEW h, NEW k \in Nat, NEW c \in Nat, Base(s, h, k, c), s.cp.free >= 1
    PROVE  Base(rq_deqf(s), h, k + 1, c) /\ AfterDeqf(s, rq_deqf(s)) /\ ~Dead(rq_deqf(s))
<1> DEFINE m == [s.cp EXCEPT !.free = s.cp.free - 1, !.pbsy = s.cp.pbsy + 1]
           t == rq_deqf(s)
<1>1. /\ s \in States /\ Shaped(s) /\ s.cp \in Msc /\ s.cp.free \in Nat /\ s.cp.pbsy \in Nat /\ h \in Hosts
      /\ s.cp.csta = "UP"
    BY ShapedStates, StateTypes DEF Base
<1>2. /\ m \in Msc /\ m.csta = s.cp.csta /\ m.perr = s.cp.perr /\ m.s1dat = s.cp.s1dat /\ m.irq = s.cp.irq
      /\ m.free = s.cp.free - 1 /\ m.pbsy = s.cp.pbsy + 1 /\ m.credits = s.cp.credits /\ m.hat = s.cp.hat
      /\ m.ridx = s.cp.ridx /\ m.rspq = s.cp.rspq /\ m.ths = s.cp.ths /\ m.pip = s.cp.pip /\ m.cidx = s.cp.cidx
    <2>1. s.cp.free - 1 \in Nat /\ s.cp.pbsy + 1 \in Nat
        BY <1>1
    <2> QED BY <1>1, <2>1 DEF Msc
<1>3. Shaped(t) /\ t.cp = m /\ t.unit = s.unit /\ t.active = s.active /\ t.comm = s.comm
    <2>1. s.cp.free # 0
        BY <1>1
    <2>2. t = [s EXCEPT !.cp = m]
        BY <2>1 DEF rq_deqf
    <2> HIDE DEF m, t
    <2> QED BY <1>1, <2>2, ShapedCp
<1> HIDE DEF m, t
<1>4. t \in States
    BY <1>1, <1>2, <1>3, ShapedStates
<1>5. Packets(t, k + 1)
    <2> DEFINE l == Len(s.cp.rspq)
               a == HeldInAll(s.unit)
    <2>1. l \in Nat /\ a \in Nat /\ s.cp.pbsy = k + l + a /\ s.cp.free + s.cp.pbsy = NPkts - 1 /\ NPkts \in Nat
        BY <1>1, StateTypes, HeldNat, Lengths DEF Base, Packets
    <2>2. s.cp.pbsy + 1 = (k + 1) + l + a /\ (s.cp.free - 1) + (s.cp.pbsy + 1) = NPkts - 1
        <3> HIDE DEF l, a
        <3> QED BY <1>1, <2>1
    <2> QED BY <1>2, <1>3, <2>2 DEF Packets
<1>6. Credits(t, h, c) /\ RingOrder(t, h) /\ Called(t, h)
    BY <1>2, <1>3 DEF Base, Credits, RingOrder, Called
<1>7. Base(t, h, k + 1, c)
    BY <1>2, <1>3, <1>4, <1>5, <1>6 DEF Base
<1>8. AfterDeqf(s, t) /\ ~Dead(t)
    BY <1>1, <1>2, <1>3 DEF AfterDeqf, Dead
<1> QED BY <1>7, <1>8 DEF t

(* An entry of the command ring goes back to the host.                     *)
Fetched == [own |-> FALSE, pkt |-> Nil]

LEMMA FetchedBase ==
    ASSUME NEW s, NEW h, NEW k \in Nat, NEW c \in Nat, Base(s, h, k, c), NEW t \in States, NEW i \in 0 .. CmdLen - 1,
           s.comm.cmd[i].own, t.comm.cmd = [s.comm.cmd EXCEPT ![i] = Fetched], t.comm.rsp = s.comm.rsp,
           t.cp.csta = s.cp.csta, t.cp.perr = s.cp.perr, t.cp.s1dat = s.cp.s1dat, s.cp.irq => t.cp.irq,
           t.cp.free = s.cp.free, t.cp.pbsy = s.cp.pbsy, t.cp.credits = s.cp.credits,
           t.cp.ridx = s.cp.ridx, t.cp.rspq = s.cp.rspq, t.unit = s.unit
    PROVE  Base(t, h, k, c + 1)
<1> DEFINE ring == s.comm.cmd
           new == [ring EXCEPT ![i] = Fetched]
<1>1. s \in States /\ h \in Hosts /\ ring \in CmdRing /\ Fetched \in [own : BOOLEAN, pkt : Command \cup {Nil}]
    BY StateTypes DEF Base, Fetched
<1>2. Fetched.own = FALSE
    BY DEF Fetched
<1>3. InRing(new) + 1 = InRing(ring) /\ InRing(new) \in Nat
    <2>1. InRing(new) = InRing(ring) - (IF ring[i].own THEN 1 ELSE 0) + (IF Fetched.own THEN 1 ELSE 0)
        BY <1>1, InRingChanged
    <2>2. InRing(ring) \in Nat /\ InRing(ring) >= 1
        BY <1>1, InRingChanged
    <2> HIDE DEF new, ring
    <2> QED BY <1>2, <2>1, <2>2 DEF ring
<1>4. Packets(t, k)
    BY DEF Base, Packets
<1>5. Credits(t, h, c + 1)
    <2> DEFINE x == h.credits + s.cp.credits + OnTheirWay(s.comm.rsp)
               y == HeldInAll(s.unit)
               e == Ends(s.cp.rspq)
               half == NPkts \div 2
    <2>1. x + InRing(ring) + y + e + c = half
        BY DEF Base, Credits
    <2>2. h.credits \in Nat /\ s.cp.credits \in Nat /\ OnTheirWay(s.comm.rsp) \in Nat /\ y \in Nat /\ e \in Nat
        BY <1>1, StateTypes, HostTypes, RingsNat, HeldNat, EndsNat
    <2>3. half \in Nat
        BY Lengths
    <2>4. x \in Nat
        <3> HIDE DEF y, e
        <3> QED BY <2>2
    <2>5. x + InRing(new) + y + e + (c + 1) = half
        <3> HIDE DEF x, y, e, half, new, ring
        <3> QED BY <1>3, <2>1, <2>2, <2>3, <2>4
    <2> HIDE DEF new
    <2> QED BY <2>5 DEF Credits, new
<1>6. RingOrder(t, h)
    <2>1. \A j \in 0 .. CmdLen - 1 : new[j].own => new[j].pkt # Nil
        <3>1. \A j \in 0 .. CmdLen - 1 : new[j] = IF j = i THEN Fetched ELSE ring[j]
            BY <1>1 DEF CmdRing
        <3> HIDE DEF new
        <3> QED BY <1>2, <3>1 DEF Base, RingOrder
    <2> HIDE DEF new
    <2> QED BY <2>1 DEF Base, RingOrder, new
<1>7. Called(t, h)
    BY DEF Base, Called
<1> QED BY <1>1, <1>4, <1>5, <1>6, <1>7 DEF Base

AfterFetch(s, t) ==
    /\ t.cp.rspq = s.cp.rspq /\ t.cp.ridx = s.cp.ridx /\ t.cp.ths = s.cp.ths /\ t.cp.pip = s.cp.pip
    /\ t.unit = s.unit /\ t.active = s.active /\ t.comm.rsp = s.comm.rsp

(* The step to the next entry of the command ring.                         *)
Onward(s, i, r) == [s EXCEPT !.comm.cmd[i] = Fetched, !.cp.cidx = r]

AfterOnward(s, t, i, r) ==
    /\ Shaped(t) /\ t.unit = s.unit /\ t.active = s.active
    /\ t.cp = [s.cp EXCEPT !.cidx = r]
    /\ t.comm = [s.comm EXCEPT !.cmd = [s.comm.cmd EXCEPT ![i] = Fetched]]

LEMMA OnwardIs ==
    ASSUME NEW s, Shaped(s), NEW i, NEW r
    PROVE  AfterOnward(s, Onward(s, i, r), i, r)
BY DEF Shaped, Onward, AfterOnward

LEMMA PutCmdBase ==
    ASSUME NEW s, NEW h, NEW k \in Nat, NEW c \in Nat, Base(s, h, k, c), s.comm.cmd[s.cp.cidx].own
    PROVE  Base(PutCmdDesc(s), h, k, c + 1) /\ AfterFetch(s, PutCmdDesc(s))
<1> DEFINE i == s.cp.cidx
           r == (i + 1) % CmdLen
           t == Onward(s, i, r)
           v == PutCmdDesc(s)
           ring == [s.comm.cmd EXCEPT ![i] = Fetched]
           m == [s.cp EXCEPT !.cidx = r]
<1>1. /\ s \in States /\ Shaped(s) /\ s.cp \in Msc /\ i \in 0 .. CmdLen - 1 /\ s.unit \in Drives
      /\ s.active \subseteq 0 .. NumDrives + 1 /\ s.comm.cmd \in CmdRing /\ s.cp.irq \in BOOLEAN
      /\ s.comm \in [cmd : CmdRing, rsp : RspRing]
    BY StateTypes DEF Base
<1>2. r \in 0 .. CmdLen - 1
    BY <1>1, Around, Lengths
<1>3. ring \in CmdRing
    <2>1. Fetched \in [own : BOOLEAN, pkt : Command \cup {Nil}]
        BY DEF Fetched
    <2> QED BY <1>1, <2>1 DEF CmdRing
<1>4. /\ m \in Msc /\ m.csta = s.cp.csta /\ m.perr = s.cp.perr /\ m.s1dat = s.cp.s1dat /\ m.irq = s.cp.irq
      /\ m.free = s.cp.free /\ m.pbsy = s.cp.pbsy /\ m.credits = s.cp.credits
      /\ m.ridx = s.cp.ridx /\ m.rspq = s.cp.rspq /\ m.ths = s.cp.ths /\ m.pip = s.cp.pip
    <2> HIDE DEF r
    <2> QED BY <1>1, <1>2 DEF Msc
<1>5. /\ Shaped(t) /\ t.unit = s.unit /\ t.active = s.active /\ t.cp = m
      /\ t.comm = [s.comm EXCEPT !.cmd = ring]
    <2>1. AfterOnward(s, t, i, r)
        BY <1>1, OnwardIs
    <2> HIDE DEF t, r
    <2> QED BY <2>1 DEF AfterOnward
<1>6. t.comm \in [cmd : CmdRing, rsp : RspRing] /\ t.comm.cmd = ring /\ t.comm.rsp = s.comm.rsp
    <2> HIDE DEF t, m, ring
    <2> QED BY <1>1, <1>3, <1>5
<1>7. v = t \/ v = rq_ring_int(t)
    <2>1. t = [s EXCEPT !.comm.cmd[i] = [own |-> FALSE, pkt |-> Nil], !.cp.cidx = (i + 1) % CmdLen]
        BY DEF Onward, Fetched
    <2> HIDE DEF t
    <2> QED BY <2>1 DEF PutCmdDesc
<1> DEFINE b == m.irq \/ "VEC" \in m.s1dat
           n == [m EXCEPT !.irq = b]
<1>8. /\ n \in Msc /\ n.csta = m.csta /\ n.perr = m.perr /\ n.s1dat = m.s1dat /\ n.irq = b
      /\ n.free = m.free /\ n.pbsy = m.pbsy /\ n.credits = m.credits
      /\ n.ridx = m.ridx /\ n.rspq = m.rspq /\ n.ths = m.ths /\ n.pip = m.pip
    <2>1. b \in BOOLEAN
        BY <1>1, <1>4
    <2> HIDE DEF b, m
    <2> QED BY <1>4, <2>1 DEF Msc
<1>9. PICK x \in {m, n} : /\ v.cp = x /\ Shaped(v) /\ v.unit = t.unit /\ v.active = t.active /\ v.comm = t.comm
    <2>1. CASE v = t
        <3> HIDE DEF v, t, m, n
        <3> QED BY <1>5, <2>1
    <2>2. CASE v = rq_ring_int(t)
        <3>1. AfterInterrupt(t, v)
            <4> HIDE DEF v, t
            <4> QED BY <1>5, <2>2, InterruptIs
        <3>2. v.cp = [t.cp EXCEPT !.irq = t.cp.irq \/ "VEC" \in t.cp.s1dat]
            <4> HIDE DEF v, t
            <4> QED BY <3>1 DEF AfterInterrupt
        <3>3. v.cp = n
            <4> HIDE DEF v, t, m
            <4> QED BY <1>5, <3>2
        <3> HIDE DEF v, t, m, n
        <3> QED BY <3>1, <3>3 DEF AfterInterrupt
    <2> QED BY <1>7, <2>1, <2>2
<1>10. /\ x \in Msc /\ x.csta = s.cp.csta /\ x.perr = s.cp.perr /\ x.s1dat = s.cp.s1dat /\ (s.cp.irq => x.irq)
       /\ x.free = s.cp.free /\ x.pbsy = s.cp.pbsy /\ x.credits = s.cp.credits
       /\ x.ridx = s.cp.ridx /\ x.rspq = s.cp.rspq /\ x.ths = s.cp.ths /\ x.pip = s.cp.pip
    <2>1. CASE x = m
        <3> HIDE DEF m
        <3> QED BY <1>4, <2>1
    <2>2. CASE x = n
        <3>1. b = TRUE \/ b = m.irq
            <4> HIDE DEF m
            <4>1. m.irq \in BOOLEAN
                BY <1>1, <1>4
            <4> QED BY <4>1, Zenon
        <3> HIDE DEF m, n, b
        <3> QED BY <1>4, <1>8, <2>2, <3>1
    <2> QED BY <2>1, <2>2
<1> HIDE DEF v, t, m, n, b, r, ring, i
<1>11. v \in States
    BY <1>1, <1>5, <1>6, <1>9, <1>10, ShapedStates
<1>12. Base(v, h, k, c + 1)
    BY <1>1, <1>5, <1>6, <1>9, <1>10, <1>11, FetchedBase DEF i, ring
<1>13. AfterFetch(s, v)
    BY <1>5, <1>6, <1>9, <1>10 DEF AfterFetch
<1> QED BY <1>12, <1>13 DEF v

(***************************************************************************)
(* Reset and fatal error.                                                  *)
(***************************************************************************)
Cleared(units) ==
    [d \in Drive |-> [units[d] EXCEPT !.onl = FALSE, !.cpkt = Nil, !.pktq = <<>>]]

AfterReset(s, t) ==
    /\ Shaped(t) /\ t.cp = ResetMsc(s.cp.perr) /\ t.unit = Cleared(s.unit) /\ t.active = {} /\ t.comm = s.comm

LEMMA ResetIs ==
    ASSUME NEW s, Shaped(s)
    PROVE  AfterReset(s, rq_reset(s))
BY DEF Shaped, rq_reset, AfterReset, Cleared

LEMMA ClearedIs ==
    ASSUME NEW units \in Drives
    PROVE  /\ Cleared(units) \in Drives
           /\ \A d \in Drive : Cleared(units)[d].cpkt = Nil /\ Cleared(units)[d].pktq = <<>>
<1>1. <<>> \in Seq(Command)
    OBVIOUS
<1>2. ASSUME NEW d \in Drive
      PROVE  /\ Cleared(units)[d] \in Unit
             /\ Cleared(units)[d].cpkt = Nil /\ Cleared(units)[d].pktq = <<>>
    <2>1. units[d] \in Unit
        BY DEF Drives
    <2>2. Cleared(units)[d] = [units[d] EXCEPT !.onl = FALSE, !.cpkt = Nil, !.pktq = <<>>]
        BY DEF Cleared
    <2> QED BY <1>1, <2>1, <2>2 DEF Unit
<1>3. Cleared(units) \in Drives
    BY <1>2 DEF Cleared, Drives
<1> QED BY <1>2, <1>3

LEMMA ResetMscIs ==
    ASSUME NEW perr \in {"none", "PRE", "PIE", "QWE", "PPF", "HAT"}
    PROVE  LET m == ResetMsc(perr)
           IN  /\ m \in Msc /\ m.csta = "S1" /\ m.perr = perr
               /\ m.free = NPkts - 1 /\ m.pbsy = 0 /\ m.rspq = <<>> /\ m.ths = FALSE /\ m.pip = FALSE /\ m.saw = {}
               /\ m.credits = (NPkts \div 2) - 1 /\ m.cidx = 0 /\ m.ridx = 0
<1> DEFINE f == NPkts - 1
           c == (NPkts \div 2) - 1
<1>1. f \in Nat /\ c \in Nat
    BY Lengths
<1>2. Htmo \in Nat /\ 0 \in 0 .. CmdLen - 1 /\ 0 \in 0 .. RspLen - 1
    BY Lengths
<1>3. <<>> \in Seq(Rsp)
    OBVIOUS
<1>4. ResetMsc(perr) =
      [csta |-> "S1", saw |-> {}, s1dat |-> {}, bad |-> FALSE, perr |-> perr, ths |-> FALSE,
       htmo |-> Htmo, hat |-> Htmo, irq |-> FALSE, pip |-> FALSE, free |-> f,
       pbsy |-> 0, rspq |-> <<>>, credits |-> c, cidx |-> 0, ridx |-> 0]
    BY DEF ResetMsc
<1> HIDE DEF f, c
<1>5. ResetMsc(perr) \in Msc
    BY <1>1, <1>2, <1>3, <1>4 DEF Msc
<1> QED BY <1>4, <1>5 DEF f, c

(* After a reset by the host.                                              *)
LEMMA ResetRests ==
    ASSUME NEW s \in States, s.cp.perr # "NSR", NEW h \in Hosts, h.cidx = 0, h.ridx = 0
    PROVE  Rest(rq_reset(s), h)
<1> DEFINE t == rq_reset(s)
           m == ResetMsc(s.cp.perr)
<1>1. Shaped(s) /\ s.unit \in Drives /\ s.comm \in [cmd : CmdRing, rsp : RspRing] /\ s.cp \in Msc
    BY StateTypes
<1>2. s.cp.perr \in {"none", "PRE", "PIE", "QWE", "PPF", "HAT"}
    BY <1>1 DEF Msc
<1>3. Shaped(t) /\ t.cp = m /\ t.unit = Cleared(s.unit) /\ t.active = {} /\ t.comm = s.comm
    BY <1>1, ResetIs DEF AfterReset
<1>4. /\ m \in Msc /\ m.csta = "S1" /\ m.perr = s.cp.perr
      /\ m.free = NPkts - 1 /\ m.pbsy = 0 /\ m.rspq = <<>> /\ m.ths = FALSE /\ m.pip = FALSE /\ m.saw = {}
      /\ m.credits = (NPkts \div 2) - 1 /\ m.cidx = 0 /\ m.ridx = 0
    BY <1>2, ResetMscIs
<1> HIDE DEF t, m
<1>5. t \in States
    BY <1>1, <1>3, <1>4, ClearedIs, ShapedStates
<1>6. \A d \in Drive : t.unit[d].cpkt = Nil /\ t.unit[d].pktq = <<>>
    BY <1>1, <1>3, ClearedIs
<1> HIDE DEF t
<1>7. Rest(t, h)
    BY <1>3, <1>4, <1>5, <1>6 DEF Rest
<1> QED BY <1>7 DEF t

AfterDead(s, t, err) ==
    /\ Shaped(t) /\ t.cp = [ResetMsc(s.cp.perr) EXCEPT !.csta = "DEAD", !.perr = err]
    /\ t.unit = Cleared(s.unit) /\ t.active = {} /\ t.comm = s.comm

LEMMA DeadIs ==
    ASSUME NEW s, Shaped(s), NEW err
    PROVE  AfterDead(s, rq_fatal(s, err), err)
<1> DEFINE r == rq_reset(s)
           t == rq_fatal(s, err)
           m == [r.cp EXCEPT !.csta = "DEAD", !.perr = err]
<1>1. Shaped(r) /\ r.cp = ResetMsc(s.cp.perr) /\ r.unit = Cleared(s.unit) /\ r.active = {} /\ r.comm = s.comm
    BY ResetIs DEF AfterReset
<1>2. t = [r EXCEPT !.cp = m]
    BY DEF rq_fatal
<1> HIDE DEF r, t
<1>3. Shaped(t) /\ t.cp = m /\ t.unit = r.unit /\ t.active = r.active /\ t.comm = r.comm
    <2> HIDE DEF m
    <2> QED BY <1>1, <1>2, ShapedCp
<1> QED BY <1>1, <1>3 DEF AfterDead, t

LEMMA FatalRests ==
    ASSUME NEW s \in States, s.cp.perr # "NSR", NEW h \in Hosts, NEW err \in {"PRE", "PIE", "QWE", "PPF", "HAT"}
    PROVE  Rest(rq_fatal(s, err), h) /\ Dead(rq_fatal(s, err))
<1> DEFINE t == rq_fatal(s, err)
           m == ResetMsc(s.cp.perr)
           n == [m EXCEPT !.csta = "DEAD", !.perr = err]
<1>1. Shaped(s) /\ s.unit \in Drives /\ s.comm \in [cmd : CmdRing, rsp : RspRing] /\ s.cp \in Msc
    BY StateTypes
<1>2. s.cp.perr \in {"none", "PRE", "PIE", "QWE", "PPF", "HAT"}
    BY <1>1 DEF Msc
<1>3. Shaped(t) /\ t.cp = n /\ t.unit = Cleared(s.unit) /\ t.active = {} /\ t.comm = s.comm
    BY <1>1, DeadIs DEF AfterDead
<1>4. /\ m \in Msc
      /\ m.free = NPkts - 1 /\ m.pbsy = 0 /\ m.rspq = <<>> /\ m.ths = FALSE /\ m.pip = FALSE /\ m.saw = {}
    BY <1>2, ResetMscIs
<1>5. /\ n \in Msc /\ n.csta = "DEAD" /\ n.perr = err
      /\ n.free = NPkts - 1 /\ n.pbsy = 0 /\ n.rspq = <<>> /\ n.ths = FALSE /\ n.pip = FALSE /\ n.saw = {}
    <2> HIDE DEF m
    <2> QED BY <1>4 DEF Msc
<1> HIDE DEF t, m, n
<1>6. t \in States
    BY <1>1, <1>3, <1>5, ClearedIs, ShapedStates
<1>7. \A d \in Drive : t.unit[d].cpkt = Nil /\ t.unit[d].pktq = <<>>
    BY <1>1, <1>3, ClearedIs
<1>8. Rest(t, h)
    BY <1>3, <1>5, <1>6, <1>7 DEF Rest
<1>9. Dead(t)
    BY <1>3, <1>5 DEF Dead
<1> QED BY <1>8, <1>9 DEF t

(***************************************************************************)
(* Room: where logs wait, a credit is elsewhere, and a packet is free for  *)
(* every credit the host may spend.                                        *)
(***************************************************************************)
LEMMA FreeForCommand ==
    ASSUME NEW s, NEW h, Base(s, h, 0, 0), Paired(s.cp.rspq), s.comm.cmd[s.cp.cidx].own
    PROVE  s.cp.free >= 1
<1> DEFINE l == Len(s.cp.rspq)
           e == Ends(s.cp.rspq)
           a == HeldInAll(s.unit)
           g == InRing(s.comm.cmd)
           x == OnTheirWay(s.comm.rsp)
           half == NPkts \div 2
           hc == h.credits
           cc == s.cp.credits
           f == s.cp.free
           b == s.cp.pbsy
<1>1. s \in States /\ h \in Hosts
    BY DEF Base
<1>2. l \in Nat /\ e \in Nat /\ a \in Nat /\ g \in Nat /\ x \in Nat /\ hc \in Nat /\ cc \in Nat /\ f \in Nat
    BY <1>1, StateTypes, HostTypes, HeldNat, RingsNat, EndsNat
<1>3. half \in Nat /\ 2 * half <= NPkts /\ NPkts \in Nat
    BY Lengths
<1>4. 2 * e - l \in Nat
    BY <1>1, StateTypes, PairedBare DEF Bare
<1>5. f + b = NPkts - 1 /\ b = 0 + l + a /\ hc + cc + x + g + a + e + 0 = half
    BY DEF Base, Packets, Credits
<1>6. g >= 1
    <2>1. s.comm.cmd \in CmdRing /\ s.cp.cidx \in 0 .. CmdLen - 1
          /\ Fetched \in [own : BOOLEAN, pkt : Command \cup {Nil}]
        BY <1>1, StateTypes DEF Fetched
    <2> QED BY <2>1, InRingChanged
<1> HIDE DEF l, e, a, g, x, half, hc, cc, f, b
<1>7. f >= 1
    BY <1>2, <1>3, <1>4, <1>5, <1>6
<1> QED BY <1>7 DEF f

LEMMA CreditRoom ==
    ASSUME NEW s, NEW h, Base(s, h, 0, 0), OnTheirWay(s.comm.rsp) >= 1
    PROVE  Room(s)
<1> DEFINE e == Ends(s.cp.rspq)
           a == HeldInAll(s.unit)
           g == InRing(s.comm.cmd)
           x == OnTheirWay(s.comm.rsp)
           half == NPkts \div 2
           hc == h.credits
           cc == s.cp.credits
<1>1. s \in States /\ h \in Hosts
    BY DEF Base
<1>2. e \in Nat /\ a \in Nat /\ g \in Nat /\ x \in Nat /\ hc \in Nat /\ cc \in Nat
    BY <1>1, StateTypes, HostTypes, HeldNat, RingsNat, EndsNat
<1>3. half \in Nat
    BY Lengths
<1>4. hc + cc + x + g + a + e + 0 = half /\ x >= 1
    BY DEF Base, Credits
<1> HIDE DEF e, a, g, x, half, hc, cc
<1>5. e + a <= half - 1
    BY <1>2, <1>3, <1>4
<1> QED BY <1>5 DEF Room, e, a, half

(* A ring full of responses is not full of logs alone.                     *)
LEMMA FullRoom ==
    ASSUME NEW s, NEW h, Base(s, h, 0, 0), LastEnds(s), ~s.comm.rsp[s.cp.ridx].own,
           s.cp.rspq # <<>> \/ s.cp.ths
    PROVE  Bare(s.cp.rspq) >= 1 \/ OnTheirWay(s.comm.rsp) >= 1
<1> DEFINE ring == s.comm.rsp
           to == s.cp.ridx
           i == Prior(to, RspLen)
           last == ring[i]
<1>1. s \in States /\ h \in Hosts
    BY DEF Base
<1>2. ring \in RspRing /\ to \in 0 .. RspLen - 1 /\ h.ridx \in 0 .. RspLen - 1
    BY <1>1, StateTypes, HostTypes
<1>3. i \in 0 .. RspLen - 1
    BY <1>2, Around, Lengths
<1>4. PICK n \in 0 .. RspLen : Unread(ring, h.ridx, to, n)
    BY DEF Base, RingOrder
<1> HIDE DEF ring, to
<1>5. \A j \in 0 .. RspLen - 1 : Filled(ring[j])
    BY <1>2, <1>4, UnreadFull DEF ring, to
<1>6. Filled(last) /\ last \in [own : BOOLEAN, pkt : Given \cup {Nil}]
    BY <1>2, <1>3, <1>5 DEF RspRing
<1>7. ~last.own /\ last.pkt \in Given
    BY <1>6 DEF Filled
<1>8. CASE last.pkt.end
    <2>1. Worth(last) = last.pkt.cr + 1 /\ last.pkt.cr \in Nat
        BY <1>6, <1>7, <1>8 DEF Worth, Given
    <2>2. Worth(last) <= OnTheirWay(ring) /\ OnTheirWay(ring) \in Nat
        <3> HIDE DEF i
        <3> QED BY <1>2, <1>3, <1>6, OnTheirWayChanged
    <2>3. OnTheirWay(ring) >= 1
        <3> HIDE DEF last
        <3> QED BY <2>1, <2>2
    <2> QED BY <2>3 DEF ring
<1>9. CASE ~last.pkt.end
    BY <1>7, <1>9 DEF LastEnds, ring, to
<1> QED BY <1>8, <1>9

(* The first response is taken out of the queue.                           *)
Popped(s) == [s EXCEPT !.cp.rspq = Tail(s.cp.rspq)]

AfterPop(s, t) ==
    /\ t.cp.rspq = Tail(s.cp.rspq) /\ t.cp.ridx = s.cp.ridx /\ t.cp.ths = s.cp.ths /\ t.cp.pip = s.cp.pip
    /\ t.unit = s.unit /\ t.active = s.active /\ t.comm = s.comm

LEMMA PoppedBase ==
    ASSUME NEW s, NEW h, Base(s, h, 0, 0), s.cp.rspq # <<>>
    PROVE  Base(Popped(s), h, 1, One(Head(s.cp.rspq))) /\ AfterPop(s, Popped(s))
<1> DEFINE q == s.cp.rspq
           r == Tail(q)
           p == Head(q)
           m == [s.cp EXCEPT !.rspq = r]
           t == Popped(s)
<1>1. s \in States /\ h \in Hosts /\ Shaped(s) /\ s.cp \in Msc /\ q \in Seq(Rsp) /\ s.cp.csta = "UP"
    BY StateTypes DEF Base
<1>2. p \in Rsp /\ r \in Seq(Rsp) /\ Len(r) = Len(q) - 1 /\ Len(q) \in Nat
    BY <1>1, HeadAndTail
<1>3. Ends(q) = One(p) + Ends(r) /\ Ends(q) \in Nat /\ Ends(r) \in Nat /\ One(p) \in Nat
    BY <1>1, <1>2, EndsTail, EndsNat DEF One
<1>4. /\ m \in Msc /\ m.csta = s.cp.csta /\ m.perr = s.cp.perr /\ m.s1dat = s.cp.s1dat /\ m.irq = s.cp.irq
      /\ m.free = s.cp.free /\ m.pbsy = s.cp.pbsy /\ m.credits = s.cp.credits
      /\ m.ridx = s.cp.ridx /\ m.rspq = r /\ m.ths = s.cp.ths /\ m.pip = s.cp.pip
    <2> HIDE DEF r
    <2> QED BY <1>1, <1>2 DEF Msc
<1>5. Shaped(t) /\ t.cp = m /\ t.unit = s.unit /\ t.active = s.active /\ t.comm = s.comm
    <2>1. t = [s EXCEPT !.cp = m]
        BY DEF Popped
    <2>2. Shaped(s)
        BY <1>1
    <2> HIDE DEF m, t
    <2> QED BY <2>1, <2>2, ShapedCp
<1>6. Packets(t, 1)
    <2> DEFINE l == Len(q)
               n == Len(r)
               a == HeldInAll(s.unit)
               b == s.cp.pbsy
    <2>1. l \in Nat /\ n = l - 1 /\ a \in Nat /\ b = 0 + l + a /\ s.cp.free + b = NPkts - 1
        BY <1>1, <1>2, HeldNat, StateTypes DEF Base, Packets
    <2>2. b = 1 + n + a
        <3> HIDE DEF l, n, a, b
        <3> QED BY <2>1
    <2> HIDE DEF m, t
    <2> QED BY <1>4, <1>5, <2>1, <2>2 DEF Packets
<1>7. Credits(t, h, One(p))
    <2> DEFINE x == h.credits + s.cp.credits + OnTheirWay(s.comm.rsp) + InRing(s.comm.cmd) + HeldInAll(s.unit)
               half == NPkts \div 2
               e == Ends(q)
               g == Ends(r)
               o == One(p)
    <2>1. x + e + 0 = half
        BY DEF Base, Credits
    <2>2. h.credits \in Nat /\ s.cp.credits \in Nat /\ OnTheirWay(s.comm.rsp) \in Nat /\ InRing(s.comm.cmd) \in Nat
          /\ HeldInAll(s.unit) \in Nat
        BY <1>1, StateTypes, HostTypes, RingsNat, HeldNat
    <2>3. half \in Nat
        BY Lengths
    <2>4. x \in Nat
        BY <2>2
    <2>5. e = o + g /\ e \in Nat /\ g \in Nat /\ o \in Nat
        BY <1>3
    <2>6. x + g + o = half
        <3> HIDE DEF x, half, e, g, o
        <3> QED BY <2>1, <2>3, <2>4, <2>5
    <2> HIDE DEF m, t, r, p
    <2> QED BY <1>4, <1>5, <2>6 DEF Credits
<1> HIDE DEF m, t
<1>8. t \in States
    BY <1>1, <1>4, <1>5, StateTypes, ShapedStates
<1>9. RingOrder(t, h) /\ Called(t, h) /\ OwnCommands(t.unit)
    BY <1>4, <1>5 DEF Base, RingOrder, Called
<1>10. Base(t, h, 1, One(p))
    <2> HIDE DEF p
    <2> QED BY <1>1, <1>4, <1>5, <1>6, <1>7, <1>8, <1>9 DEF Base
<1>11. AfterPop(s, t)
    BY <1>4, <1>5 DEF AfterPop
<1> QED BY <1>10, <1>11 DEF t

(* The queue thread sends the first response or leaves the queue as it is. *)
First(s) == rq_putpkt(Popped(s), Head(s.cp.rspq), FALSE)

LEMMA FirstSent ==
    ASSUME NEW s, NEW h, Ended(s, h), s.cp.rspq # <<>>
    PROVE  Ended(First(s), h) /\ Room(First(s))
<1> DEFINE q == s.cp.rspq
           r == Tail(q)
           p == Head(q)
           t == Popped(s)
           u == First(s)
<1>1. Base(s, h, 0, 0) /\ s \in States /\ q \in Seq(Rsp) /\ Paired(q) /\ LastEnds(s) /\ Timed(s.unit, s.active)
    BY StateTypes DEF Ended, Base, Slack
<1>2. p \in Rsp /\ r \in Seq(Rsp) /\ q = <<p>> \o r
    BY <1>1, HeadAndTail
<1>3. Paired(r) /\ (~p.end => r # <<>> /\ Head(r).end)
    BY <1>1, PairedTail
<1>4. Bare(r) \in Nat /\ (~p.end => Bare(r) >= 1)
    <2> HIDE DEF r
    <2> QED BY <1>2, <1>3, PairedBare
<1>5. Base(t, h, 0 + 1, 0 + One(p)) /\ AfterPop(s, t)
    <2>1. 0 + 1 = 1 /\ 0 + One(p) = One(p)
        BY DEF One
    <2> QED BY <1>1, <2>1, PoppedBase
<1> HIDE DEF t, p
<1>6. Put(t, u, h, p, Placed(t.cp.rspq, p, FALSE), 0, 0)
    <2>1. u = rq_putpkt(t, p, FALSE)
        BY DEF First, t, p
    <2> HIDE DEF u
    <2> QED BY <1>2, <1>5, <2>1, PutPkt
<1> HIDE DEF u
<1>7. Base(u, h, 0, 0) /\ Kept(t, u) /\ (Went(t, u, p) \/ Waited(t, u, Placed(t.cp.rspq, p, FALSE)))
    BY <1>6 DEF Put
<1>8. t.cp.rspq = r /\ t.unit = s.unit /\ t.active = s.active /\ t.comm = s.comm /\ t.cp.ridx = s.cp.ridx
      /\ t.cp.ths = s.cp.ths
    BY <1>5 DEF AfterPop
<1>9. Timed(u.unit, u.active)
    BY <1>1, <1>7, <1>8, TimedKept
<1>10. CASE Went(t, u, p)
    <2>1. /\ u.cp.rspq = r /\ u.comm.rsp[Prior(u.cp.ridx, RspLen)].pkt.end = p.end
          /\ (p.end => OnTheirWay(u.comm.rsp) >= 1)
        BY <1>8, <1>10 DEF Went
    <2>2. Slack(u)
        <3> HIDE DEF r
        <3> QED BY <1>3, <1>4, <2>1 DEF Slack, LastEnds
    <2>3. CASE p.end
        BY <1>7, <1>9, <2>1, <2>2, <2>3, CreditRoom DEF Ended, u
    <2>4. CASE ~p.end
        <3>1. Bare(u.cp.rspq) >= 1
            BY <1>4, <2>1, <2>4
        <3>2. Room(u)
            BY <3>1 DEF Room
        <3> QED BY <1>7, <1>9, <2>2, <3>2 DEF Ended, u
    <2> QED BY <2>3, <2>4
<1>11. CASE Waited(t, u, Placed(t.cp.rspq, p, FALSE))
    <2>1. u.cp.rspq = q /\ u.comm.rsp = s.comm.rsp /\ u.cp.ridx = s.cp.ridx /\ ~u.comm.rsp[u.cp.ridx].own
          /\ u.cp.ths = s.cp.ths
        BY <1>2, <1>7, <1>8, <1>11 DEF Waited, Placed, Kept
    <2>2. Slack(u) /\ LastEnds(u) /\ u.cp.rspq # <<>>
        <3> HIDE DEF q
        <3>1. s.cp.rspq = q
            BY DEF q
        <3> QED BY <1>1, <2>1, <3>1 DEF Slack, LastEnds
    <2>3. Bare(u.cp.rspq) >= 1 \/ OnTheirWay(u.comm.rsp) >= 1
        BY <1>7, <2>1, <2>2, FullRoom
    <2>4. Room(u)
        <3>1. CASE Bare(u.cp.rspq) >= 1
            BY <3>1 DEF Room
        <3>2. CASE OnTheirWay(u.comm.rsp) >= 1
            BY <1>7, <3>2, CreditRoom
        <3> QED BY <2>3, <3>1, <3>2
    <2> QED BY <1>7, <1>9, <2>2, <2>4 DEF Ended, u
<1> QED BY <1>7, <1>10, <1>11 DEF u

(* Something else of the controller's MSC changes.                         *)
WithCp(s, m) == [s EXCEPT !.cp = m]

SameMsc(m, n) ==
    /\ n.csta = m.csta /\ n.perr \in {m.perr, "none"} /\ n.s1dat = m.s1dat /\ n.irq = m.irq
    /\ n.free = m.free /\ n.pbsy = m.pbsy /\ n.credits = m.credits /\ n.ridx = m.ridx /\ n.rspq = m.rspq

AfterCp(s, t, m) == t.cp = m /\ t.unit = s.unit /\ t.active = s.active /\ t.comm = s.comm

LEMMA CpBase ==
    ASSUME NEW s, NEW h, NEW k \in Nat, NEW c \in Nat, Base(s, h, k, c), NEW m \in Msc, SameMsc(s.cp, m)
    PROVE  Base(WithCp(s, m), h, k, c) /\ AfterCp(s, WithCp(s, m), m)
<1> DEFINE t == WithCp(s, m)
<1>1. s \in States /\ Shaped(s)
    BY ShapedStates DEF Base
<1>2. Shaped(t) /\ t.cp = m /\ t.unit = s.unit /\ t.active = s.active /\ t.comm = s.comm
    <2>1. t = [s EXCEPT !.cp = m]
        BY DEF WithCp
    <2> HIDE DEF t
    <2> QED BY <1>1, <2>1, ShapedCp
<1> HIDE DEF t
<1>3. Frame(s, t)
    <2>1. t \in States
        BY <1>1, <1>2, ShapedStates
    <2> QED BY <1>2, <2>1 DEF Frame, SameMsc
<1>4. OwnCommands(t.unit) /\ Balanced(s, t, k, k) /\ Balanced(s, t, c, c)
    BY <1>2 DEF Base, Balanced
<1>5. Base(t, h, k, c)
    BY <1>3, <1>4, BaseKept
<1> QED BY <1>2, <1>5 DEF AfterCp, t

(* A command from the host's ring.                                         *)
LEMMA GotPkt ==
    ASSUME NEW s, NEW h, Ended(s, h), s.comm.cmd[s.cp.cidx].own
    PROVE  \/ Ended(rq_getpkt(s), h)
           \/ Rest(rq_getpkt(s), h) /\ Dead(rq_getpkt(s))
<1> DEFINE pkt == s.comm.cmd[s.cp.cidx].pkt
           r == rq_deqf(s)
           t == [r EXCEPT !.cp.hat = 0]
           u == PutCmdDesc(t)
<1>1. Base(s, h, 0, 0) /\ s \in States /\ Timed(s.unit, s.active) /\ Slack(s) /\ Paired(s.cp.rspq) /\ h \in Hosts
    BY DEF Ended, Base, Slack
<1>2. pkt \in Command
    <2>1. s.comm.cmd \in CmdRing /\ s.cp.cidx \in 0 .. CmdLen - 1
        BY <1>1, StateTypes
    <2>2. s.comm.cmd[s.cp.cidx] \in [own : BOOLEAN, pkt : Command \cup {Nil}]
        BY <2>1 DEF CmdRing
    <2>3. pkt # Nil
        BY <1>1, <2>1 DEF Base, RingOrder
    <2> QED BY <2>2, <2>3
<1>3. s.cp.free >= 1
    BY <1>1, FreeForCommand
<1>4. Base(r, h, 0 + 1, 0) /\ AfterDeqf(s, r) /\ ~Dead(r)
    BY <1>1, <1>3, DeqfBase
<1> HIDE DEF r
<1>5. /\ Base(t, h, 1, 0)
      /\ t.cp.rspq = s.cp.rspq /\ t.cp.ridx = s.cp.ridx /\ t.cp.ths = s.cp.ths /\ t.cp.cidx = s.cp.cidx
      /\ t.unit = s.unit /\ t.active = s.active /\ t.comm = s.comm
    <2>1. Base(r, h, 1, 0)
        BY <1>4
    <2>2. /\ Base(t, h, 1, 0)
          /\ t.cp.rspq = r.cp.rspq /\ t.cp.ridx = r.cp.ridx /\ t.cp.ths = r.cp.ths /\ t.cp.cidx = r.cp.cidx
          /\ t.unit = r.unit /\ t.active = r.active /\ t.comm = r.comm
        <3>1. t = WithHat(r, 0)
            BY DEF WithHat
        <3> HIDE DEF t
        <3> QED BY <2>1, <3>1, HatBase
    <2> HIDE DEF t
    <2> QED BY <1>4, <2>2 DEF AfterDeqf
<1> HIDE DEF t
<1>6. Base(u, h, 1, 0 + 1) /\ AfterFetch(t, u)
    <2>1. t.comm.cmd[t.cp.cidx].own
        BY <1>5
    <2> QED BY <1>5, <2>1, PutCmdBase
<1> HIDE DEF u
<1>7. t \in States /\ t.cp.perr # "NSR" /\ u \in States /\ u.cp.perr # "NSR"
    BY <1>5, <1>6 DEF Base
<1>8. CASE pkt.op = "PRE"
    <2>1. rq_getpkt(s) = rq_fatal(t, "PRE")
        BY <1>4, <1>8 DEF rq_getpkt, r, t
    <2> QED BY <1>1, <1>7, <2>1, FatalRests
<1>9. CASE pkt.op = "PIE"
    <2>1. rq_getpkt(s) = rq_fatal(u, "PIE")
        BY <1>4, <1>9 DEF rq_getpkt, r, t, u
    <2> QED BY <1>1, <1>7, <2>1, FatalRests
<1>10. CASE pkt.op # "PRE" /\ pkt.op # "PIE"
    <2>1. rq_getpkt(s) = rq_mscp(u, pkt, TRUE)
        BY <1>4, <1>10 DEF rq_getpkt, r, t, u
    <2>2. Between(u, h)
        <3>1. Base(u, h, 1, 1)
            BY <1>6
        <3>2. Timed(u.unit, u.active) /\ Slack(u)
            BY <1>1, <1>5, <1>6 DEF AfterFetch, Slack, LastEnds
        <3> QED BY <3>1, <3>2 DEF Between
    <2> HIDE DEF pkt
    <2>3. Ended(rq_mscp(u, pkt, TRUE), h)
        BY <1>2, <2>2, MscpEnds
    <2> QED BY <2>1, <2>3
<1> QED BY <1>8, <1>9, <1>10

(* What has come of the drives' queues and the host's ring: without work   *)
(* there is nothing left in either.                                        *)
HostWorked(w, h) ==
    /\ Ended(w.s, h) \/ (Rest(w.s, h) /\ Dead(w.s))
    /\ ~w.work => /\ Ended(w.s, h) /\ ~w.s.cp.pip
                  /\ \A d \in Drive : w.s.unit[d].cpkt # Nil \/ w.s.unit[d].pktq = <<>>

LEMMA FromHostWorked ==
    ASSUME NEW s, NEW h, NEW w, Worked(w, s, h, NumDrives)
    PROVE  HostWorked(FromHost(w), h)
<1>1. Ended(w.s, h) /\ ~Dead(w.s)
    BY DEF Worked, Ended, Base, Dead
<1>2. ~w.work => \A d \in Drive : w.s.unit[d].cpkt # Nil \/ w.s.unit[d].pktq = <<>>
    BY DEF Worked, Drive
<1>3. CASE w.work \/ ~w.s.cp.pip
    <2>1. FromHost(w) = w
        BY <1>3 DEF FromHost
    <2> QED BY <1>1, <1>2, <1>3, <2>1 DEF HostWorked
<1>4. CASE ~w.work /\ w.s.cp.pip /\ ~w.s.comm.cmd[w.s.cp.cidx].own
    <2> DEFINE m == [w.s.cp EXCEPT !.pip = FALSE]
               t == WithCp(w.s, m)
    <2>1. w.s \in States /\ w.s.cp \in Msc /\ Base(w.s, h, 0, 0) /\ Timed(w.s.unit, w.s.active) /\ Slack(w.s)
        BY <1>1, StateTypes DEF Ended, Base
    <2>2. m \in Msc /\ SameMsc(w.s.cp, m) /\ m.pip = FALSE /\ m.ths = w.s.cp.ths
        BY <2>1 DEF Msc, SameMsc
    <2>3. Base(t, h, 0, 0) /\ AfterCp(w.s, t, m)
        <3> HIDE DEF m
        <3> QED BY <2>1, <2>2, CpBase
    <2>4. FromHost(w) = [s |-> t, work |-> FALSE]
        BY <1>1, <1>4 DEF FromHost, WithCp
    <2> HIDE DEF m, t
    <2>5. Ended(t, h) /\ ~t.cp.pip /\ t.unit = w.s.unit
        BY <2>1, <2>2, <2>3 DEF AfterCp, SameMsc, Ended, Slack, LastEnds
    <2>6. FromHost(w).s = t
        BY <2>4
    <2> HIDE DEF FromHost
    <2> QED BY <1>2, <1>4, <2>5, <2>6 DEF HostWorked
<1>5. CASE ~w.work /\ w.s.cp.pip /\ w.s.comm.cmd[w.s.cp.cidx].own
    <2>1. FromHost(w) = [s |-> rq_getpkt(w.s), work |-> TRUE]
        BY <1>1, <1>5 DEF FromHost
    <2>2. FromHost(w).s = rq_getpkt(w.s) /\ FromHost(w).work = TRUE
        BY <2>1
    <2>3. Ended(rq_getpkt(w.s), h) \/ (Rest(rq_getpkt(w.s), h) /\ Dead(rq_getpkt(w.s)))
        BY <1>1, <1>5, GotPkt
    <2> QED BY <2>2, <2>3 DEF HostWorked
<1> QED BY <1>3, <1>4, <1>5

(* Whoever leaves work behind queues the thread. *)
Requeue(s) == WithActive(s, s.active \cup {QUEUE})

LEMMA RequeueRuns ==
    ASSUME NEW x, NEW h, Ended(x, h), Room(x)
    PROVE  Running(Requeue(x), h) /\ Requeue(x) = Activate(x, QUEUE)
<1> DEFINE evs == x.active \cup {QUEUE}
           v == WithActive(x, evs)
<1>1. x.active \subseteq 0 .. NumDrives + 1 /\ Base(x, h, 0, 0) /\ Timed(x.unit, x.active) /\ Slack(x)
    BY StateTypes DEF Ended, Base
<1>2. evs \subseteq 0 .. NumDrives + 1
    BY <1>1, Lengths DEF QUEUE
<1>3. Base(v, h, 0, 0) /\ AfterActive(x, v, evs)
    <2> HIDE DEF evs
    <2> QED BY <1>1, <1>2, BaseActive
<1>4. QUEUE \notin Drive
    BY Lengths DEF QUEUE, Drive
<1>5. Requeue(x) = v /\ v = Activate(x, QUEUE)
    BY DEF Requeue, Activate, WithActive
<1> HIDE DEF v
<1>6. Timed(v.unit, v.active)
    BY <1>1, <1>3, <1>4 DEF AfterActive, Timed
<1>7. Slack(v) /\ Room(v) /\ Woken(v)
    BY <1>1, <1>3 DEF AfterActive, Slack, LastEnds, Room, Woken
<1> QED BY <1>3, <1>5, <1>6, <1>7 DEF Running

(* The queue thread leaves all that is left for its next turn, which is    *)
(* queued if anything is.                                                  *)
LEMMA QueueThreadKeeps ==
    ASSUME NEW s, NEW h, Ended(s, h)
    PROVE  Running(QueueThread(s), h) \/ Rest(QueueThread(s), h)
<1> DEFINE a == FromDrives(s)
           w == FromHost(a)
           x == Responses(w)
           t == QueueThread(s)
<1>1. Worked(a, s, h, NumDrives)
    BY FromDrivesWorked
<1> HIDE DEF a
<1>2. HostWorked(w, h)
    BY <1>1, FromHostWorked
<1> HIDE DEF w
<1>3. t = IF x.work /\ ~Dead(x.s) THEN Activate(x.s, QUEUE) ELSE x.s
    BY DEF QueueThread, a, w
<1>5. CASE Dead(w.s)
    <2>1. x = w
        BY <1>5 DEF Responses
    <2>2. Rest(w.s, h)
        BY <1>2, <1>5 DEF HostWorked, Ended, Base, Dead
    <2> HIDE DEF x, t
    <2> QED BY <1>3, <1>5, <2>1, <2>2 DEF t
<1>6. CASE ~Dead(w.s)
    <2>1. Ended(w.s, h)
        BY <1>2, <1>6 DEF HostWorked
    <2>2. Ended(x.s, h) /\ Room(x.s) /\ (~x.work => Woken(x.s))
        <3>1. CASE w.s.cp.rspq = <<>>
            <4>1. x = w
                BY <3>1 DEF Responses
            <4>2. Room(w.s)
                BY <3>1 DEF Room
            <4>3. ~w.work => Woken(w.s)
                BY <1>2, <3>1 DEF HostWorked, Woken
            <4> HIDE DEF x
            <4> QED BY <2>1, <4>1, <4>2, <4>3
        <3>2. CASE w.s.cp.rspq # <<>>
            <4>1. x = [s |-> First(w.s), work |-> TRUE]
                BY <1>6, <3>2 DEF Responses, First, Popped
            <4>2. Ended(First(w.s), h) /\ Room(First(w.s))
                BY <2>1, <3>2, FirstSent
            <4> HIDE DEF x
            <4>3. x.s = First(w.s) /\ x.work = TRUE
                BY <4>1
            <4> QED BY <4>2, <4>3
        <3> QED BY <3>1, <3>2
    <2> HIDE DEF x
    <2>3. ~Dead(x.s) /\ x.s \in States /\ Base(x.s, h, 0, 0) /\ Timed(x.s.unit, x.s.active) /\ Slack(x.s)
        BY <2>2 DEF Ended, Base, Dead
    <2>4. CASE ~x.work
        <3>1. t = x.s
            BY <1>3, <2>4
        <3> HIDE DEF t
        <3> QED BY <2>2, <2>3, <2>4, <3>1 DEF Running, t
    <2>5. CASE x.work
        <3>1. t = Requeue(x.s) /\ Running(Requeue(x.s), h)
            BY <1>3, <2>2, <2>3, <2>5, RequeueRuns
        <3> HIDE DEF t
        <3> QED BY <3>1 DEF t
    <2> QED BY <2>4, <2>5
<1> QED BY <1>5, <1>6

-----------------------------------------------------------------------------
(***************************************************************************)
(* Transfers.                                                              *)
(***************************************************************************)
(* The state a drive that has a command and is no longer queued begins in. *)
TimedBut(s, d) ==
    /\ d \notin s.active /\ s.unit[d].cpkt # Nil
    /\ \A e \in Drive : e # d => IF e \in s.active THEN s.unit[e].cpkt # Nil
                                 ELSE s.unit[e].cpkt = Nil \/ NothingToWrite(s.unit[e].cpkt)

Begun(s, h, d) == Base(s, h, 0, 0) /\ TimedBut(s, d) /\ Slack(s) /\ Room(s) /\ Woken(s)

(* The packet for a log. *)
LEMMA FreeForLog ==
    ASSUME NEW s, NEW h, NEW d \in Drive, Begun(s, h, d)
    PROVE  s.cp.free >= 1
<1> DEFINE q == s.cp.rspq
           l == Len(q)
           e == Ends(q)
           a == HeldInAll(s.unit)
           x == OnTheirWay(s.comm.rsp)
           g == InRing(s.comm.cmd)
           half == NPkts \div 2
           hc == h.credits
           cc == s.cp.credits
           f == s.cp.free
           b == s.cp.pbsy
<1>1. s \in States /\ h \in Hosts /\ Base(s, h, 0, 0)
    BY DEF Begun, Base
<1>2. l \in Nat /\ e \in Nat /\ a \in Nat /\ g \in Nat /\ x \in Nat /\ hc \in Nat /\ cc \in Nat /\ f \in Nat
    BY <1>1, StateTypes, HostTypes, HeldNat, RingsNat, EndsNat
<1>3. half \in Nat /\ half >= 2 /\ 2 * half <= NPkts /\ NPkts \in Nat
    BY Lengths
<1>4. 2 * e - l \in Nat /\ (2 * e - l = Bare(q))
    <2>1. q \in Seq(Rsp) /\ Paired(q)
        BY <1>1, StateTypes DEF Begun, Slack
    <2> QED BY <2>1, PairedBare DEF Bare
<1>5. f + b = NPkts - 1 /\ b = 0 + l + a /\ hc + cc + x + g + a + e + 0 = half
    BY <1>1 DEF Base, Packets, Credits
<1>6. a >= 1
    <2>1. Len(s.unit[d].pktq) \in Nat /\ s.unit[d].cpkt # Nil /\ s.unit \in Drives
        BY <1>1, UnitTypes, StateTypes DEF Begun, TimedBut
    <2> DEFINE n == Len(s.unit[d].pktq)
    <2>2. n \in Nat /\ Held(s.unit[d]) = n + 1
        <3>1. n \in Nat /\ Len(s.unit[d].pktq) = n
            BY <2>1
        <3> HIDE DEF n
        <3> QED BY <2>1, <3>1, HeldIs
    <2>3. n + 1 <= a
        <3> HIDE DEF n
        <3> QED BY <2>1, <2>2, HeldNat
    <2> HIDE DEF n, a
    <2> QED BY <1>2, <2>2, <2>3
<1>7. q = <<>> => l = 0
    OBVIOUS
<1>8. q # <<>> /\ Bare(q) = 0 => e + a <= half - 1
    BY DEF Begun, Room
<1> DEFINE br == Bare(q)
           some == q # <<>>
<1>9. (~some => l = 0) /\ (some /\ br = 0 => e + a <= half - 1) /\ 2 * e - l = br
    BY <1>4, <1>7, <1>8
<1> HIDE DEF l, e, a, g, x, half, hc, cc, f, b, br, some
<1>10. CASE ~some
    BY <1>2, <1>3, <1>5, <1>6, <1>9, <1>10 DEF f
<1>11. CASE some /\ br = 0
    BY <1>2, <1>3, <1>5, <1>6, <1>9, <1>11 DEF f
<1>12. CASE some /\ br # 0
    <2>1. 2 * e - l >= 1
        BY <1>2, <1>4, <1>9, <1>12
    <2> QED BY <1>2, <1>3, <1>5, <1>6, <2>1 DEF f
<1> QED BY <1>10, <1>11, <1>12 DEF f

(* The drive is done with its command, whose end packet is in the ring or  *)
(* waits.                                                                  *)
LEMMA EndRuns ==
    ASSUME NEW b, NEW h, NEW d \in Drive, NEW sts, Base(b, h, 0, 0), TimedBut(b, d), Woken(b), NEW e,
           e = Answer(Stopped(b, d), b.unit[d].cpkt, sts), Base(e, h, 0, 0), Kept(Stopped(b, d), e), Slack(e), Room(e),
           (e.active = b.active /\ e.cp.rspq = b.cp.rspq) \/ e.active = b.active \cup {QUEUE}
    PROVE  Running(rq_rw_end(b, d, sts), h)
<1> DEFINE v == Stopped(b, d)
           t == rq_rw_end(b, d, sts)
<1>1. /\ v.active = b.active /\ v.unit[d].cpkt = Nil /\ v.unit[d].pktq = b.unit[d].pktq /\ v.cp = b.cp
      /\ \A x \in Drive : x # d => v.unit[x] = b.unit[x]
    <2>1. b.unit[d].cpkt # Nil
        BY DEF TimedBut
    <2>2. AfterStopped(b, v, d)
        BY <2>1, CurrentStopped
    <2> HIDE DEF v
    <2> QED BY <2>2 DEF AfterStopped
<1>2. t = IF b.unit[d].pktq # <<>> THEN Activate(e, QUEUE) ELSE e
    BY DEF rq_rw_end, Stopped
<1> HIDE DEF v, t
<1>3. Timed(v.unit, v.active)
    BY <1>1 DEF TimedBut, Timed
<1>4. Timed(e.unit, e.active)
    BY <1>3, TimedKept DEF v
<1>5. CASE b.unit[d].pktq # <<>>
    BY <1>2, <1>4, <1>5, RequeueRuns DEF Ended, t
<1>6. CASE b.unit[d].pktq = <<>>
    <2>1. Woken(e)
        <3>1. CASE QUEUE \in e.active
            BY <3>1 DEF Woken
        <3>2. CASE e.active = b.active /\ e.cp.rspq = b.cp.rspq
            <4>1. e.unit = v.unit /\ e.cp.pip = b.cp.pip
                BY <1>1 DEF Kept, v
            <4> QED BY <1>1, <1>6, <3>2, <4>1 DEF Woken
        <3> QED BY <3>1, <3>2
    <2> QED BY <1>2, <1>4, <1>6, <2>1 DEF Running, t
<1> QED BY <1>5, <1>6

LEMMA RwEndRuns ==
    ASSUME NEW s, NEW h, NEW d \in Drive, NEW sts \in Sts, Begun(s, h, d)
    PROVE  Running(rq_rw_end(s, d, sts), h)
<1> DEFINE v == Stopped(s, d)
           p == s.unit[d].cpkt
           e == Answer(v, p, sts)
<1>1. Base(s, h, 0, 0) /\ s \in States /\ p # Nil /\ Slack(s) /\ Room(s)
    BY DEF Begun, Base, TimedBut
<1>2. p \in Command
    BY <1>1, UnitTypes
<1>3. Base(v, h, 0 + 1, 0 + 1) /\ AfterStopped(s, v, d)
    BY <1>1, CurrentStopped
<1> HIDE DEF v, p
<1>4. Paired(v.cp.rspq)
    BY <1>1, <1>3 DEF AfterStopped, Slack
<1>5. Answered(v, e, h, 0, 0)
    BY <1>2, <1>3, <1>4, RefNat, Answers
<1> HIDE DEF e
<1>6. Base(e, h, 0, 0) /\ Kept(v, e) /\ Slack(e)
    BY <1>5 DEF Answered
<1>7. (e.active = s.active /\ e.cp.rspq = s.cp.rspq) \/ (Bare(e.cp.rspq) >= 1 /\ e.active = s.active \cup {QUEUE})
    BY <1>3, <1>5 DEF Answered, AfterStopped
<1>8. Room(e)
    <2>1. CASE Bare(e.cp.rspq) >= 1
        BY <2>1 DEF Room
    <2>2. CASE e.active = s.active /\ e.cp.rspq = s.cp.rspq
        <3> DEFINE x == HeldInAll(s.unit)
                   y == HeldInAll(e.unit)
                   n == Ends(s.cp.rspq)
                   half == NPkts \div 2
                   l == Len(s.cp.rspq)
                   f == s.cp.pbsy
        <3>1. e.unit = v.unit /\ v.cp = s.cp /\ v \in States
            BY <1>3, <1>6 DEF Kept, AfterStopped, Base
        <3>2. x \in Nat /\ y \in Nat /\ n \in Nat /\ l \in Nat
            BY <1>1, <3>1, StateTypes, HeldNat, EndsNat
        <3>3. f = 0 + l + x /\ f = (0 + 1) + l + y
            BY <1>1, <1>3, <3>1 DEF Base, Packets
        <3>4. half \in Nat
            BY Lengths
        <3>5. n + x <= half - 1 => n + y <= half - 1
            <4> HIDE DEF x, y, n, half, l, f
            <4> QED BY <3>2, <3>3, <3>4
        <3> HIDE DEF x, y, n, half
        <3> QED BY <1>1, <2>2, <3>5 DEF Room, x, y, n, half
    <2> QED BY <1>7, <2>1, <2>2
<1> QED BY <1>6, <1>7, <1>8, EndRuns DEF Begun, v, p, e

(* A log and, behind it, the end packet of its command.                    *)
LEMMA LoggedRuns ==
    ASSUME NEW s, NEW h, NEW d \in Drive, NEW sts \in Sts, Begun(s, h, d), s.cp.ths = TRUE
    PROVE  LET b == rq_putpkt(rq_deqf(s), ErrorLog(s.unit[d].cpkt, sts), TRUE)
           IN  Running(rq_rw_end(b, d, sts), h) /\ ~Dead(b)
<1> DEFINE q == s.cp.rspq
           c == s.unit[d].cpkt
           a == rq_deqf(s)
           log == ErrorLog(c, sts)
           b == rq_putpkt(a, log, TRUE)
           v == Stopped(b, d)
           p == End(c, sts)
           e == Answer(v, c, sts)
           qb == Placed(q, log, TRUE)
           t == rq_rw_end(b, d, sts)
<1>1. Base(s, h, 0, 0) /\ s \in States /\ c # Nil /\ Slack(s) /\ Room(s) /\ TimedBut(s, d) /\ Woken(s)
    BY DEF Begun, Base, TimedBut
<1>2. c \in Command
    BY <1>1, UnitTypes
<1>3. q \in Seq(Rsp) /\ Paired(q) /\ LastEnds(s)
    BY <1>1, StateTypes DEF Slack
<1>4. Base(a, h, 0 + 1, 0) /\ AfterDeqf(s, a)
    BY <1>1, FreeForLog, DeqfBase
<1>5. log \in Rsp /\ One(log) = 0 /\ ~log.end /\ p \in Rsp /\ One(p) = 1 /\ p.end
    <2>1. c.ref \in Nat
        BY <1>2, RefNat
    <2> HIDE DEF c
    <2> QED BY <2>1 DEF ErrorLog, End, Rsp, One
<1>6. a.cp.rspq = q /\ a.unit = s.unit /\ a.active = s.active /\ a.comm = s.comm /\ a.cp.ridx = s.cp.ridx
      /\ a.cp.ths = s.cp.ths /\ a.cp.pip = s.cp.pip
    BY <1>4 DEF AfterDeqf
<1> HIDE DEF a, log, p, c
<1>7. Put(a, b, h, log, Placed(a.cp.rspq, log, TRUE), 0, 0)
    <2>1. Base(a, h, 0 + 1, 0 + One(log))
        BY <1>4, <1>5
    <2>2. log \in Rsp
        BY <1>5
    <2> QED BY <2>1, <2>2, PutPkt
<1> HIDE DEF b
<1>8. Base(b, h, 0, 0) /\ Kept(a, b) /\ (Went(a, b, log) \/ Waited(a, b, qb))
    BY <1>6, <1>7 DEF Put
<1>9. b.unit = s.unit /\ b.cp.ths = TRUE /\ b.cp.pip = s.cp.pip /\ (\A x \in Drive : x \in b.active <=> x \in s.active)
    BY <1>6, <1>8 DEF Kept
<1>10. TimedBut(b, d)
    BY <1>1, <1>9 DEF TimedBut
<1>11. Woken(b)
    <2>1. CASE QUEUE \in b.active
        BY <2>1 DEF Woken
    <2>2. CASE b.active = s.active /\ b.cp.rspq = q
        BY <1>1, <1>9, <2>2 DEF Woken
    <2> HIDE DEF q
    <2> QED BY <1>6, <1>8, <2>1, <2>2 DEF Went, Waited
<1>12. b.unit[d].cpkt # Nil /\ b.unit[d].cpkt = c
    BY <1>1, <1>9 DEF c
<1>13. Base(v, h, 0 + 1, 0 + 1) /\ AfterStopped(b, v, d)
    BY <1>8, <1>12, CurrentStopped
<1> HIDE DEF v
<1>14. v.cp = b.cp /\ v.active = b.active /\ v.comm = b.comm
    BY <1>13 DEF AfterStopped
<1>15. Put(v, e, h, p, Placed(v.cp.rspq, p, TRUE), 0, 0)
    <2>1. e = rq_putpkt(v, p, TRUE) /\ Base(v, h, 0 + 1, 0 + One(p))
        BY <1>5, <1>13 DEF Answer, p
    <2>2. p \in Rsp
        BY <1>5
    <2> HIDE DEF e
    <2> QED BY <2>1, <2>2, PutPkt
<1> HIDE DEF e
<1>16. Base(e, h, 0, 0) /\ Kept(v, e) /\ (Went(v, e, p) \/ Waited(v, e, Placed(v.cp.rspq, p, TRUE)))
    BY <1>15 DEF Put
<1>17. ASSUME Slack(e), Room(e),
              (e.active = b.active /\ e.cp.rspq = b.cp.rspq) \/ e.active = b.active \cup {QUEUE}
       PROVE  Running(t, h)
    <2>1. e = Answer(Stopped(b, d), b.unit[d].cpkt, sts) /\ Kept(Stopped(b, d), e)
        BY <1>12, <1>16 DEF e, v
    <2> QED BY <1>8, <1>10, <1>11, <1>16, <1>17, <2>1, EndRuns
<1>18. ASSUME Went(v, e, p) PROVE Running(t, h)
    <2>1. /\ e.cp.rspq = b.cp.rspq /\ e.active = b.active /\ OnTheirWay(e.comm.rsp) >= 1
          /\ e.comm.rsp[Prior(e.cp.ridx, RspLen)].pkt.end
        BY <1>5, <1>14, <1>18 DEF Went
    <2>2. Room(e)
        BY <1>16, <2>1, CreditRoom
    <2>3. b.cp.rspq = q
        <3>1. ~Waited(a, b, qb)
            BY <1>6, <1>14, <1>18 DEF Went, Waited
        <3> HIDE DEF q
        <3> QED BY <1>6, <1>8, <3>1 DEF Went
    <2>4. Slack(e)
        BY <1>3, <2>1, <2>3 DEF Slack, LastEnds
    <2> QED BY <1>17, <2>1, <2>2, <2>4
<1>19. ASSUME Waited(v, e, Placed(v.cp.rspq, p, TRUE)) PROVE Running(t, h)
    <2>1. /\ e.cp.rspq = Append(b.cp.rspq, p) /\ e.active = b.active \cup {QUEUE} /\ ~b.comm.rsp[b.cp.ridx].own
          /\ e.comm.rsp = b.comm.rsp /\ e.cp.ridx = b.cp.ridx /\ e.cp.ths = TRUE
        BY <1>9, <1>14, <1>16, <1>19 DEF Waited, Placed, Kept
    <2>2. Placed(b.cp.rspq, p, TRUE) = Append(b.cp.rspq, p)
        BY DEF Placed
    <2>3. CASE Went(a, b, log)
        <3>1. b.cp.rspq = q
            BY <1>6, <2>3 DEF Went
        <3>2. Paired(e.cp.rspq)
            BY <1>3, <1>5, <2>1, <3>1, PairedAppend
        <3>3. Bare(e.cp.rspq) = Bare(q) + 1 /\ Bare(q) \in Nat
            BY <1>3, <1>5, <2>1, <2>2, <3>1, BarePlaced, PairedBare
        <3>4. Bare(e.cp.rspq) >= 1
            <4> DEFINE x == Bare(q)
            <4>1. x \in Nat /\ Bare(e.cp.rspq) = x + 1
                BY <3>3
            <4> HIDE DEF x
            <4> QED BY <4>1
        <3>5. Slack(e) /\ Room(e)
            BY <3>2, <3>4 DEF Slack, LastEnds, Room
        <3> QED BY <1>17, <2>1, <3>5
    <2>4. CASE Waited(a, b, qb)
        <3>1. b.cp.rspq = qb /\ b.comm.rsp = s.comm.rsp /\ b.cp.ridx = s.cp.ridx
            BY <1>6, <2>4 DEF Waited
        <3>2. qb = Append(q, log)
            BY DEF Placed
        <3>3. qb \in Seq(Rsp) /\ Bare(qb) = Bare(q) - 1 /\ Bare(q) \in Int
            <4>1. Append(q, log) \in Seq(Rsp)
                BY <1>3, <1>5, AppendProperties
            <4>2. Bare(qb) = Bare(q) + (-1) /\ Bare(q) \in Int
                BY <1>3, <1>5, BarePlaced
            <4> DEFINE x == Bare(q)
            <4>3. Bare(qb) = x + (-1) /\ x \in Int
                BY <4>2
            <4>4. Bare(qb) = x - 1
                <5> HIDE DEF x, qb
                <5> QED BY <4>3
            <4> HIDE DEF x
            <4> QED BY <3>2, <4>1, <4>3, <4>4 DEF x
        <3>4. AlmostPaired(qb)
            BY <1>3, <1>5, <3>2, PairedAppend
        <3> DEFINE r == e.cp.rspq
        <3>5. r = Append(qb, p) /\ r = Placed(qb, p, TRUE)
            BY <2>1, <2>2, <3>1
        <3> HIDE DEF q, qb, r
        <3>6. Paired(r)
            BY <1>5, <3>3, <3>4, <3>5, PairedAppend
        <3>7. Bare(r) = Bare(q) /\ Bare(r) \in Int
            <4>1. Bare(r) = Bare(qb) + 1
                BY <1>5, <3>3, <3>5, BarePlaced
            <4> DEFINE x == Bare(q)
                       y == Bare(qb)
            <4>2. Bare(r) = y + 1 /\ y = x - 1 /\ x \in Int
                BY <3>3, <4>1
            <4> HIDE DEF x, y
            <4> QED BY <4>2 DEF x
        <3>8. LastEnds(e)
            <4>1. LastEnds(s) => LastEnds(e)
                BY <2>1, <3>1, <3>7 DEF LastEnds, q, r
            <4> QED BY <1>3, <4>1
        <3>9. Bare(r) >= 1 \/ OnTheirWay(e.comm.rsp) >= 1
            <4>1. ~e.comm.rsp[e.cp.ridx].own /\ e.cp.ths
                BY <2>1
            <4> QED BY <1>16, <3>8, <4>1, FullRoom DEF r
        <3>10. Room(e)
            <4>1. CASE Bare(r) >= 1
                BY <4>1 DEF Room, r
            <4>2. CASE OnTheirWay(e.comm.rsp) >= 1
                BY <1>16, <4>2, CreditRoom
            <4> QED BY <3>9, <4>1, <4>2
        <3> QED BY <1>17, <2>1, <3>6, <3>8, <3>10 DEF Slack, r
    <2> QED BY <1>8, <2>3, <2>4
<1>20. Running(t, h)
    BY <1>16, <1>18, <1>19
<1>21. ~Dead(b)
    BY <1>8 DEF Base, Dead
<1> QED BY <1>20, <1>21 DEF a, b, c, log

LEMMA FailedRuns ==
    ASSUME NEW s, NEW h, NEW d \in Drive, NEW sts \in Sts, Begun(s, h, d)
    PROVE  Running(Failed(s, d, sts), h)
<1>1. Base(s, h, 0, 0) /\ s.cp.ths \in BOOLEAN /\ ~Dead(s)
    BY DEF Begun, Base, States, Msc, Dead
<1>2. CASE ~s.cp.ths
    <2>1. Failed(s, d, sts) = rq_rw_end(s, d, sts)
        BY <1>1, <1>2 DEF Failed
    <2> QED BY <2>1, RwEndRuns
<1>3. CASE s.cp.ths = TRUE
    <2> DEFINE a == rq_deqf(s)
               b == rq_putpkt(a, ErrorLog(s.unit[d].cpkt, sts), TRUE)
    <2>1. Running(rq_rw_end(b, d, sts), h) /\ ~Dead(b)
        BY <1>3, LoggedRuns
    <2>2. ~Dead(a)
        BY <1>1, FreeForLog, DeqfBase
    <2>3. Failed(s, d, sts) = rq_rw_end(b, d, sts)
        <3> HIDE DEF a
        <3>1. ~Dead(rq_deqf(s))
            BY <2>2 DEF a
        <3> HIDE DEF b
        <3> QED BY <1>3, <2>1, <3>1 DEF Failed, a, b
    <2> HIDE DEF b
    <2> QED BY <2>1, <2>3
<1> QED BY <1>1, <1>2, <1>3

(* The drive's command or its completion flag changes, its queue does not. *)
LEMMA BegunTouched ==
    ASSUME NEW s, NEW h, NEW d \in Drive, Begun(s, h, d), NEW u, u \in Unit, u.cpkt # Nil, u.cpkt.unit = d,
           u.pktq = s.unit[d].pktq
    PROVE  Begun(WithUnit(s, d, u), h, d) /\ AfterUnit(s, WithUnit(s, d, u), d, u)
<1> DEFINE t == WithUnit(s, d, u)
           old == s.unit[d]
<1>1. Base(s, h, 0, 0) /\ s \in States /\ old.cpkt # Nil
    BY DEF Begun, Base, TimedBut
<1>2. Owns(u, d)
    BY <1>1 DEF Base, OwnCommands, Owns
<1>3. 0 + Held(u) = 0 + Held(old)
    BY <1>1 DEF Held
<1>4. Base(t, h, 0, 0) /\ AfterUnit(s, t, d, u)
    BY <1>1, <1>2, <1>3, UnitSet
<1> HIDE DEF t
<1>5. /\ t.cp = s.cp /\ t.active = s.active /\ t.comm = s.comm /\ t.unit[d] = u
      /\ \A e \in Drive : e # d => t.unit[e] = s.unit[e]
    BY <1>4 DEF AfterUnit
<1>6. TimedBut(t, d)
    BY <1>5 DEF Begun, TimedBut
<1>7. Slack(t) /\ Woken(t)
    BY <1>1, <1>5 DEF Begun, Slack, LastEnds, Woken
<1>8. Room(t)
    <2>1. HeldInAll(t.unit) = HeldInAll(s.unit)
        <3> DEFINE x == HeldInAll(s.unit)
                   y == HeldInAll(t.unit)
                   l == Len(s.cp.rspq)
                   f == s.cp.pbsy
        <3>1. f = 0 + l + x /\ f = 0 + l + y
            BY <1>1, <1>4, <1>5 DEF Base, Packets
        <3>2. x \in Nat /\ y \in Nat /\ l \in Nat
            BY <1>1, <1>4, StateTypes, HeldNat DEF Base
        <3> HIDE DEF x, y, l, f
        <3>3. x = y
            BY <3>1, <3>2
        <3> QED BY <3>3 DEF x, y
    <2> QED BY <1>5, <2>1 DEF Begun, Room
<1> QED BY <1>4, <1>6, <1>7, <1>8 DEF Begun, t

(* The drive is queued again. *)
LEMMA BegunRuns ==
    ASSUME NEW s, NEW h, NEW d \in Drive, Begun(s, h, d)
    PROVE  Running(WithActive(s, s.active \cup {d}), h)
<1> DEFINE evs == s.active \cup {d}
           t == WithActive(s, evs)
<1>1. Base(s, h, 0, 0) /\ s.active \subseteq 0 .. NumDrives + 1
    BY StateTypes DEF Begun, Base
<1>2. evs \subseteq 0 .. NumDrives + 1
    BY <1>1, Lengths DEF Drive
<1>3. Base(t, h, 0, 0) /\ AfterActive(s, t, evs)
    <2> HIDE DEF evs
    <2> QED BY <1>1, <1>2, BaseActive
<1> HIDE DEF t
<1>4. Timed(t.unit, t.active)
    BY <1>3 DEF AfterActive, Begun, TimedBut, Timed
<1>5. Slack(t) /\ Room(t) /\ Woken(t)
    BY <1>3 DEF AfterActive, Begun, Slack, LastEnds, Room, Woken
<1> QED BY <1>3, <1>4, <1>5 DEF Running, t

(* A drive that is done with a write it cannot do is not queued.           *)
LEMMA BegunStays ==
    ASSUME NEW s, NEW h, NEW d \in Drive, Begun(s, h, d), NothingToWrite(s.unit[d].cpkt)
    PROVE  Running(s, h)
BY DEF Begun, TimedBut, Timed, Running

(* The drive's event expires.                                              *)
LEMMA ExpiredBegun ==
    ASSUME NEW s, NEW h, NEW d \in Drive, Running(s, h), d \in s.active
    PROVE  /\ Begun(WithActive(s, s.active \ {d}), h, d) /\ AfterActive(s, WithActive(s, s.active \ {d}), s.active \ {d})
           /\ s.unit[d].cpkt # Nil
<1> DEFINE evs == s.active \ {d}
           t == WithActive(s, evs)
<1>1. Base(s, h, 0, 0) /\ s.active \subseteq 0 .. NumDrives + 1 /\ Timed(s.unit, s.active)
    BY StateTypes DEF Running, Base
<1>2. evs \subseteq 0 .. NumDrives + 1
    BY <1>1
<1>3. Base(t, h, 0, 0) /\ AfterActive(s, t, evs)
    <2> HIDE DEF evs
    <2> QED BY <1>1, <1>2, BaseActive
<1> HIDE DEF t
<1>4. TimedBut(t, d) /\ s.unit[d].cpkt # Nil
    BY <1>1, <1>3 DEF AfterActive, TimedBut, Timed
<1>5. QUEUE # d
    BY Lengths DEF QUEUE, Drive
<1>6. Slack(t) /\ Room(t) /\ Woken(t)
    BY <1>3, <1>5 DEF AfterActive, Running, Slack, LastEnds, Room, Woken
<1> QED BY <1>3, <1>4, <1>6 DEF Begun, t

-----------------------------------------------------------------------------
(***************************************************************************)
(* The steps.                                                              *)
(***************************************************************************)
LEMMA Became ==
    ASSUME NEW x, Becomes(x), x \in States
    PROVE  State' = x
<1>1. Shaped(x)
    BY ShapedStates
<1>2. State' = [cp |-> x.cp, unit |-> x.unit, active |-> x.active, comm |-> x.comm]
    BY DEF Becomes, State
<1> QED BY <1>1, <1>2 DEF Shaped

LEMMA StaysRunning ==
    ASSUME NEW x, Becomes(x), host' = host, Running(x, host)
    PROVE  IInv'
<1>1. x \in States
    BY DEF Running, Base
<1>2. State' = x
    BY <1>1, Became
<1> QED BY <1>2 DEF IInv

LEMMA StaysAtRest ==
    ASSUME NEW x, Becomes(x), host' = host, Rest(x, host)
    PROVE  IInv'
<1>1. x \in States
    BY DEF Rest
<1>2. State' = x
    BY <1>1, Became
<1> QED BY <1>2 DEF IInv

LEMMA StateFields ==
    State.cp = cp /\ State.unit = unit /\ State.active = active /\ State.comm = comm
BY DEF State

(* At rest no drive is queued. *)
LEMMA DriveRuns ==
    ASSUME IInv, NEW d \in Drive, d \in active
    PROVE  /\ Begun(Expired(d), host, d) /\ Expired(d).unit = unit
           /\ unit[d] \in Unit /\ unit[d].cpkt \in Command /\ unit[d].cpkt.unit = d
<1> DEFINE s == State
<1>1. s.active = active /\ s.unit = unit
    BY StateFields
<1>2. d # QUEUE
    BY Lengths DEF QUEUE, Drive
<1>3. Running(s, host)
    BY <1>1, <1>2 DEF IInv, Rest
<1> HIDE DEF s
<1>4. Expired(d) = WithActive(s, s.active \ {d})
    BY DEF Expired, WithActive, s
<1>5. /\ Begun(Expired(d), host, d) /\ AfterActive(s, Expired(d), s.active \ {d}) /\ s.unit[d].cpkt # Nil
    BY <1>1, <1>3, <1>4, ExpiredBegun
<1>6. s \in States /\ Owns(s.unit[d], d)
    BY <1>3 DEF Running, Base, OwnCommands
<1>7. s.unit[d] \in Unit /\ s.unit[d].cpkt \in Command
    BY <1>5, <1>6, UnitTypes
<1> QED BY <1>1, <1>5, <1>6, <1>7 DEF AfterActive, Owns

(* The transfer is started: its completion is noted, the drive is queued.  *)
LEMMA CompleteRuns ==
    ASSUME NEW s, NEW h, NEW d \in Drive, Begun(s, h, d), NEW err \in BOOLEAN
    PROVE  Running(rq_io_complete(s, d, err), h)
<1> DEFINE old == s.unit[d]
           u == [old EXCEPT !.io_complete = TRUE, !.io_status = err, !.io_ref = old.cpkt.ref]
           t == WithUnit(s, d, u)
<1>1. s \in States /\ old.cpkt # Nil /\ Owns(old, d)
    BY DEF Begun, Base, TimedBut, OwnCommands
<1>2. old \in Unit /\ old.cpkt \in Command /\ old.cpkt.unit = d
    BY <1>1, UnitTypes DEF Owns
<1>3. u \in Unit /\ u.cpkt = old.cpkt /\ u.pktq = old.pktq
    <2>1. old.cpkt.ref \in Nat
        BY <1>2, RefNat
    <2> QED BY <1>2, <2>1 DEF Unit
<1>4. Begun(t, h, d) /\ AfterUnit(s, t, d, u)
    <2> HIDE DEF u, t
    <2> QED BY <1>1, <1>2, <1>3, BegunTouched DEF t
<1>5. rq_io_complete(s, d, err) = WithActive(t, t.active \cup {d})
    BY DEF rq_io_complete, Activate, WithActive, WithUnit
<1> HIDE DEF t
<1> QED BY <1>4, <1>5, BegunRuns

LEMMA TopKeeps ==
    ASSUME IInv, NEW d \in Drive, Top(d)
    PROVE  IInv'
<1> DEFINE s == Expired(d)
           pkt == unit[d].cpkt
<1>1. d \in active /\ host' = host
    BY DEF Top
<1>2. Begun(s, host, d) /\ s.unit = unit
    BY <1>1, DriveRuns
<1> HIDE DEF s
<1>3. CASE Becomes(rq_rw_end(s, d, "SUC"))
    <2>1. Running(rq_rw_end(s, d, "SUC"), host)
        BY <1>2, RwEndRuns DEF Sts
    <2> QED BY <1>1, <1>3, <2>1, StaysRunning
<1>4. CASE NothingToWrite(pkt) /\ Becomes(s)
    <2>1. Running(s, host)
        BY <1>2, <1>4, BegunStays
    <2> QED BY <1>1, <1>4, <2>1, StaysRunning
<1>5. CASE \E err \in BOOLEAN : Becomes(rq_io_complete(s, d, err))
    <2>1. PICK err \in BOOLEAN : Becomes(rq_io_complete(s, d, err))
        BY <1>5
    <2>2. Running(rq_io_complete(s, d, err), host)
        BY <1>2, CompleteRuns
    <2> QED BY <1>1, <2>1, <2>2, StaysRunning
<1> QED BY <1>3, <1>4, <1>5 DEF Top, s

(* The completion is taken. *)
Taking(s, d) == [s EXCEPT !.unit[d].io_complete = FALSE]

LEMMA TakingBegun ==
    ASSUME NEW s, NEW h, NEW d \in Drive, Begun(s, h, d)
    PROVE  Begun(Taking(s, d), h, d)
<1> DEFINE old == s.unit[d]
           u == [old EXCEPT !.io_complete = FALSE]
           t == WithUnit(s, d, u)
<1>1. s \in States /\ old.cpkt # Nil /\ Owns(old, d)
    BY DEF Begun, Base, TimedBut, OwnCommands
<1>2. old \in Unit /\ old.cpkt.unit = d
    BY <1>1, UnitTypes DEF Owns
<1>3. u \in Unit /\ u.cpkt = old.cpkt /\ u.pktq = old.pktq
    BY <1>2 DEF Unit
<1>4. Begun(t, h, d)
    <2> HIDE DEF u, t
    <2> QED BY <1>1, <1>2, <1>3, BegunTouched DEF t
<1>5. Taking(s, d) = t
    BY DEF Taking, WithUnit
<1> QED BY <1>4, <1>5

LEMMA AdvanceRuns ==
    ASSUME NEW s, NEW h, NEW d \in Drive, Begun(s, h, d)
    PROVE  Running(Advance(s, d), h)
<1> DEFINE old == s.unit[d]
           c == [old.cpkt EXCEPT !.size = old.cpkt.size - 1]
           u == [old EXCEPT !.cpkt = c]
           t == WithUnit(s, d, u)
<1>1. s \in States /\ old.cpkt # Nil /\ Owns(old, d)
    BY DEF Begun, Base, TimedBut, OwnCommands
<1>2. old \in Unit /\ old.cpkt \in Command /\ old.cpkt.unit = d
    BY <1>1, UnitTypes DEF Owns
<1>3. CASE old.cpkt.size > 1
    <2>1. old.cpkt.size - 1 \in Nat
        <3>1. old.cpkt.size \in Nat
            BY <1>2 DEF Command
        <3> QED BY <1>3, <3>1
    <2>2. c \in Command /\ c.unit = d
        BY <1>2, <2>1 DEF Command
    <2>3. u \in Unit /\ u.cpkt = c /\ u.pktq = old.pktq
        <3> HIDE DEF c
        <3> QED BY <1>2, <2>2 DEF Unit
    <2>4. c # Nil
        BY <2>2, RefNat
    <2>5. Begun(t, h, d)
        <3> HIDE DEF u, t
        <3> QED BY <2>2, <2>3, <2>4, BegunTouched DEF t
    <2>6. Advance(s, d) = WithActive(t, t.active \cup {d})
        BY <1>3 DEF Advance, Activate, WithActive, WithUnit
    <2> HIDE DEF t
    <2> QED BY <2>5, <2>6, BegunRuns
<1>4. CASE ~(old.cpkt.size > 1)
    <2>1. Advance(s, d) = rq_rw_end(s, d, "SUC")
        BY <1>4 DEF Advance
    <2> QED BY <2>1, RwEndRuns DEF Sts
<1> QED BY <1>3, <1>4

LEMMA BottomKeeps ==
    ASSUME IInv, NEW d \in Drive, Bottom(d)
    PROVE  IInv'
<1> DEFINE s == Taking(Expired(d), d)
<1>1. d \in active /\ host' = host
    BY DEF Bottom
<1>2. Begun(Expired(d), host, d)
    BY <1>1, DriveRuns
<1>3. Begun(s, host, d)
    BY <1>2, TakingBegun
<1>4. \/ Becomes(rq_rw_end(Expired(d), d, "SUC"))
      \/ Becomes(Failed(s, d, "HST"))
      \/ Becomes(Failed(s, d, "DRV"))
      \/ Becomes(Advance(s, d))
      \/ Becomes(rq_rw_end(s, d, "CMP"))
    BY DEF Bottom, Taking
<1> HIDE DEF s
<1>5. /\ Running(rq_rw_end(Expired(d), d, "SUC"), host)
      /\ Running(Failed(s, d, "HST"), host) /\ Running(Failed(s, d, "DRV"), host)
      /\ Running(rq_rw_end(s, d, "CMP"), host)
    BY <1>2, <1>3, RwEndRuns, FailedRuns DEF Sts
<1>6. Running(Advance(s, d), host)
    BY <1>3, AdvanceRuns
<1> QED BY <1>1, <1>4, <1>5, <1>6, StaysRunning

LEMMA QueueKeeps ==
    ASSUME IInv, rq_quesvc, cp.csta \in {"UP", "DEAD"}
    PROVE  IInv'
<1> DEFINE s == State
           t == WithActive(s, s.active \ {QUEUE})
<1>1. s.cp = cp /\ s.active = active
    BY StateFields
<1>2. Running(s, host)
    <2>1. QUEUE \in active
        BY DEF rq_quesvc
    <2> QED BY <1>1, <2>1 DEF IInv, Rest
<1>3. Becomes(QueueThread(t)) /\ host' = host
    BY DEF rq_quesvc, WithActive
<1> HIDE DEF s
<1>4. Base(s, host, 0, 0) /\ s.active \subseteq 0 .. NumDrives + 1 /\ Timed(s.unit, s.active) /\ Slack(s)
    BY <1>2, StateTypes DEF Running, Base
<1>5. s.active \ {QUEUE} \subseteq 0 .. NumDrives + 1 /\ QUEUE \notin Drive
    BY <1>4, Lengths DEF QUEUE, Drive
<1>6. Base(t, host, 0, 0) /\ AfterActive(s, t, s.active \ {QUEUE})
    BY <1>4, <1>5, BaseActive
<1> HIDE DEF t
<1>7. Timed(t.unit, t.active) /\ Slack(t)
    BY <1>4, <1>5, <1>6 DEF AfterActive, Timed, Slack, LastEnds
<1>8. Running(QueueThread(t), host) \/ Rest(QueueThread(t), host)
    BY <1>6, <1>7, QueueThreadKeeps DEF Ended
<1> QED BY <1>3, <1>8, StaysRunning, StaysAtRest

LEMMA TimerKeeps ==
    ASSUME IInv, rq_tmrsvc
    PROVE  IInv'
<1> DEFINE s == State
           n == IF cp.hat > 0 THEN cp.hat - 1 ELSE 0
           t == WithHat(s, n)
<1>1. s.cp = cp /\ s.active = active
    BY StateFields
<1>2. Running(s, host)
    <2>1. TIMER \in active /\ TIMER # QUEUE
        BY Lengths DEF rq_tmrsvc, TIMER, QUEUE
    <2> QED BY <1>1, <2>1 DEF IInv, Rest
<1>3. Becomes(IF cp.hat = 1 THEN rq_fatal(t, "HAT") ELSE t) /\ host' = host
    BY DEF rq_tmrsvc, WithHat, State
<1>4. n \in Nat
    <2>1. cp.hat \in Nat
        BY <1>1, <1>2, StateTypes DEF Running, Base, Msc
    <2> QED BY <2>1
<1> HIDE DEF s, n
<1>5. /\ Base(t, host, 0, 0)
      /\ t.cp.rspq = s.cp.rspq /\ t.cp.ridx = s.cp.ridx /\ t.cp.ths = s.cp.ths /\ t.cp.pip = s.cp.pip
      /\ t.unit = s.unit /\ t.active = s.active /\ t.comm = s.comm
    <2>1. t = WithHat(s, n)
        OBVIOUS
    <2> HIDE DEF t
    <2> QED BY <1>2, <1>4, <2>1, HatBase DEF Running
<1> HIDE DEF t
<1>6. CASE cp.hat = 1
    <2>1. t \in States /\ t.cp.perr # "NSR" /\ host \in Hosts
        BY <1>5 DEF Base
    <2>2. Rest(rq_fatal(t, "HAT"), host)
        BY <2>1, FatalRests
    <2> QED BY <1>3, <1>6, <2>2, StaysAtRest
<1>7. CASE cp.hat # 1
    <2>1. Running(t, host)
        BY <1>2, <1>5 DEF Running, Slack, LastEnds, Room, Woken
    <2> QED BY <1>3, <1>7, <2>1, StaysRunning
<1> QED BY <1>6, <1>7

(***************************************************************************)
(* Initialization.                                                         *)
(***************************************************************************)
(* A controller at rest but for what the step of the dialogue says.        *)
Still(s, h) ==
    /\ s \in States /\ h \in Hosts
    /\ s.cp.perr # "NSR"
    /\ s.cp.free = NPkts - 1 /\ s.cp.pbsy = 0 /\ s.cp.rspq = <<>> /\ ~s.cp.ths /\ ~s.cp.pip
    /\ \A d \in Drive : s.unit[d].cpkt = Nil /\ s.unit[d].pktq = <<>>
    /\ s.active \subseteq {QUEUE}
    /\ "GO" \notin s.cp.saw
    /\ s.cp.credits = (NPkts \div 2) - 1
    /\ s.cp.cidx = 0 /\ s.cp.ridx = 0 /\ h.cidx = 0 /\ h.ridx = 0

LEMMA StillRests ==
    ASSUME NEW s, NEW h, Still(s, h), s.cp.csta \notin {"UP", "DEAD"},
           s.cp.csta = "S4" => s.comm.cmd = Empty(CmdLen, FALSE)
    PROVE  Rest(s, h)
BY DEF Still, Rest

SameStill(m, n) ==
    /\ n.perr = m.perr /\ n.free = m.free /\ n.pbsy = m.pbsy /\ n.rspq = m.rspq /\ n.ths = m.ths /\ n.pip = m.pip
    /\ n.saw = m.saw /\ n.credits = m.credits /\ n.cidx = m.cidx /\ n.ridx = m.ridx

LEMMA StillCp ==
    ASSUME NEW s, NEW h, Still(s, h), NEW m \in Msc, SameStill(s.cp, m)
    PROVE  Still(WithCp(s, m), h) /\ AfterCp(s, WithCp(s, m), m)
<1> DEFINE t == WithCp(s, m)
<1>1. s \in States /\ Shaped(s)
    BY ShapedStates DEF Still
<1>2. Shaped(t) /\ t.cp = m /\ t.unit = s.unit /\ t.active = s.active /\ t.comm = s.comm
    <2>1. t = [s EXCEPT !.cp = m]
        BY DEF WithCp
    <2> HIDE DEF t
    <2> QED BY <1>1, <2>1, ShapedCp
<1> HIDE DEF t
<1>3. t \in States
    BY <1>1, <1>2, ShapedStates
<1> QED BY <1>2, <1>3 DEF Still, SameStill, AfterCp, t

Phases == {"S1", "S1_WR", "S2", "S3", "S3_PPA", "S3_PPB", "S4"}

(* What a step of the dialogue does to a controller at rest.               *)
Moved(s, t, h, csta) == Still(t, h) /\ t.cp.csta = csta /\ t.comm = s.comm

LEMMA ToStill ==
    ASSUME NEW s, NEW h, Still(s, h), NEW csta \in Phases
    PROVE  Moved(s, To(s, csta), h, csta)
<1> DEFINE m == [s.cp EXCEPT !.csta = csta]
           t == WithCp(s, m)
<1>1. s.cp \in Msc
    BY StateTypes DEF Still
<1>2. m \in Msc /\ SameStill(s.cp, m) /\ m.csta = csta
    BY <1>1 DEF Msc, Phases, SameStill
<1>3. t = To(s, csta)
    BY DEF WithCp, To
<1> HIDE DEF m
<1>4. Still(t, h) /\ AfterCp(s, t, m)
    BY <1>2, StillCp
<1> HIDE DEF t
<1> QED BY <1>2, <1>3, <1>4 DEF AfterCp, Moved

LEMMA InitIntStill ==
    ASSUME NEW s, NEW h, Still(s, h)
    PROVE  Moved(s, rq_init_int(s), h, s.cp.csta)
<1> DEFINE b == s.cp.irq \/ {"IE", "VEC"} \subseteq s.cp.s1dat
           m == [s.cp EXCEPT !.irq = b]
           t == WithCp(s, m)
<1>1. s.cp \in Msc
    BY StateTypes DEF Still
<1>2. b \in BOOLEAN
    <2>1. s.cp.irq \in BOOLEAN
        BY <1>1 DEF Msc
    <2> QED BY <2>1
<1>3. t = rq_init_int(s)
    BY DEF WithCp, rq_init_int
<1> HIDE DEF b
<1>4. m \in Msc /\ SameStill(s.cp, m) /\ m.csta = s.cp.csta
    BY <1>1, <1>2 DEF Msc, SameStill
<1> HIDE DEF m
<1>5. Still(t, h) /\ AfterCp(s, t, m)
    BY <1>4, StillCp
<1> HIDE DEF t
<1> QED BY <1>3, <1>4, <1>5 DEF AfterCp, Moved

WithS1dat(s, w) == [s EXCEPT !.cp.s1dat = w]
WithBad(s, b) == [s EXCEPT !.cp.bad = b]

LEMMA DataStill ==
    ASSUME NEW s, NEW h, Still(s, h), NEW w \in SUBSET Words, NEW b \in BOOLEAN
    PROVE  Moved(s, WithS1dat(s, w), h, s.cp.csta) /\ Moved(s, WithBad(s, b), h, s.cp.csta)
<1> DEFINE m == [s.cp EXCEPT !.s1dat = w]
           n == [s.cp EXCEPT !.bad = b]
           t == WithCp(s, m)
           u == WithCp(s, n)
<1>1. s.cp \in Msc
    BY StateTypes DEF Still
<1>2. /\ m \in Msc /\ SameStill(s.cp, m) /\ m.csta = s.cp.csta
      /\ n \in Msc /\ SameStill(s.cp, n) /\ n.csta = s.cp.csta
    BY <1>1 DEF Msc, SameStill
<1>3. t = WithS1dat(s, w) /\ u = WithBad(s, b)
    BY DEF WithCp, WithS1dat, WithBad
<1> HIDE DEF m, n
<1>4. Still(t, h) /\ AfterCp(s, t, m) /\ Still(u, h) /\ AfterCp(s, u, n)
    BY <1>2, StillCp
<1> HIDE DEF t, u
<1> QED BY <1>2, <1>3, <1>4 DEF AfterCp, Moved

(* The rings are cleared. *)
WithRings(s) == [s EXCEPT !.comm = NoRings]

LEMMA ClearStill ==
    ASSUME NEW s, NEW h, Still(s, h)
    PROVE  LET t == WithRings(s)
           IN  Still(t, h) /\ t.cp = s.cp /\ t.comm = NoRings
<1> DEFINE t == WithRings(s)
<1>1. s \in States /\ Shaped(s) /\ s.cp \in Msc /\ s.unit \in Drives /\ s.active \subseteq 0 .. NumDrives + 1
    BY StateTypes DEF Still
<1>2. Shaped(t) /\ t.cp = s.cp /\ t.unit = s.unit /\ t.active = s.active /\ t.comm = NoRings
    BY <1>1 DEF Shaped, WithRings
<1>3. NoRings \in [cmd : CmdRing, rsp : RspRing]
    BY InRingEmpty, OnTheirWayNone DEF NoRings
<1> HIDE DEF t
<1>4. t \in States
    BY <1>1, <1>2, <1>3, ShapedStates
<1> QED BY <1>2, <1>4 DEF Still, t

LEMMA Step4Rests ==
    ASSUME NEW s, NEW h, Still(s, h)
    PROVE  Rest(rq_step4(s), h)
<1> DEFINE a == To(s, "S4")
           b == WithRings(a)
           c == rq_init_int(b)
<1>1. CASE s.cp.bad
    <2>1. rq_step4(s) = rq_fatal(s, "QWE")
        BY <1>1 DEF rq_step4
    <2> QED BY <2>1, FatalRests DEF Still
<1>2. CASE ~s.cp.bad
    <2>1. rq_step4(s) = c
        BY <1>2 DEF rq_step4, WithRings
    <2>2. Still(a, h) /\ a.cp.csta = "S4"
        BY ToStill DEF Moved, Phases
    <2> HIDE DEF a
    <2>3. Still(b, h) /\ b.cp.csta = "S4" /\ b.comm = NoRings
        BY <2>2, ClearStill
    <2> HIDE DEF b
    <2>4. Still(c, h) /\ c.cp.csta = "S4" /\ c.comm = NoRings
        BY <2>3, InitIntStill DEF Moved
    <2> HIDE DEF c
    <2>5. Rest(c, h)
        <3>1. NoRings.cmd = Empty(CmdLen, FALSE)
            BY DEF NoRings
        <3>2. c.cp.csta \notin {"UP", "DEAD"}
            BY <2>4
        <3> QED BY <2>4, <3>1, <3>2, StillRests
    <2> QED BY <2>1, <2>5
<1> QED BY <1>1, <1>2

(* The controller comes up: the host has one credit, the rings are empty.  *)
LEMMA UpRuns ==
    ASSUME NEW s, NEW h, Rest(s, h), s.cp.csta = "S4", "GO" \in s.cp.saw
    PROVE  LET t == Activate(To(s, "UP"), TIMER)
           IN  Running(t, h) /\ t.cp.rspq = <<>> /\ ~t.cp.ths /\ t.cp.free >= 1
               /\ t.comm.rsp[t.cp.ridx].own
<1> DEFINE m == [s.cp EXCEPT !.csta = "UP"]
           u == WithCp(s, m)
           evs == s.active \cup {TIMER}
           t == WithActive(u, evs)
<1>1. /\ s \in States /\ Shaped(s) /\ s.cp \in Msc /\ h \in Hosts /\ s.cp.perr # "NSR"
      /\ s.unit \in Drives /\ s.active \subseteq {QUEUE} /\ s.comm \in [cmd : CmdRing, rsp : RspRing]
      /\ s.cp.free = NPkts - 1 /\ s.cp.pbsy = 0 /\ s.cp.rspq = <<>> /\ ~s.cp.ths /\ ~s.cp.pip
      /\ s.cp.credits = (NPkts \div 2) - 1 /\ s.cp.ridx = 0 /\ h.ridx = 0 /\ h.credits = 1
      /\ s.comm.rsp = Empty(RspLen, TRUE) /\ s.comm.cmd = Empty(CmdLen, FALSE)
    BY StateTypes DEF Rest
<1>2. \A d \in Drive : s.unit[d].cpkt = Nil /\ s.unit[d].pktq = <<>>
    BY DEF Rest
<1>3. /\ m \in Msc /\ m.csta = "UP" /\ m.perr = s.cp.perr /\ m.free = s.cp.free /\ m.pbsy = 0 /\ m.rspq = <<>>
      /\ ~m.ths /\ ~m.pip /\ m.credits = s.cp.credits /\ m.ridx = 0
    BY <1>1 DEF Msc
<1>4. Shaped(u) /\ u.cp = m /\ u.unit = s.unit /\ u.active = s.active /\ u.comm = s.comm
    <2>1. u = [s EXCEPT !.cp = m]
        BY DEF WithCp
    <2>2. Shaped(s)
        BY <1>1
    <2> HIDE DEF m, u
    <2> QED BY <2>1, <2>2, ShapedCp
<1>5. Activate(To(s, "UP"), TIMER) = t
    <2>1. To(s, "UP") = u /\ u.active = s.active
        <3>1. To(s, "UP") = u
            BY DEF To, WithCp
        <3> HIDE DEF u
        <3> QED BY <1>4, <3>1
    <2> HIDE DEF u
    <2> QED BY <2>1 DEF Activate, WithActive
<1> HIDE DEF m, u
<1>6. Shaped(t) /\ t.cp = m /\ t.unit = s.unit /\ t.active = evs /\ t.comm = s.comm
    <2>1. t = [u EXCEPT !.active = evs]
        BY DEF WithActive
    <2>2. Shaped(u)
        BY <1>4
    <2>3. Shaped(t) /\ t.cp = u.cp /\ t.unit = u.unit /\ t.active = evs /\ t.comm = u.comm
        <3> HIDE DEF t, evs
        <3> QED BY <2>1, <2>2, ShapedActive
    <2> HIDE DEF t, evs
    <2> QED BY <1>4, <2>3
<1> HIDE DEF t
<1>7. t \in States
    <2>1. evs \subseteq 0 .. NumDrives + 1
        BY <1>1, Lengths DEF TIMER, QUEUE
    <2> HIDE DEF evs
    <2> QED BY <1>1, <1>3, <1>6, <2>1, ShapedStates
<1>8. \A i \in 0 .. RspLen - 1 : s.comm.rsp[i].own = TRUE
    BY <1>1 DEF Empty
<1>9. OwnCommands(t.unit)
    <2>1. ASSUME NEW d \in Drive PROVE Owns(t.unit[d], d)
        <3>1. t.unit[d].cpkt = Nil /\ t.unit[d].pktq = <<>>
            BY <1>2, <1>6
        <3>2. DOMAIN <<>> = {}
            OBVIOUS
        <3> QED BY <3>1, <3>2 DEF Owns
    <2> QED BY <2>1 DEF OwnCommands
<1>10. HeldInAll(t.unit) = 0 /\ Len(t.cp.rspq) = 0 /\ Ends(t.cp.rspq) = 0 /\ InRing(t.comm.cmd) = 0
       /\ OnTheirWay(t.comm.rsp) = 0
    <2>1. HeldInAll(t.unit) = 0
        BY <1>1, <1>2, <1>6, HeldNone
    <2>2. t.cp.rspq = <<>> /\ Len(<<>>) = 0
        BY <1>3, <1>6
    <2>3. Ends(t.cp.rspq) = 0
        BY <2>2, EndsEmpty
    <2>4. InRing(t.comm.cmd) = 0 /\ OnTheirWay(t.comm.rsp) = 0
        BY <1>1, <1>6, InRingEmpty, OnTheirWayNone
    <2> QED BY <2>1, <2>2, <2>3, <2>4
<1>11. Packets(t, 0)
    BY <1>1, <1>3, <1>6, <1>10, Lengths DEF Packets
<1>12. Credits(t, h, 0)
    <2>1. 1 + ((NPkts \div 2) - 1) + 0 + 0 + 0 + 0 + 0 = NPkts \div 2
        BY Lengths
    <2> QED BY <1>1, <1>3, <1>6, <1>10, <2>1 DEF Credits
<1>13. RingOrder(t, h)
    <2>1. Unread(t.comm.rsp, h.ridx, t.cp.ridx, 0)
        <3>1. Turn(0, 0) = 0
            BY Lengths DEF Turn
        <3>2. \A i \in 0 .. RspLen - 1 : ~(Off(i, 0) < 0)
            BY Lengths DEF Off
        <3> QED BY <1>1, <1>3, <1>6, <1>8, <3>1, <3>2 DEF Unread
    <2>2. 0 \in 0 .. RspLen
        BY Lengths
    <2>3. \A i \in 0 .. CmdLen - 1 : ~t.comm.cmd[i].own
        <3>1. s.comm.cmd = Empty(CmdLen, FALSE)
            BY <1>1
        <3>2. \A i \in 0 .. CmdLen - 1 : s.comm.cmd[i].own = FALSE
            BY <3>1 DEF Empty
        <3> QED BY <1>6, <3>2
    <2> QED BY <2>1, <2>2, <2>3 DEF RingOrder
<1>14. 0 \in 0 .. RspLen - 1 /\ t.comm.rsp[0].own = TRUE
    <2>1. 0 \in 0 .. RspLen - 1
        BY Lengths
    <2> QED BY <1>6, <1>8, <2>1
<1>15. Called(t, h)
    BY <1>1, <1>14 DEF Called, Filled
<1>16. Base(t, h, 0, 0)
    BY <1>1, <1>3, <1>6, <1>7, <1>9, <1>11, <1>12, <1>13, <1>15 DEF Base
<1>17. Timed(t.unit, t.active)
    <2>1. TIMER \notin Drive /\ QUEUE \notin Drive
        BY Lengths DEF TIMER, QUEUE, Drive
    <2> QED BY <1>1, <1>2, <1>6, <2>1 DEF Timed
<1>18. Slack(t)
    <2>1. Paired(t.cp.rspq)
        BY <1>3, <1>6, BareEmpty
    <2>2. Prior(t.cp.ridx, RspLen) \in 0 .. RspLen - 1
        BY <1>7, StateTypes, Around, Lengths
    <2>3. LastEnds(t)
        BY <1>6, <1>8, <2>2 DEF LastEnds
    <2> QED BY <2>1, <2>3 DEF Slack
<1>19. Room(t) /\ Woken(t)
    BY <1>2, <1>3, <1>6 DEF Room, Woken
<1>20. t.cp.free >= 1
    BY <1>1, <1>3, <1>6, Lengths
<1> HIDE DEF evs
<1>21. Running(t, h) /\ t.cp.rspq = <<>> /\ ~t.cp.ths /\ t.comm.rsp[t.cp.ridx].own
    BY <1>3, <1>6, <1>14, <1>16, <1>17, <1>18, <1>19 DEF Running
<1> QED BY <1>5, <1>20, <1>21

(* The log of the last fatal error is the first response.                  *)
LEMMA PlfRuns ==
    ASSUME NEW s, NEW h, Running(s, h), s.cp.rspq = <<>>, ~s.cp.ths, s.cp.free >= 1, s.comm.rsp[s.cp.ridx].own
    PROVE  Running(rq_plf(s), h)
<1> DEFINE a == rq_deqf(s)
           log == ErrorLog(Nil, "CNT")
           t == rq_plf(s)
<1>1. Base(s, h, 0, 0)
    BY DEF Running
<1>2. Base(a, h, 0 + 1, 0) /\ AfterDeqf(s, a)
    BY <1>1, DeqfBase
<1>3. log \in Rsp /\ One(log) = 0
    BY DEF ErrorLog, Rsp, One, Nil, Sts
<1>4. t = rq_putpkt(a, log, TRUE)
    BY DEF rq_plf
<1> HIDE DEF a, log, t
<1>5. Put(a, t, h, log, Placed(a.cp.rspq, log, TRUE), 0, 0)
    <2>1. Base(a, h, 0 + 1, 0 + One(log))
        BY <1>2, <1>3
    <2>2. log \in Rsp
        BY <1>3
    <2> QED BY <1>4, <2>1, <2>2, PutPkt
<1>6. a.comm.rsp[a.cp.ridx].own /\ a.cp.rspq = <<>> /\ a.active = s.active /\ a.unit = s.unit /\ ~a.cp.ths
      /\ a.cp.pip = s.cp.pip
    BY <1>2 DEF AfterDeqf
<1>7. Base(t, h, 0, 0) /\ Kept(a, t) /\ Went(a, t, log)
    BY <1>5, <1>6 DEF Put, Waited
<1>8. t.cp.rspq = <<>> /\ t.active = s.active /\ t.unit = s.unit /\ ~t.cp.ths /\ t.cp.pip = s.cp.pip
    BY <1>6, <1>7 DEF Went, Kept
<1>9. Slack(t)
    BY <1>8, BareEmpty DEF Slack, LastEnds
<1>10. Timed(t.unit, t.active) /\ Room(t) /\ Woken(t)
    BY <1>8 DEF Running, Room, Woken
<1> QED BY <1>7, <1>9, <1>10 DEF Running, t

LEMMA GoUpRuns ==
    ASSUME NEW s, NEW h, Rest(s, h), s.cp.csta = "S4", "GO" \in s.cp.saw
    PROVE  Running(GoUp(s), h)
<1> DEFINE t == Activate(To(s, "UP"), TIMER)
           u == IF "LF" \in s.cp.saw /\ s.cp.perr # "none" THEN rq_plf(t) ELSE t
           m == [u.cp EXCEPT !.perr = "none"]
           v == WithCp(u, m)
<1>1. Running(t, h) /\ t.cp.rspq = <<>> /\ ~t.cp.ths /\ t.cp.free >= 1 /\ t.comm.rsp[t.cp.ridx].own
    BY UpRuns
<1> HIDE DEF t
<1>2. Running(u, h)
    BY <1>1, PlfRuns
<1> HIDE DEF u
<1>3. u.cp \in Msc /\ Base(u, h, 0, 0)
    BY <1>2, StateTypes DEF Running, Base
<1>4. m \in Msc /\ SameMsc(u.cp, m) /\ m.ths = u.cp.ths /\ m.pip = u.cp.pip
    BY <1>3 DEF Msc, SameMsc
<1>5. GoUp(s) = v
    BY DEF GoUp, WithCp, u, t
<1> HIDE DEF m
<1>6. Base(v, h, 0, 0) /\ AfterCp(u, v, m)
    BY <1>3, <1>4, CpBase
<1> HIDE DEF v
<1>7. Running(v, h)
    BY <1>2, <1>4, <1>6 DEF Running, AfterCp, SameMsc, Slack, LastEnds, Room, Woken
<1> QED BY <1>5, <1>7

LEMMA DialogueRests ==
    ASSUME NEW s, NEW h, Rest(s, h), s.cp.csta # "DEAD", ~(s.cp.csta = "S4" /\ "GO" \in s.cp.saw)
    PROVE  Rest(InitThread(s), h)
<1> DEFINE saw == s.cp.saw
           b == s.cp.bad \/ "NXM" \in saw
           located == WithBad(s, b)
           t == InitThread(s)
<1>1. s \in States /\ s.cp \in Msc /\ s.cp.perr # "NSR" /\ h \in Hosts
    BY StateTypes DEF Rest
<1>2. saw \in SUBSET Words /\ s.cp.csta \in Phases /\ b \in BOOLEAN
    <2>1. saw \in SUBSET Words /\ s.cp.bad \in BOOLEAN
        BY <1>1 DEF Msc
    <2>2. s.cp.csta \in Phases
        BY <1>1 DEF Msc, Rest, Phases
    <2> QED BY <2>1, <2>2
<1>3. s.cp.csta # "S4" => Still(s, h)
    BY DEF Rest, Still
<1>4. ASSUME s.cp.csta # "S4" PROVE Still(located, h)
    <2> HIDE DEF b, located
    <2> QED BY <1>2, <1>3, <1>4, DataStill DEF Moved, located
<1>5. \A x \in Phases \ {"S4"} : Still(s, h) => Rest(To(s, x), h)
    BY ToStill, StillRests DEF Moved, Phases
<1>6. CASE s.cp.csta = "S1" /\ {"VL", "WR"} \subseteq saw
    <2>1. t = To(s, "S1_WR")
        BY <1>6 DEF InitThread
    <2> HIDE DEF t
    <2> QED BY <1>3, <1>5, <1>6, <2>1 DEF Phases, t
<1>7. CASE s.cp.csta = "S1" /\ "VL" \in saw /\ "WR" \notin saw
    <2> DEFINE a == To(s, "S2")
               c == WithS1dat(a, saw)
               d == rq_init_int(c)
    <2>1. t = d
        BY <1>7 DEF InitThread, WithS1dat
    <2>2. Still(a, h) /\ a.cp.csta = "S2"
        BY <1>3, <1>7, ToStill DEF Moved, Phases
    <2> HIDE DEF a
    <2>3. Still(c, h) /\ c.cp.csta = "S2"
        BY <1>2, <2>2, DataStill DEF Moved
    <2> HIDE DEF c
    <2>4. Still(d, h) /\ d.cp.csta = "S2"
        BY <2>3, InitIntStill DEF Moved
    <2> HIDE DEF d, t
    <2>5. Rest(d, h)
        BY <2>4, StillRests
    <2> QED BY <2>1, <2>5 DEF t
<1>8. CASE s.cp.csta = "S2"
    <2> DEFINE a == To(located, "S3")
               d == rq_init_int(a)
    <2>1. t = d
        BY <1>8 DEF InitThread, WithBad
    <2> HIDE DEF located, b
    <2>2. Still(a, h) /\ a.cp.csta = "S3"
        BY <1>4, <1>8, ToStill DEF Moved, Phases
    <2> HIDE DEF a
    <2>4. Still(d, h) /\ d.cp.csta = "S3"
        BY <2>2, InitIntStill DEF Moved
    <2> HIDE DEF d, t
    <2>5. Rest(d, h)
        BY <2>4, StillRests
    <2> QED BY <2>1, <2>5 DEF t
<1>9. CASE s.cp.csta = "S3"
    <2>1. t = IF PP \in saw THEN To(located, "S3_PPA") ELSE rq_step4(located)
        BY <1>9 DEF InitThread, WithBad
    <2> HIDE DEF located, b, t
    <2>2. Still(located, h)
        BY <1>4, <1>9
    <2>3. Rest(rq_step4(located), h)
        BY <2>2, Step4Rests
    <2>4. Rest(To(located, "S3_PPA"), h)
        BY <2>2, ToStill, StillRests DEF Moved, Phases
    <2> QED BY <2>1, <2>3, <2>4 DEF t
<1>10. CASE s.cp.csta = "S3_PPA"
    <2>1. t = IF saw = {} THEN To(s, "S3_PPB") ELSE rq_fatal(s, "PPF")
        BY <1>10 DEF InitThread
    <2> HIDE DEF t
    <2>2. Rest(rq_fatal(s, "PPF"), h)
        BY <1>1, FatalRests
    <2>3. Rest(To(s, "S3_PPB"), h)
        BY <1>3, <1>5, <1>10 DEF Phases
    <2> QED BY <2>1, <2>2, <2>3 DEF t
<1>11. CASE \/ s.cp.csta = "S1" /\ "VL" \notin saw
            \/ s.cp.csta = "S4" /\ "GO" \notin saw
            \/ s.cp.csta \in {"S1_WR", "S3_PPB"}
    <2>1. t = s
        BY <1>11 DEF InitThread
    <2> HIDE DEF t
    <2> QED BY <2>1 DEF t
<1> HIDE DEF t, located, b
<1> QED BY <1>2, <1>6, <1>7, <1>8, <1>9, <1>10, <1>11 DEF Phases

LEMMA InitThreadKeeps ==
    ASSUME NEW s, NEW h, Rest(s, h), s.cp.csta # "DEAD"
    PROVE  Running(InitThread(s), h) \/ Rest(InitThread(s), h)
<1>1. CASE s.cp.csta = "S4" /\ "GO" \in s.cp.saw
    <2>1. InitThread(s) = GoUp(s)
        BY <1>1 DEF InitThread
    <2> QED BY <1>1, <2>1, GoUpRuns
<1> QED BY <1>1, DialogueRests

LEMMA RestActive ==
    ASSUME NEW s, NEW h, Rest(s, h), s.cp.csta # "DEAD", NEW evs, evs \subseteq {QUEUE}
    PROVE  Rest(WithActive(s, evs), h) /\ WithActive(s, evs).cp = s.cp
<1> DEFINE t == WithActive(s, evs)
<1>1. s \in States /\ Shaped(s)
    BY ShapedStates DEF Rest
<1>2. Shaped(t) /\ t.cp = s.cp /\ t.unit = s.unit /\ t.active = evs /\ t.comm = s.comm
    <2>1. t = [s EXCEPT !.active = evs]
        BY DEF WithActive
    <2> HIDE DEF t
    <2> QED BY <1>1, <2>1, ShapedActive
<1>3. evs \subseteq 0 .. NumDrives + 1
    BY Lengths DEF QUEUE
<1> HIDE DEF t
<1>4. t \in States
    BY <1>1, <1>2, <1>3, ShapedStates
<1>5. Rest(t, h)
    BY <1>2, <1>4 DEF Rest
<1> QED BY <1>2, <1>5 DEF t

LEMMA InitKeeps ==
    ASSUME IInv, rq_quesvc, cp.csta \notin {"UP", "DEAD"}
    PROVE  IInv'
<1> DEFINE s == State
           t == WithActive(s, s.active \ {QUEUE})
<1>1. s.cp = cp /\ s.active = active
    BY StateFields
<1>2. Becomes(InitThread(t)) /\ host' = host
    BY DEF rq_quesvc, WithActive
<1> HIDE DEF s
<1>3. Rest(s, host)
    BY <1>1 DEF IInv, Running, Base, s
<1>4. s.active \ {QUEUE} \subseteq {QUEUE}
    BY <1>3 DEF Rest
<1>5. Rest(t, host) /\ t.cp = s.cp
    BY <1>1, <1>3, <1>4, RestActive
<1> HIDE DEF t
<1>6. Running(InitThread(t), host) \/ Rest(InitThread(t), host)
    BY <1>1, <1>5, InitThreadKeeps
<1> QED BY <1>2, <1>6, StaysRunning, StaysAtRest

(***************************************************************************)
(* The host.                                                               *)
(***************************************************************************)
LEMMA NextFields ==
    /\ State'.cp = cp' /\ State'.unit = unit' /\ State'.active = active' /\ State'.comm = comm'
    /\ cp' \in Msc /\ unit' \in Drives /\ active' \subseteq 0 .. NumDrives + 1
       /\ comm' \in [cmd : CmdRing, rsp : RspRing] => State' \in States
BY DEF State, States

LEMMA Typed ==
    ASSUME IInv
    PROVE  /\ State \in States /\ host \in Hosts /\ cp.perr # "NSR"
           /\ cp \in Msc /\ unit \in Drives /\ active \subseteq 0 .. NumDrives + 1
           /\ comm \in [cmd : CmdRing, rsp : RspRing] /\ comm.cmd \in CmdRing /\ comm.rsp \in RspRing
           /\ cp.csta = "UP" => Running(State, host)
           /\ cp.csta # "UP" => Rest(State, host)
<1> DEFINE s == State
<1>1. s.cp = cp /\ s.unit = unit /\ s.active = active /\ s.comm = comm
    BY StateFields
<1> HIDE DEF s
<1>2. /\ s \in States /\ host \in Hosts /\ s.cp.perr # "NSR"
      /\ s.cp.csta = "UP" => Running(s, host)
      /\ s.cp.csta # "UP" => Rest(s, host)
    BY DEF IInv, Running, Base, Rest, s
<1> QED BY <1>1, <1>2, StateTypes DEF s

LEMMA WriteSAKeeps ==
    ASSUME IInv, WriteSA
    PROVE  IInv'
<1>1. PICK w \in HostWords :
          /\ cp.csta \notin {"UP", "DEAD"}
          /\ "GO" \in w => cp.csta = "S4"
          /\ cp' = [cp EXCEPT !.saw = w]
          /\ active' = active \cup {QUEUE}
          /\ IF cp.csta = "S4"
             THEN comm' = [comm EXCEPT !.rsp = Empty(RspLen, TRUE)] /\ host' = [host EXCEPT !.credits = 1]
             ELSE comm' = comm /\ host' = host
          /\ unit' = unit
    BY DEF WriteSA
<1> DEFINE s == State
           t == State'
<1>2. /\ s.cp = cp /\ s.unit = unit /\ s.active = active /\ s.comm = comm
      /\ t.cp = cp' /\ t.unit = unit' /\ t.active = active' /\ t.comm = comm'
    BY StateFields, NextFields
<1>3. /\ cp \in Msc /\ unit \in Drives /\ host \in Hosts
      /\ comm \in [cmd : CmdRing, rsp : RspRing] /\ Rest(s, host)
    BY <1>1, Typed
<1>4. w \in SUBSET Words
    BY MscpAssumption DEF Words
<1>5. /\ cp' \in Msc /\ cp'.saw = w /\ cp'.csta = cp.csta /\ cp'.perr = cp.perr /\ cp'.free = cp.free
      /\ cp'.pbsy = cp.pbsy /\ cp'.rspq = cp.rspq /\ cp'.ths = cp.ths /\ cp'.pip = cp.pip
      /\ cp'.credits = cp.credits /\ cp'.cidx = cp.cidx /\ cp'.ridx = cp.ridx
    BY <1>1, <1>3, <1>4 DEF Msc
<1>6. /\ comm' \in [cmd : CmdRing, rsp : RspRing] /\ comm'.cmd = comm.cmd
      /\ cp.csta = "S4" => comm'.rsp = Empty(RspLen, TRUE)
    BY <1>1, <1>3, OnTheirWayNone
<1>7. /\ host' \in Hosts /\ host'.cidx = host.cidx /\ host'.ridx = host.ridx
      /\ cp.csta = "S4" => host'.credits = 1
    <2> DEFINE g == [host EXCEPT !.credits = 1]
    <2>1. g \in Hosts /\ g.cidx = host.cidx /\ g.ridx = host.ridx /\ g.credits = 1
        BY <1>3 DEF Hosts
    <2>2. host' = IF cp.csta = "S4" THEN g ELSE host
        BY <1>1
    <2> HIDE DEF g
    <2> QED BY <1>3, <2>1, <2>2
<1>8. s.active \subseteq {QUEUE}
    BY <1>3 DEF Rest
<1>9. active' \subseteq {QUEUE} /\ active' \subseteq 0 .. NumDrives + 1
    BY <1>1, <1>2, <1>8, Lengths DEF QUEUE
<1>10. t \in States
    BY <1>1, <1>3, <1>5, <1>6, <1>9, NextFields
<1> HIDE DEF s, t
<1>11. "GO" \in t.cp.saw => t.cp.csta = "S4" /\ host'.credits = 1 /\ t.comm.rsp = Empty(RspLen, TRUE)
    BY <1>1, <1>2, <1>5, <1>6, <1>7
<1>12. Rest(t, host')
    <2>1. t.cp.csta # "UP" /\ t.cp.csta # "DEAD"
        BY <1>1, <1>2, <1>5
    <2>2. /\ t.cp.perr # "NSR" /\ t.cp.free = NPkts - 1 /\ t.cp.pbsy = 0 /\ t.cp.rspq = <<>>
          /\ ~t.cp.ths /\ ~t.cp.pip
          /\ \A d \in Drive : t.unit[d].cpkt = Nil /\ t.unit[d].pktq = <<>>
        BY <1>1, <1>2, <1>3, <1>5 DEF Rest
    <2>3. t.cp.csta = "S4" => t.comm.cmd = Empty(CmdLen, FALSE)
        BY <1>2, <1>3, <1>5, <1>6 DEF Rest
    <2>4. /\ t.cp.credits = (NPkts \div 2) - 1
          /\ t.cp.cidx = 0 /\ t.cp.ridx = 0 /\ host'.cidx = 0 /\ host'.ridx = 0
        BY <1>1, <1>2, <1>3, <1>5, <1>7 DEF Rest
    <2> QED BY <1>2, <1>7, <1>9, <1>10, <1>11, <2>1, <2>2, <2>3, <2>4 DEF Rest
<1> QED BY <1>12 DEF IInv, t

LEMMA WriteIPKeeps ==
    ASSUME IInv, WriteIP
    PROVE  IInv'
<1> DEFINE s == State
           t == rq_reset(s)
<1>1. Becomes(t) /\ host' = Asleep(host.sent, host.resets + 1)
    BY DEF WriteIP
<1>2. s \in States /\ host \in Hosts /\ cp.perr # "NSR" /\ s.cp = cp
    BY Typed, StateFields
<1> HIDE DEF s
<1>3. host' \in Hosts /\ host'.cidx = 0 /\ host'.ridx = 0
    BY <1>1, <1>2, Lengths DEF Asleep, Hosts
<1>4. Rest(t, host')
    BY <1>2, <1>3, ResetRests
<1> HIDE DEF t
<1>5. State' = t
    BY <1>1, <1>4, Became DEF Rest
<1> QED BY <1>4, <1>5 DEF IInv

LEMMA ReadIPKeeps ==
    ASSUME IInv, ReadIP
    PROVE  IInv'
<1> DEFINE s == State
<1>1. s.cp = cp
    BY StateFields
<1>2. CASE cp.csta = "UP"
    <2> DEFINE m == [s.cp EXCEPT !.pip = TRUE]
               u == WithCp(s, m)
    <2>1. Becomes(Activate(u, QUEUE)) /\ host' = host
        BY <1>2 DEF ReadIP, WithCp, State
    <2>2. Running(s, host) /\ s.cp \in Msc
        BY <1>1, <1>2, Typed
    <2> HIDE DEF s
    <2>3. m \in Msc /\ SameMsc(s.cp, m) /\ m.ths = s.cp.ths
        BY <2>2 DEF Msc, SameMsc
    <2> HIDE DEF m
    <2>4. Base(u, host, 0, 0) /\ AfterCp(s, u, m)
        BY <2>2, <2>3, CpBase DEF Running
    <2> HIDE DEF u
    <2>5. Ended(u, host) /\ Room(u)
        BY <2>2, <2>3, <2>4 DEF Ended, Running, AfterCp, SameMsc, Slack, LastEnds, Room
    <2>6. Running(Activate(u, QUEUE), host)
        BY <2>5, RequeueRuns
    <2> QED BY <2>1, <2>6, StaysRunning
<1>3. CASE cp.csta = "S3_PPB"
    <2>1. Becomes(rq_step4(s)) /\ host' = host
        BY <1>3 DEF ReadIP
    <2>2. Rest(s, host)
        BY <1>3, Typed
    <2> HIDE DEF s
    <2>3. Still(s, host)
        BY <1>1, <1>3, <2>2 DEF Rest, Still
    <2>4. Rest(rq_step4(s), host)
        BY <2>3, Step4Rests
    <2> QED BY <2>1, <2>4, StaysAtRest
<1> QED BY <1>2, <1>3 DEF ReadIP

(* Only the interrupt and the host's attention differ.                     *)
OnlyAttention(s, h, t, g) ==
    /\ t \in States /\ g \in Hosts
    /\ t.unit = s.unit /\ t.active = s.active /\ t.comm = s.comm
    /\ t.cp.csta = s.cp.csta /\ t.cp.perr = s.cp.perr /\ t.cp.saw = s.cp.saw /\ t.cp.s1dat = s.cp.s1dat
    /\ t.cp.free = s.cp.free /\ t.cp.pbsy = s.cp.pbsy /\ t.cp.rspq = s.cp.rspq /\ t.cp.ths = s.cp.ths
    /\ t.cp.pip = s.cp.pip /\ t.cp.credits = s.cp.credits /\ t.cp.cidx = s.cp.cidx /\ t.cp.ridx = s.cp.ridx
    /\ g.credits = h.credits /\ g.cidx = h.cidx /\ g.ridx = h.ridx

LEMMA AttentionKeeps ==
    ASSUME IInv, OnlyAttention(State, host, State', host'), Called(State', host')
    PROVE  IInv'
<1> DEFINE s == State
           t == State'
           g == host'
<1>1. OnlyAttention(s, host, t, g) /\ Called(t, g)
    OBVIOUS
<1>2. Running(s, host) \/ Rest(s, host)
    BY DEF IInv
<1> HIDE DEF s, t, g
<1>3. CASE Running(s, host)
    <2>1. Base(s, host, 0, 0)
        BY <1>3 DEF Running
    <2>2. Packets(t, 0) /\ Credits(t, g, 0) /\ RingOrder(t, g) /\ OwnCommands(t.unit)
        BY <1>1, <2>1 DEF Base, OnlyAttention, Packets, Credits, RingOrder
    <2>3. Base(t, g, 0, 0)
        BY <1>1, <2>1, <2>2 DEF Base, OnlyAttention
    <2>4. Running(t, g)
        BY <1>1, <1>3, <2>3 DEF Running, OnlyAttention, Slack, LastEnds, Room, Woken
    <2> QED BY <2>4 DEF IInv, t, g
<1>4. CASE Rest(s, host)
    <2>1. Rest(t, g)
        BY <1>1, <1>4 DEF Rest, OnlyAttention
    <2> QED BY <2>1 DEF IInv, t, g
<1> QED BY <1>2, <1>3, <1>4

LEMMA TakeInterruptKeeps ==
    ASSUME IInv, TakeInterrupt
    PROVE  IInv'
<1>1. /\ cp' = [cp EXCEPT !.irq = FALSE] /\ host' = [host EXCEPT !.awake = TRUE]
      /\ unit' = unit /\ active' = active /\ comm' = comm
    BY DEF TakeInterrupt
<1>2. /\ cp \in Msc /\ host \in Hosts /\ unit \in Drives /\ active \subseteq 0 .. NumDrives + 1
      /\ comm \in [cmd : CmdRing, rsp : RspRing]
    BY Typed
<1>3. /\ cp' \in Msc
      /\ cp'.csta = cp.csta /\ cp'.perr = cp.perr /\ cp'.saw = cp.saw /\ cp'.s1dat = cp.s1dat
      /\ cp'.free = cp.free /\ cp'.pbsy = cp.pbsy /\ cp'.rspq = cp.rspq /\ cp'.ths = cp.ths
      /\ cp'.pip = cp.pip /\ cp'.credits = cp.credits /\ cp'.cidx = cp.cidx /\ cp'.ridx = cp.ridx
    BY <1>1, <1>2 DEF Msc
<1>4. /\ host' \in Hosts /\ host'.awake /\ host'.credits = host.credits /\ host'.cidx = host.cidx
      /\ host'.ridx = host.ridx
    BY <1>1, <1>2 DEF Hosts
<1>5. State' \in States
    BY <1>1, <1>2, <1>3, NextFields
<1>6. OnlyAttention(State, host, State', host')
    BY <1>1, <1>3, <1>4, <1>5, StateFields, NextFields DEF OnlyAttention
<1>7. Called(State', host')
    BY <1>4 DEF Called
<1> QED BY <1>6, <1>7, AttentionKeeps

LEMMA LookKeeps ==
    ASSUME IInv, Look \/ Sleep
    PROVE  IInv'
<1>1. /\ host' = [host EXCEPT !.awake = TRUE] \/ (host' = [host EXCEPT !.awake = FALSE] /\ ~Filled(Response))
      /\ cp' = cp /\ unit' = unit /\ active' = active /\ comm' = comm
    BY DEF Look, Sleep
<1>2. State \in States /\ host \in Hosts
    BY Typed
<1>3. /\ host' \in Hosts /\ host'.credits = host.credits /\ host'.cidx = host.cidx /\ host'.ridx = host.ridx
      /\ host'.awake \/ ~Filled(Response)
    BY <1>1, <1>2 DEF Hosts
<1>4. State' = State
    BY <1>1 DEF State
<1>5. OnlyAttention(State, host, State', host')
    BY <1>2, <1>3, <1>4 DEF OnlyAttention
<1>6. Called(State', host')
    BY <1>3, <1>4, StateFields DEF Called, Response
<1> QED BY <1>5, <1>6, AttentionKeeps

LEMMA NumberedIs ==
    ASSUME NEW c \in Shapes, NEW r \in Nat
    PROVE  Numbered(c, r + 1) \in Command /\ Numbered(c, r + 1) # Nil
<1>1. c \in Shape
    BY MscpAssumption
<1>2. Numbered(c, r + 1) \in Command
    BY <1>1 DEF Shape, Command, Numbered
<1> QED BY <1>2, RefNat

(* A command is given to the controller, with one credit.                  *)
LEMMA SendCommandKeeps ==
    ASSUME IInv, SendCommand
    PROVE  IInv'
<1> DEFINE i == host.cidx
<1>1. PICK c \in Shapes : comm' = [comm EXCEPT !.cmd[i] = [own |-> TRUE, pkt |-> Numbered(c, host.sent + 1)]]
    BY DEF SendCommand
<1> DEFINE e == [own |-> TRUE, pkt |-> Numbered(c, host.sent + 1)]
           ring == [comm.cmd EXCEPT ![i] = e]
           s == State
           t == State'
           g == host'
<1>2. /\ cp.csta = "UP" /\ host.credits > 0 /\ ~comm.cmd[i].own
      /\ cp' = cp /\ unit' = unit /\ active' = active
      /\ host' = [host EXCEPT !.sent = @ + 1, !.credits = @ - 1, !.cidx = (@ + 1) % CmdLen]
    BY DEF SendCommand
<1>3. /\ s \in States /\ host \in Hosts /\ cp \in Msc /\ unit \in Drives /\ active \subseteq 0 .. NumDrives + 1
      /\ comm \in [cmd : CmdRing, rsp : RspRing] /\ comm.cmd \in CmdRing /\ Running(s, host)
    BY <1>2, Typed
<1>4. i \in 0 .. CmdLen - 1 /\ host.credits \in Nat /\ host.sent \in Nat
    BY <1>3, HostTypes
<1>5. /\ s.cp = cp /\ s.unit = unit /\ s.active = active /\ s.comm = comm
      /\ t.cp = cp' /\ t.unit = unit' /\ t.active = active' /\ t.comm = comm'
    BY StateFields, NextFields
<1>6. e \in [own : BOOLEAN, pkt : Command \cup {Nil}] /\ e.own /\ e.pkt # Nil
    BY <1>4, NumberedIs
<1>7. comm' = [comm EXCEPT !.cmd = ring]
    BY <1>1, <1>3
<1> HIDE DEF e
<1>8. ring \in CmdRing /\ \A l \in 0 .. CmdLen - 1 : ring[l] = IF l = i THEN e ELSE comm.cmd[l]
    BY <1>3, <1>4, <1>6 DEF CmdRing
<1>9. InRing(ring) = InRing(comm.cmd) + 1 /\ InRing(comm.cmd) \in Nat
    <2>1. InRing(ring) = InRing(comm.cmd) - (IF comm.cmd[i].own THEN 1 ELSE 0) + (IF e.own THEN 1 ELSE 0)
          /\ InRing(comm.cmd) \in Nat
        BY <1>3, <1>4, <1>6, InRingChanged
    <2> HIDE DEF ring
    <2> QED BY <1>2, <1>6, <2>1
<1> HIDE DEF ring
<1>10. comm' \in [cmd : CmdRing, rsp : RspRing] /\ comm'.cmd = ring /\ comm'.rsp = comm.rsp
    BY <1>3, <1>7, <1>8
<1>11. /\ g \in Hosts /\ g.credits = host.credits - 1 /\ g.ridx = host.ridx /\ g.awake = host.awake
    <2>1. (i + 1) % CmdLen \in 0 .. CmdLen - 1
        BY <1>4, Around, Lengths
    <2> DEFINE n == host.sent + 1
               c1 == host.credits - 1
               r == (i + 1) % CmdLen
    <2>2. n \in Nat /\ c1 \in Nat
        BY <1>2, <1>4
    <2>3. host' = [host EXCEPT !.sent = n, !.credits = c1, !.cidx = r]
        BY <1>2
    <2> HIDE DEF n, c1, r
    <2>4. host' \in Hosts /\ host'.credits = c1 /\ host'.ridx = host.ridx /\ host'.awake = host.awake
        BY <1>3, <2>1, <2>2, <2>3 DEF Hosts, r
    <2> QED BY <2>4 DEF c1
<1>12. t \in States
    BY <1>2, <1>3, <1>10, NextFields
<1> HIDE DEF s, t, g, i
<1>13. Base(s, host, 0, 0)
    BY <1>3 DEF Running
<1>14. Packets(t, 0) /\ OwnCommands(t.unit) /\ Called(t, g)
    BY <1>2, <1>5, <1>10, <1>11, <1>13 DEF Base, Packets, Called
<1>15. Credits(t, g, 0)
    <2> DEFINE cr == s.cp.credits
               way == OnTheirWay(s.comm.rsp)
               held == HeldInAll(s.unit)
               ends == Ends(s.cp.rspq)
    <2>1. host.credits + cr + way + InRing(comm.cmd) + held + ends + 0 = NPkts \div 2
        BY <1>5, <1>13 DEF Base, Credits
    <2>2. cr \in Nat /\ way \in Nat /\ held \in Nat /\ ends \in Nat
        BY <1>3, StateTypes, RingsNat, HeldNat, EndsNat
    <2>3. t.cp.credits = cr /\ OnTheirWay(t.comm.rsp) = way /\ HeldInAll(t.unit) = held /\ Ends(t.cp.rspq) = ends
        BY <1>2, <1>5, <1>10
    <2> HIDE DEF cr, way, held, ends
    <2>4. (host.credits - 1) + cr + way + (InRing(comm.cmd) + 1) + held + ends + 0 = NPkts \div 2
        BY <1>4, <1>9, <2>1, <2>2
    <2> QED BY <1>5, <1>9, <1>10, <1>11, <2>3, <2>4 DEF Credits
<1>16. RingOrder(t, g)
    <2>1. \E n \in 0 .. RspLen : Unread(t.comm.rsp, g.ridx, t.cp.ridx, n)
        BY <1>2, <1>5, <1>10, <1>11, <1>13 DEF Base, RingOrder
    <2>2. \A l \in 0 .. CmdLen - 1 : t.comm.cmd[l].own => t.comm.cmd[l].pkt # Nil
        BY <1>5, <1>6, <1>8, <1>10, <1>13 DEF Base, RingOrder
    <2> QED BY <2>1, <2>2 DEF RingOrder
<1>17. Base(t, g, 0, 0)
    BY <1>2, <1>5, <1>11, <1>12, <1>13, <1>14, <1>15, <1>16 DEF Base
<1>18. Running(t, g)
    BY <1>2, <1>3, <1>5, <1>10, <1>17 DEF Running, Slack, LastEnds, Room, Woken
<1> QED BY <1>18 DEF IInv, t, g

LEMMA UnreadLess ==
    ASSUME NEW ring \in RspRing, NEW from \in 0 .. RspLen - 1, NEW to, NEW n \in 0 .. RspLen,
           Unread(ring, from, to, n), Filled(ring[from]),
           NEW e \in [own : BOOLEAN, pkt : Given \cup {Nil}], e.own
    PROVE  /\ n - 1 \in 0 .. RspLen
           /\ Unread([ring EXCEPT ![from] = e], (from + 1) % RspLen, to, n - 1)
<1> DEFINE f == (from + 1) % RspLen
           new == [ring EXCEPT ![from] = e]
<1>1. f = (IF from = RspLen - 1 THEN 0 ELSE from + 1) /\ f \in 0 .. RspLen - 1
    BY Around, Lengths
<1>2. n >= 1
    <2>1. Off(from, from) = 0
        BY Lengths DEF Off
    <2>2. n = 0 => ring[from].own
        BY <2>1 DEF Unread
    <2> QED BY <2>2 DEF Filled
<1>3. \A i \in 0 .. RspLen - 1 : new[i] = IF i = from THEN e ELSE ring[i]
    BY DEF RspRing
<1>4. n - 1 \in 0 .. RspLen
    BY <1>2, Lengths
<1> HIDE DEF f, new
<1>5. Turn(f, n - 1) = Turn(from, n)
    BY <1>1, <1>2, Lengths DEF Turn
<1>6. ASSUME NEW i \in 0 .. RspLen - 1
      PROVE  IF Off(i, f) < n - 1 THEN Filled(new[i]) ELSE new[i].own
    <2>1. CASE i = from
        <3>1. ~(Off(i, f) < n - 1)
            BY <1>1, <1>2, <2>1, Lengths DEF Off
        <3> QED BY <1>3, <2>1, <3>1
    <2>2. CASE i # from
        <3>1. Off(i, f) < n - 1 <=> Off(i, from) < n
            BY <1>1, <1>2, <2>2, Lengths DEF Off
        <3>2. IF Off(i, from) < n THEN Filled(ring[i]) ELSE ring[i].own
            BY DEF Unread
        <3> QED BY <1>3, <2>2, <3>1, <3>2
    <2> QED BY <2>1, <2>2
<1>7. Unread(new, f, to, n - 1)
    BY <1>5, <1>6 DEF Unread
<1> QED BY <1>4, <1>7 DEF f, new

Blank == [own |-> TRUE, pkt |-> Nil]

(* A response is read, its credits are the host's.                         *)
LEMMA ReadResponseKeeps ==
    ASSUME IInv, ReadResponse
    PROVE  IInv'
<1> DEFINE i == host.ridx
           x == comm.rsp[i]
           ring == [comm.rsp EXCEPT ![i] = Blank]
           s == State
           t == State'
           g == host'
<1>1. /\ cp.csta = "UP" /\ host.awake /\ Filled(x)
      /\ cp' = cp /\ unit' = unit /\ active' = active
      /\ comm' = [comm EXCEPT !.rsp[i] = Blank]
      /\ host' = [host EXCEPT !.ridx = (@ + 1) % RspLen,
                              !.got = IF x.pkt.end THEN @ \cup {x.pkt.ref} ELSE @,
                              !.credits = IF x.pkt.end THEN @ + x.pkt.cr + 1 ELSE @]
    BY DEF ReadResponse, Response, Blank
<1>2. /\ s \in States /\ host \in Hosts /\ cp \in Msc /\ unit \in Drives /\ active \subseteq 0 .. NumDrives + 1
      /\ comm \in [cmd : CmdRing, rsp : RspRing] /\ comm.rsp \in RspRing /\ Running(s, host)
    BY <1>1, Typed
<1>3. i \in 0 .. RspLen - 1 /\ host.credits \in Nat
    BY <1>2, HostTypes
<1>4. /\ s.cp = cp /\ s.unit = unit /\ s.active = active /\ s.comm = comm
      /\ t.cp = cp' /\ t.unit = unit' /\ t.active = active' /\ t.comm = comm'
    BY StateFields, NextFields
<1>5. x \in [own : BOOLEAN, pkt : Given \cup {Nil}] /\ x.pkt \in Given
    BY <1>1, <1>2, <1>3 DEF RspRing, Filled
<1>6. Blank \in [own : BOOLEAN, pkt : Given \cup {Nil}] /\ Blank.own /\ Worth(Blank) = 0
    BY DEF Blank, Worth, Filled
<1>7. comm' = [comm EXCEPT !.rsp = ring]
    BY <1>1, <1>2
<1>8. ring \in RspRing /\ \A l \in 0 .. RspLen - 1 : ring[l] = IF l = i THEN Blank ELSE comm.rsp[l]
    BY <1>2, <1>3, <1>6 DEF RspRing
<1>9. OnTheirWay(ring) = OnTheirWay(comm.rsp) - Worth(x) /\ OnTheirWay(comm.rsp) \in Nat /\ Worth(x) \in Nat
    <2>1. /\ OnTheirWay(ring) = OnTheirWay(comm.rsp) - Worth(x) + Worth(Blank)
          /\ OnTheirWay(comm.rsp) \in Nat /\ Worth(x) \in Nat
        BY <1>2, <1>3, <1>6, OnTheirWayChanged
    <2> HIDE DEF ring, x
    <2> QED BY <1>6, <2>1
<1>10. \E n \in 0 .. RspLen : Unread(ring, (i + 1) % RspLen, cp.ridx, n)
    <2>1. PICK n \in 0 .. RspLen : Unread(comm.rsp, i, cp.ridx, n)
        BY <1>2, <1>4 DEF Running, Base, RingOrder
    <2>2. n - 1 \in 0 .. RspLen /\ Unread(ring, (i + 1) % RspLen, cp.ridx, n - 1)
        BY <1>1, <1>2, <1>3, <1>6, <2>1, UnreadLess
    <2> QED BY <2>2
<1> HIDE DEF ring
<1>11. comm' \in [cmd : CmdRing, rsp : RspRing] /\ comm'.rsp = ring /\ comm'.cmd = comm.cmd
    BY <1>2, <1>7, <1>8
<1>12. /\ g \in Hosts /\ g.credits = host.credits + Worth(x) /\ g.ridx = (i + 1) % RspLen /\ g.awake
    <2>1. (i + 1) % RspLen \in 0 .. RspLen - 1
        BY <1>3, Around, Lengths
    <2>2. x.pkt.ref \in Nat /\ x.pkt.cr \in Nat /\ x.pkt.end \in BOOLEAN
        BY <1>5 DEF Given
    <2>3. Worth(x) = IF x.pkt.end THEN x.pkt.cr + 1 ELSE 0
        BY <1>1 DEF Worth
    <2> DEFINE new == IF x.pkt.end THEN host.got \cup {x.pkt.ref} ELSE host.got
               c == IF x.pkt.end THEN host.credits + x.pkt.cr + 1 ELSE host.credits
               r == (i + 1) % RspLen
    <2>4. host.got \in SUBSET Nat
        BY <1>2 DEF Hosts
    <2>5. new \in SUBSET Nat
        BY <2>2, <2>4
    <2>6. c = host.credits + Worth(x) /\ c \in Nat
        BY <1>3, <2>2, <2>3
    <2>7. host' = [host EXCEPT !.ridx = r, !.got = new, !.credits = c]
        BY <1>1
    <2> HIDE DEF new, c, r, x
    <2>8. host' \in Hosts /\ host'.credits = c /\ host'.ridx = r /\ host'.awake = host.awake
        BY <1>2, <2>1, <2>5, <2>6, <2>7 DEF Hosts, r
    <2> QED BY <1>1, <2>6, <2>8 DEF r
<1>13. t \in States
    BY <1>1, <1>2, <1>11, NextFields
<1> HIDE DEF s, t, g, i, x
<1>14. Base(s, host, 0, 0)
    BY <1>2 DEF Running
<1>15. Packets(t, 0) /\ OwnCommands(t.unit) /\ Called(t, g)
    BY <1>1, <1>4, <1>12, <1>14 DEF Base, Packets, Called
<1>16. Credits(t, g, 0)
    <2> DEFINE cr == s.cp.credits
               inr == InRing(s.comm.cmd)
               held == HeldInAll(s.unit)
               ends == Ends(s.cp.rspq)
    <2>1. host.credits + cr + OnTheirWay(comm.rsp) + inr + held + ends + 0 = NPkts \div 2
        BY <1>4, <1>14 DEF Base, Credits
    <2>2. cr \in Nat /\ inr \in Nat /\ held \in Nat /\ ends \in Nat
        BY <1>2, StateTypes, RingsNat, HeldNat, EndsNat
    <2>3. t.cp.credits = cr /\ InRing(t.comm.cmd) = inr /\ HeldInAll(t.unit) = held /\ Ends(t.cp.rspq) = ends
        BY <1>1, <1>4, <1>11
    <2> HIDE DEF cr, inr, held, ends
    <2>4. (host.credits + Worth(x)) + cr + (OnTheirWay(comm.rsp) - Worth(x)) + inr + held + ends + 0 = NPkts \div 2
        BY <1>3, <1>9, <2>1, <2>2
    <2> QED BY <1>4, <1>9, <1>11, <1>12, <2>3, <2>4 DEF Credits
<1>17. RingOrder(t, g)
    BY <1>1, <1>4, <1>10, <1>11, <1>12, <1>14 DEF Base, RingOrder
<1>18. Base(t, g, 0, 0)
    BY <1>1, <1>4, <1>12, <1>13, <1>14, <1>15, <1>16, <1>17 DEF Base
<1>19. Slack(t)
    <2>1. Prior(cp.ridx, RspLen) \in 0 .. RspLen - 1
        BY <1>2, <1>4, StateTypes, Around, Lengths
    <2>2. ring[Prior(cp.ridx, RspLen)] = comm.rsp[Prior(cp.ridx, RspLen)] \/ ring[Prior(cp.ridx, RspLen)].own
        BY <1>6, <1>8, <2>1
    <2>3. Slack(s) /\ t.cp = s.cp /\ s.comm.rsp = comm.rsp /\ t.comm.rsp = ring /\ s.cp = cp
        BY <1>1, <1>2, <1>4, <1>11 DEF Running
    <2> QED BY <2>2, <2>3 DEF Slack, LastEnds
<1>20. Running(t, g)
    BY <1>1, <1>2, <1>4, <1>11, <1>18, <1>19 DEF Running, Room, Woken
<1> QED BY <1>20 DEF IInv, t, g

-----------------------------------------------------------------------------
(***************************************************************************)
(* The theorems.                                                           *)
(***************************************************************************)
LEMMA InitRests ==
    ASSUME Init
    PROVE  IInv
<1> DEFINE s == State
           m == ResetMsc("none")
<1>1. /\ cp = m /\ active = {} /\ comm = NoRings /\ host = Asleep(0, 0)
      /\ unit = [d \in Drive |-> [onl |-> FALSE, cpkt |-> Nil, pktq |-> <<>>,
                                  io_complete |-> FALSE, io_status |-> FALSE, io_ref |-> 0]]
    BY DEF Init
<1>2. /\ m \in Msc /\ m.csta = "S1" /\ m.perr = "none"
      /\ m.free = NPkts - 1 /\ m.pbsy = 0 /\ m.rspq = <<>> /\ m.ths = FALSE /\ m.pip = FALSE /\ m.saw = {}
      /\ m.credits = (NPkts \div 2) - 1 /\ m.cidx = 0 /\ m.ridx = 0
    BY ResetMscIs
<1> HIDE DEF m
<1>3. unit \in Drives /\ \A d \in Drive : unit[d].cpkt = Nil /\ unit[d].pktq = <<>>
    <2>1. <<>> \in Seq(Command)
        OBVIOUS
    <2> QED BY <1>1, <2>1 DEF Drives, Unit
<1>4. comm \in [cmd : CmdRing, rsp : RspRing]
    BY <1>1, InRingEmpty, OnTheirWayNone DEF NoRings
<1>5. host \in Hosts /\ host.cidx = 0 /\ host.ridx = 0
    BY <1>1, Lengths DEF Asleep, Hosts
<1>6. s.cp = cp /\ s.unit = unit /\ s.active = active /\ s.comm = comm
    BY StateFields
<1>7. s \in States
    BY <1>1, <1>2, <1>3, <1>4 DEF State, States
<1> HIDE DEF s
<1>8. Rest(s, host)
    BY <1>1, <1>2, <1>3, <1>5, <1>6, <1>7 DEF Rest
<1> QED BY <1>8 DEF IInv, s

LEMMA HostKeeps ==
    ASSUME IInv, Host
    PROVE  IInv'
BY WriteSAKeeps, WriteIPKeeps, ReadIPKeeps, SendCommandKeeps, TakeInterruptKeeps, LookKeeps, ReadResponseKeeps
   DEF Host

LEMMA StepKeeps ==
    ASSUME IInv, [Next]_vars
    PROVE  IInv'
<1>1. CASE rq_quesvc
    BY <1>1, QueueKeeps, InitKeeps
<1>2. CASE rq_tmrsvc
    BY <1>2, TimerKeeps
<1>3. ASSUME NEW d \in Drive, rq_svc(d) PROVE IInv'
    BY <1>3, TopKeeps, BottomKeeps DEF rq_svc
<1>4. CASE Host
    BY <1>4, HostKeeps
<1>5. CASE UNCHANGED vars
    <2>1. State' = State /\ host' = host
        BY <1>5 DEF vars, State
    <2> QED BY <2>1 DEF IInv
<1> QED BY <1>1, <1>2, <1>3, <1>4, <1>5 DEF Next

(* A controller that is up keeps its books: its state has its types, its   *)
(* packets and credits add up, its rings are in order, its drives are      *)
(* timed and its queue thread is awake; at any other time it holds         *)
(* nothing.                                                                *)
THEOREM BooksKept == Spec => []IInv
<1>1. Init => IInv
    BY InitRests
<1>2. IInv /\ [Next]_vars => IInv'
    BY StepKeeps
<1> QED BY <1>1, <1>2, PTL DEF Spec

(* rq_deqf, rq_deqh, rq_enqh, rq_enqt: no packet is lost and none is on    *)
(* two lists, whatever the drives do and the host aborts.                  *)
THEOREM PacketsKept == Spec => []PacketsConserved
<1>1. IInv => PacketsConserved
    <2> SUFFICES ASSUME IInv PROVE PacketsConserved
        OBVIOUS
    <2> DEFINE s == State
    <2>1. s.cp = cp /\ s.unit = unit
        BY StateFields
    <2>2. unit \in Drives /\ (Running(s, host) \/ Rest(s, host))
        BY Typed DEF IInv
    <2> HIDE DEF s
    <2>3. CASE Running(s, host)
        <3> DEFINE l == Len(s.cp.rspq)
                   held == HeldInAll(s.unit)
        <3>1. s.cp.free + s.cp.pbsy = NPkts - 1 /\ s.cp.pbsy = 0 + l + held
            BY <2>3 DEF Running, Base, Packets
        <3>2. l \in Nat /\ held \in Nat
            BY <2>3, StateTypes, HeldNat DEF Running, Base
        <3>3. l = Len(cp.rspq) /\ held = HeldInAll(unit)
            BY <2>1
        <3> HIDE DEF l, held
        <3>4. s.cp.pbsy = l + held
            BY <3>1, <3>2
        <3> QED BY <2>1, <3>1, <3>3, <3>4 DEF PacketsConserved
    <2>4. CASE Rest(s, host)
        <3>1. /\ cp.free = NPkts - 1 /\ cp.pbsy = 0 /\ cp.rspq = <<>>
              /\ \A d \in Drive : unit[d].cpkt = Nil /\ unit[d].pktq = <<>>
            BY <2>1, <2>4 DEF Rest
        <3>2. Len(<<>>) = 0 /\ HeldInAll(unit) = 0
            BY <2>2, <3>1, HeldNone
        <3> QED BY <3>1, <3>2, Lengths DEF PacketsConserved
    <2> QED BY <2>2, <2>3, <2>4
<1> QED BY <1>1, BooksKept, PTL

(* rq_quesvc, rq_rw_end, rq_abo, rq_putpkt: no work is ever left behind    *)
(* without an event that will do it.                                       *)
THEOREM WorkAlwaysScheduled == Spec => []WorkScheduled
<1>1. IInv => WorkScheduled
    <2> SUFFICES ASSUME IInv PROVE WorkScheduled
        OBVIOUS
    <2> DEFINE s == State
    <2>1. s.cp = cp /\ s.unit = unit /\ s.active = active
        BY StateFields
    <2>2. Running(s, host) \/ Rest(s, host)
        BY DEF IInv
    <2> HIDE DEF s
    <2>3. CASE Running(s, host)
        BY <2>1, <2>3 DEF Running, Base, Woken, Timed, WorkScheduled
    <2>4. CASE Rest(s, host)
        <3>1. QUEUE \notin Drive
            BY Lengths DEF QUEUE, Drive
        <3> QED BY <2>1, <2>4, <3>1 DEF Rest, WorkScheduled
    <2> QED BY <2>2, <2>3, <2>4
<1> QED BY <1>1, BooksKept, PTL

(* rq_putdesc: a host that sleeps with a response to read has been called. *)
THEOREM ResponseNeverLost == Spec => []NoLostResponse
<1>1. IInv => NoLostResponse
    BY Typed, StateFields DEF Running, Base, Called, NoLostResponse, Response
<1> QED BY <1>1, BooksKept, PTL

(* rq_putpkt: the credits of host, controller, rings and lists add up to   *)
(* those there were, and no controller dies for want of a packet.          *)
THEOREM CreditsKept == Spec => []CreditsConserved
<1>1. IInv => CreditsConserved
    <2> SUFFICES ASSUME IInv PROVE CreditsConserved
        OBVIOUS
    <2> DEFINE s == State
    <2>1. s.cp = cp /\ s.unit = unit /\ s.comm = comm
        BY StateFields
    <2>2. cp.perr # "NSR"
        BY Typed
    <2>3. ASSUME cp.csta = "UP"
          PROVE  host.credits + cp.credits + OnTheirWay(comm.rsp) + InRing(comm.cmd) + HeldInAll(unit)
                 + Ends(cp.rspq) = NPkts \div 2
        <3> DEFINE c == cp.credits
                   way == OnTheirWay(comm.rsp)
                   inr == InRing(comm.cmd)
                   held == HeldInAll(unit)
                   ends == Ends(cp.rspq)
        <3>1. Running(s, host)
            BY <2>3, Typed
        <3> HIDE DEF s
        <3>2. host.credits + c + way + inr + held + ends + 0 = NPkts \div 2
            BY <2>1, <3>1 DEF Running, Base, Credits
        <3>3. s \in States /\ host \in Hosts
            BY <3>1 DEF Running, Base
        <3>4. c \in Nat /\ way \in Nat /\ inr \in Nat /\ held \in Nat /\ ends \in Nat /\ host.credits \in Nat
            BY <2>1, <3>3, StateTypes, RingsNat, HeldNat, EndsNat, HostTypes
        <3> HIDE DEF c, way, inr, held, ends
        <3>5. host.credits + c + way + inr + held + ends = NPkts \div 2
            BY <3>2, <3>4
        <3> QED BY <3>5 DEF c, way, inr, held, ends
    <2> QED BY <2>2, <2>3 DEF CreditsConserved
<1> QED BY <1>1, BooksKept, PTL

(***************************************************************************)
(* What becomes of a command.  Of the state of a controller only the       *)
(* drives U, the waiting responses q and the response ring R matter, and   *)
(* of the host the answers G it has got.                                   *)
(***************************************************************************)
Ref == Nat \ {0}

Ending(p, r) == p.end /\ p.ref = r
Has(u, r) == u.cpkt.ref = r \/ \E i \in DOMAIN u.pktq : u.pktq[i].ref = r
HeldBy(U, r) == \E d \in Drive : Has(U[d], r)
Queued(q, r) == \E i \in DOMAIN q : Ending(q[i], r)
Lying(R, r) == \E i \in DOMAIN R : Filled(R[i]) /\ Ending(R[i].pkt, r)

(* The command of number r, or its end packet, is nowhere.                 *)
Nowhere(U, q, R, G, r) == r \in Ref /\ ~HeldBy(U, r) /\ ~Queued(q, r) /\ ~Lying(R, r) /\ r \notin G

(* A drive's commands are in order, and no other drive's.                  *)
Sorted(u) ==
    /\ \A i \in DOMAIN u.pktq : u.cpkt.ref < u.pktq[i].ref
    /\ \A i, j \in DOMAIN u.pktq : i < j => u.pktq[i].ref < u.pktq[j].ref
Separate(U) ==
    /\ \A d \in Drive : Sorted(U[d])
    /\ \A d, e \in Drive : \A r \in Ref : Has(U[d], r) /\ Has(U[e], r) => d = e

(* No two end packets of a queue or of the ring are of one command.        *)
Single(q) ==
    /\ \A i \in DOMAIN q : q[i].end => q[i].ref \in Ref
    /\ \A i, j \in DOMAIN q : q[i].end /\ Ending(q[j], q[i].ref) => i = j
Scattered(R) ==
    \A i, j \in DOMAIN R : Filled(R[i]) /\ R[i].pkt.end /\ Filled(R[j]) /\ Ending(R[j].pkt, R[i].pkt.ref) => i = j

(* And none is in two of the four.                                         *)
Apart(U, q, R, G) ==
    /\ Separate(U) /\ Single(q) /\ Scattered(R)
    /\ \A r \in Ref : /\ HeldBy(U, r) => ~Queued(q, r) /\ ~Lying(R, r) /\ r \notin G
                      /\ Queued(q, r) => ~Lying(R, r) /\ r \notin G
                      /\ Lying(R, r) => r \notin G

Fates(s, h) == Apart(s.unit, s.cp.rspq, s.comm.rsp, h.got)
Free(s, h, r) == Nowhere(s.unit, s.cp.rspq, s.comm.rsp, h.got, r)

(* The ring holds the last n commands the host has sent, the oldest where  *)
(* the controller reads next; they and those yet to be sent are nowhere    *)
(* else.                                                                   *)
Back(i, to) == IF i < to THEN to - i ELSE to - i + CmdLen
Spot(to, n) == IF n <= to THEN to - n ELSE to - n + CmdLen
InLine(s, h, n) ==
    /\ s.cp.cidx = Spot(h.cidx, n)
    /\ \A i \in 0 .. CmdLen - 1 :
           /\ s.comm.cmd[i].own <=> Back(i, h.cidx) <= n
           /\ s.comm.cmd[i].own => s.comm.cmd[i].pkt.ref = h.sent + 1 - Back(i, h.cidx)
Ahead(s, h, n) == \A r \in Ref : r > h.sent - n => Free(s, h, r)

FateInv(s, h) ==
    /\ Fates(s, h)
    /\ \E n \in 0 .. CmdLen : /\ Ahead(s, h, n)
                              /\ s.cp.csta = "UP" => InLine(s, h, n)
FInv == FateInv(State, host)


-----------------------------------------------------------------------------
(***************************************************************************)
(* One of the four changes; what is new in it is of the command r, which   *)
(* was nowhere.                                                            *)
(***************************************************************************)
LEMMA QueueFate ==
    ASSUME NEW U, NEW q, NEW R, NEW G, NEW p, NEW r, Apart(U, q, R, G), Single(p),
           \A x \in Ref : Queued(p, x) => Queued(q, x) \/ (x = r /\ Nowhere(U, q, R, G, r))
    PROVE  /\ Apart(U, p, R, G)
           /\ \A x \in Ref : x # r /\ Nowhere(U, q, R, G, x) => Nowhere(U, p, R, G, x)
           /\ \A x \in Ref : Queued(q, x) /\ ~Queued(p, x) => Nowhere(U, p, R, G, x)
BY DEF Apart, Nowhere

LEMMA RingFate ==
    ASSUME NEW U, NEW q, NEW R, NEW G, NEW S, NEW r, Apart(U, q, R, G), Scattered(S),
           \A x \in Ref : Lying(S, x) => Lying(R, x) \/ (x = r /\ Nowhere(U, q, R, G, r))
    PROVE  /\ Apart(U, q, S, G)
           /\ \A x \in Ref : x # r /\ Nowhere(U, q, R, G, x) => Nowhere(U, q, S, G, x)
           /\ \A x \in Ref : Lying(R, x) /\ ~Lying(S, x) => Nowhere(U, q, S, G, x)
BY DEF Apart, Nowhere

LEMMA DrivesFate ==
    ASSUME NEW U, NEW q, NEW R, NEW G, NEW V, NEW r, Apart(U, q, R, G), Separate(V),
           \A x \in Ref : HeldBy(V, x) => HeldBy(U, x) \/ (x = r /\ Nowhere(U, q, R, G, r))
    PROVE  /\ Apart(V, q, R, G)
           /\ \A x \in Ref : x # r /\ Nowhere(U, q, R, G, x) => Nowhere(V, q, R, G, x)
           /\ \A x \in Ref : HeldBy(U, x) /\ ~HeldBy(V, x) => Nowhere(V, q, R, G, x)
BY DEF Apart, Nowhere

(* The drive d alone differs. *)
LEMMA DriveFate ==
    ASSUME NEW U, NEW q, NEW R, NEW G, NEW V, NEW r, Apart(U, q, R, G), NEW d \in Drive,
           \A e \in Drive : e # d => V[e] = U[e], Sorted(V[d]),
           \A x \in Ref : Has(V[d], x) => Has(U[d], x) \/ (x = r /\ Nowhere(U, q, R, G, r))
    PROVE  /\ Apart(V, q, R, G)
           /\ \A x \in Ref : x # r /\ Nowhere(U, q, R, G, x) => Nowhere(V, q, R, G, x)
           /\ \A x \in Ref : Has(U[d], x) /\ ~Has(V[d], x) => Nowhere(V, q, R, G, x)
<1>1. Separate(U)
    BY DEF Apart
<1>2. \A x \in Ref : HeldBy(V, x) => HeldBy(U, x) \/ (x = r /\ Nowhere(U, q, R, G, r))
    BY DEF HeldBy
<1>3. Separate(V)
    <2>1. \A e \in Drive : Sorted(V[e])
        BY <1>1 DEF Separate
    <2>2. ASSUME NEW a \in Drive, NEW b \in Drive, NEW x \in Ref, Has(V[a], x), Has(V[b], x), a # b PROVE FALSE
        <3>1. \A e \in Drive : e # d => ~Has(U[e], x) \/ ~Has(U[d], x)
            BY <1>1 DEF Separate
        <3>2. Nowhere(U, q, R, G, x) => \A e \in Drive : ~Has(U[e], x)
            BY DEF Nowhere, HeldBy
        <3>3. \A e \in Drive : e # d => (Has(V[e], x) <=> Has(U[e], x))
            OBVIOUS
        <3>4. a # d /\ b # d => FALSE
            BY <1>1, <2>2, <3>3 DEF Separate
        <3> QED BY <2>2, <3>1, <3>2, <3>3, <3>4
    <2> QED BY <2>1, <2>2 DEF Separate
<1>4. /\ Apart(V, q, R, G)
      /\ \A x \in Ref : x # r /\ Nowhere(U, q, R, G, x) => Nowhere(V, q, R, G, x)
      /\ \A x \in Ref : HeldBy(U, x) /\ ~HeldBy(V, x) => Nowhere(V, q, R, G, x)
    BY <1>2, <1>3, DrivesFate
<1>5. ASSUME NEW x \in Ref, Has(U[d], x), ~Has(V[d], x) PROVE HeldBy(U, x) /\ ~HeldBy(V, x)
    <2>1. \A e \in Drive : e # d => ~Has(U[e], x)
        BY <1>1, <1>5 DEF Separate
    <2> QED BY <1>5, <2>1 DEF HeldBy
<1> QED BY <1>4, <1>5

(***************************************************************************)
(* A packet more, or the first less, in the queue; one more in the ring.   *)
(***************************************************************************)
LEMMA PlacedFate ==
    ASSUME NEW q \in Seq(Rsp), Single(q), NEW pkt \in Rsp, pkt.end => pkt.ref \in Ref /\ ~Queued(q, pkt.ref), NEW qt \in BOOLEAN
    PROVE  /\ Single(Placed(q, pkt, qt))
           /\ \A x : Queued(Placed(q, pkt, qt), x) => Queued(q, x) \/ Ending(pkt, x)
<1> DEFINE n == Len(q)
           k == IF qt THEN n + 1 ELSE 1
           p == Placed(q, pkt, qt)
<1>1. n \in Nat /\ DOMAIN q = 1 .. n
    BY LenProperties
<1>2. DOMAIN p = 1 .. n + 1
    <2>1. p \in Seq(Rsp) /\ Len(p) = n + 1
        BY PlacedIs
    <2> HIDE DEF p
    <2> QED BY <2>1, LenProperties
<1> HIDE DEF n
<1>3. /\ p[k] = pkt /\ k \in 1 .. n + 1
      /\ \A i \in 1 .. n + 1 : i # k => LET j == IF qt THEN i ELSE i - 1 IN j \in 1 .. n /\ p[i] = q[j]
    <2>1. CASE qt
        <3>1. p = Append(q, pkt)
            BY <2>1 DEF Placed
        <3>2. Append(q, pkt)[n + 1] = pkt /\ \A i \in 1 .. n : Append(q, pkt)[i] = q[i]
            BY AppendProperties DEF n
        <3>3. p[n + 1] = pkt /\ \A i \in 1 .. n + 1 : i # n + 1 => p[i] = q[i] /\ i \in 1 .. n
            <4> HIDE DEF p
            <4> QED BY <1>1, <3>1, <3>2
        <3>4. k = n + 1 /\ n + 1 \in 1 .. n + 1
            BY <1>1, <2>1
        <3> HIDE DEF p, k
        <3> QED BY <2>1, <3>3, <3>4
    <2>2. CASE ~qt
        <3>1. p = <<pkt>> \o q
            BY <2>2 DEF Placed
        <3>2. <<pkt>> \in Seq(Rsp) /\ Len(<<pkt>>) = 1 /\ <<pkt>>[1] = pkt
            OBVIOUS
        <3>3. \A i \in 1 .. 1 + n : (<<pkt>> \o q)[i] = IF i <= 1 THEN <<pkt>>[i] ELSE q[i - 1]
            BY <3>2, ConcatProperties DEF n
        <3>4. p[1] = pkt /\ \A i \in 1 .. n + 1 : i # 1 => p[i] = q[i - 1] /\ i - 1 \in 1 .. n
            <4> HIDE DEF p
            <4> QED BY <1>1, <3>1, <3>2, <3>3
        <3> QED BY <1>1, <2>2, <3>4
    <2> QED BY <2>1, <2>2
<1> HIDE DEF p
<1>4. \A x : Queued(p, x) => Queued(q, x) \/ Ending(pkt, x)
    BY <1>1, <1>2, <1>3 DEF Queued
<1>5. ASSUME NEW i \in DOMAIN p, NEW j \in DOMAIN p, p[i].end, Ending(p[j], p[i].ref), i # j PROVE FALSE
    <2> DEFINE a == IF qt THEN i ELSE i - 1
               b == IF qt THEN j ELSE j - 1
    <2>1. i \in Int /\ j \in Int /\ a # b
        BY <1>1, <1>2, <1>5
    <2>2. CASE i # k /\ j # k
        <3>1. a \in DOMAIN q /\ p[i] = q[a] /\ b \in DOMAIN q /\ p[j] = q[b]
            BY <1>1, <1>2, <1>3, <2>2
        <3> HIDE DEF a, b
        <3> QED BY <1>5, <2>1, <3>1 DEF Single
    <2>3. CASE i = k
        <3>1. b \in DOMAIN q /\ p[j] = q[b] /\ p[i] = pkt
            BY <1>1, <1>2, <1>3, <1>5, <2>3
        <3> HIDE DEF b
        <3> QED BY <1>5, <3>1 DEF Queued
    <2>4. CASE j = k
        <3>1. a \in DOMAIN q /\ p[i] = q[a] /\ p[j] = pkt
            BY <1>1, <1>2, <1>3, <1>5, <2>4
        <3> HIDE DEF a
        <3> QED BY <1>5, <3>1 DEF Queued, Ending
    <2> QED BY <2>2, <2>3, <2>4
<1>6. ASSUME NEW i \in DOMAIN p, p[i].end PROVE p[i].ref \in Ref
    <2>1. CASE i = k
        BY <1>3, <1>6, <2>1
    <2>2. CASE i # k
        <3> DEFINE j == IF qt THEN i ELSE i - 1
        <3>1. j \in DOMAIN q /\ p[i] = q[j]
            BY <1>1, <1>2, <1>3, <2>2
        <3> HIDE DEF j
        <3> QED BY <1>6, <3>1 DEF Single
    <2> QED BY <2>1, <2>2
<1> QED BY <1>4, <1>5, <1>6 DEF Single, p

LEMMA TailFate ==
    ASSUME NEW q \in Seq(Rsp), q # <<>>, Single(q)
    PROVE  /\ Single(Tail(q))
           /\ \A x : Queued(Tail(q), x) => Queued(q, x)
           /\ Head(q).end => Head(q).ref \in Ref /\ Queued(q, Head(q).ref) /\ ~Queued(Tail(q), Head(q).ref)
<1> DEFINE n == Len(q)
           p == Tail(q)
<1>1. /\ n \in Nat /\ n > 0 /\ DOMAIN q = 1 .. n /\ Head(q) = q[1] /\ DOMAIN p = 1 .. n - 1
      /\ \A i \in 1 .. n - 1 : p[i] = q[i + 1]
    <2>1. /\ p \in Seq(Rsp) /\ Len(p) = n - 1 /\ n \in Nat /\ n > 0 /\ Head(q) = q[1]
          /\ \A i \in 1 .. n - 1 : p[i] = q[i + 1]
        BY HeadAndTail
    <2> HIDE DEF p
    <2> QED BY <2>1, LenProperties
<1> HIDE DEF n, p
<1>2. \A i \in DOMAIN p : i + 1 \in DOMAIN q /\ p[i] = q[i + 1] /\ i \in Nat /\ i + 1 # 1
    BY <1>1
<1>3. 1 \in DOMAIN q
    BY <1>1
<1>4. \A x : Queued(p, x) => Queued(q, x)
    BY <1>2 DEF Queued
<1>5. Single(p)
    <2>1. ASSUME NEW i \in DOMAIN p, NEW j \in DOMAIN p, p[i].end, Ending(p[j], p[i].ref) PROVE i = j
        <3>1. i + 1 = j + 1
            BY <1>2, <2>1 DEF Single
        <3> QED BY <1>2, <3>1
    <2>2. \A i \in DOMAIN p : p[i].end => p[i].ref \in Ref
        BY <1>2 DEF Single
    <2> QED BY <2>1, <2>2 DEF Single
<1>6. ASSUME q[1].end PROVE q[1].ref \in Ref /\ Queued(q, q[1].ref) /\ ~Queued(p, q[1].ref)
    <2>1. q[1].ref \in Ref /\ Queued(q, q[1].ref)
        BY <1>3, <1>6 DEF Single, Queued, Ending
    <2>2. ASSUME NEW i \in DOMAIN p, Ending(p[i], q[1].ref) PROVE FALSE
        <3>1. i + 1 \in DOMAIN q /\ Ending(q[i + 1], q[1].ref) /\ i + 1 # 1
            BY <1>2, <2>2
        <3> QED BY <1>3, <1>6, <3>1 DEF Single
    <2> QED BY <2>1, <2>2 DEF Queued
<1> QED BY <1>1, <1>4, <1>5, <1>6 DEF p

LEMMA EntryFate ==
    ASSUME NEW R, NEW i \in DOMAIN R, NEW e, Scattered(R),
           ~Filled(e) \/ ~e.pkt.end \/ ~Lying(R, e.pkt.ref)
    PROVE  LET S == [R EXCEPT ![i] = e]
           IN  /\ Scattered(S)
               /\ \A x : Lying(S, x) => Lying(R, x) \/ (Filled(e) /\ Ending(e.pkt, x))
<1> DEFINE S == [R EXCEPT ![i] = e]
<1>1. DOMAIN S = DOMAIN R /\ S[i] = e /\ \A j \in DOMAIN R : j # i => S[j] = R[j]
    OBVIOUS
<1> HIDE DEF S
<1>2. \A x : Lying(S, x) => Lying(R, x) \/ (Filled(e) /\ Ending(e.pkt, x))
    BY <1>1 DEF Lying
<1>3. ASSUME NEW a \in DOMAIN S, NEW b \in DOMAIN S, Filled(S[a]), S[a].pkt.end, Filled(S[b]),
             Ending(S[b].pkt, S[a].pkt.ref)
      PROVE  a = b
    <2>1. CASE a # i /\ b # i
        BY <1>1, <1>3, <2>1 DEF Scattered
    <2>2. CASE a = i /\ b # i
        BY <1>1, <1>3, <2>2 DEF Lying
    <2>3. CASE a # i /\ b = i
        BY <1>1, <1>3, <2>3 DEF Lying, Ending
    <2> QED BY <2>1, <2>2, <2>3
<1> QED BY <1>2, <1>3 DEF Scattered, S


(***************************************************************************)
(* From the state s to t no command is doubled, and all that were nowhere  *)
(* still are, but for the command r; the host's ring is as it was.         *)
(***************************************************************************)
Spares(s, t, h, r) == Fates(t, h) /\ \A x \in Ref : x # r /\ Free(s, h, x) => Free(t, h, x)
SameLine(s, t) == t.comm.cmd = s.comm.cmd /\ t.cp.cidx = s.cp.cidx
Safe(s, t, h, r) == Spares(s, t, h, r) /\ SameLine(s, t)

LEMMA SafeThen ==
    ASSUME NEW s, NEW t, NEW u, NEW h, NEW r, Safe(s, t, h, 0) \/ Safe(s, t, h, r), Safe(t, u, h, r)
    PROVE  Safe(s, u, h, r) /\ (~Free(s, h, r) => Safe(s, u, h, 0))
BY DEF Safe, Spares, SameLine, Ref

LEMMA SafeAfter ==
    ASSUME NEW s, NEW t, NEW u, NEW h, NEW r, Safe(s, t, h, r), Safe(t, u, h, 0)
    PROVE  Safe(s, u, h, r)
BY DEF Safe, Spares, SameLine, Ref

(* The same commands in the same places. *)
Alongside(s, t) ==
    /\ \A d \in Drive : t.unit[d].cpkt.ref = s.unit[d].cpkt.ref /\ t.unit[d].pktq = s.unit[d].pktq
    /\ t.cp.rspq = s.cp.rspq /\ t.comm.rsp = s.comm.rsp

LEMMA AlongsideSpares ==
    ASSUME NEW s, NEW h, Fates(s, h), NEW t, Alongside(s, t)
    PROVE  Spares(s, t, h, 0) /\ \A x : Free(t, h, x) <=> Free(s, h, x)
<1>1. \A d \in Drive : /\ \A x : Has(t.unit[d], x) <=> Has(s.unit[d], x)
                       /\ Sorted(t.unit[d]) <=> Sorted(s.unit[d])
    BY DEF Alongside, Has, Sorted
<1>2. /\ \A x : HeldBy(t.unit, x) <=> HeldBy(s.unit, x)
      /\ Separate(t.unit) <=> Separate(s.unit)
    BY <1>1 DEF HeldBy, Separate
<1> QED BY <1>2 DEF Alongside, Spares, Fates, Free, Apart, Nowhere

LEMMA AlongsideSafe ==
    ASSUME NEW s, NEW h, Fates(s, h), NEW t, t.unit = s.unit, t.cp.rspq = s.cp.rspq, t.comm.rsp = s.comm.rsp
    PROVE  Spares(s, t, h, 0) /\ \A x : Free(t, h, x) <=> Free(s, h, x)
<1>1. Alongside(s, t)
    BY DEF Alongside
<1> QED BY <1>1, AlongsideSpares

(***************************************************************************)
(* A packet leaves the hands of a handler.                                 *)
(***************************************************************************)
LEMMA DeliveredFate ==
    ASSUME NEW s \in States, NEW h, Fates(s, h), NEW pkt \in Rsp, NEW r, pkt.end => pkt.ref = r /\ Free(s, h, r),
           NEW t, NEW cr, Delivered(s, t, pkt, cr)
    PROVE  Safe(s, t, h, r)
<1> DEFINE R == s.comm.rsp
           i == s.cp.ridx
           e == Filling(R[i], pkt, cr)
           S == [R EXCEPT ![i] = e]
<1>1. i \in DOMAIN R /\ R[i] \in [own : BOOLEAN, pkt : Given \cup {Nil}] /\ R[i].own /\ cr \in Nat
    BY StateTypes DEF Delivered, RspRing
<1>2. e.pkt.end = pkt.end /\ e.pkt.ref = pkt.ref
    BY <1>1 DEF Filling, WithCredits
<1>3. /\ t.comm.rsp = S /\ t.unit = s.unit /\ t.cp.rspq = s.cp.rspq
      /\ t.comm.cmd = s.comm.cmd /\ t.cp.cidx = s.cp.cidx
    BY DEF Delivered, Alike
<1>4. pkt.end => ~Lying(R, pkt.ref)
    BY DEF Free, Nowhere
<1>5. Scattered(S) /\ \A x : Lying(S, x) => Lying(R, x) \/ (Filled(e) /\ Ending(e.pkt, x))
    <2>1. Scattered(R)
        BY DEF Fates, Apart
    <2> HIDE DEF e, R, i
    <2> QED BY <1>1, <1>2, <1>4, <2>1, EntryFate
<1> HIDE DEF S, e
<1>6. \A x \in Ref : Lying(S, x) => Lying(R, x) \/ (x = r /\ Free(s, h, r))
    BY <1>2, <1>5 DEF Ending
<1>7. /\ Apart(s.unit, s.cp.rspq, S, h.got)
      /\ \A x \in Ref : x # r /\ Free(s, h, x) => Nowhere(s.unit, s.cp.rspq, S, h.got, x)
    BY <1>5, <1>6, RingFate DEF Fates, Free
<1> QED BY <1>3, <1>7 DEF Safe, Spares, SameLine, Fates, Free

LEMMA QueuedFate ==
    ASSUME NEW s \in States, NEW h, Fates(s, h), NEW pkt \in Rsp, NEW r, pkt.end => pkt.ref = r /\ Free(s, h, r),
           NEW qt \in BOOLEAN, NEW t, AfterQueue(s, t, Placed(s.cp.rspq, pkt, qt))
    PROVE  Safe(s, t, h, r)
<1> DEFINE q == s.cp.rspq
           p == Placed(q, pkt, qt)
<1>1. q \in Seq(Rsp)
    BY StateTypes
<1>2. /\ t.cp.rspq = p /\ t.unit = s.unit /\ t.comm.rsp = s.comm.rsp
      /\ t.comm.cmd = s.comm.cmd /\ t.cp.cidx = s.cp.cidx
    BY DEF AfterQueue, Alike
<1>3. Single(p) /\ \A x : Queued(p, x) => Queued(q, x) \/ Ending(pkt, x)
    <2>1. Single(q) /\ (pkt.end => pkt.ref \in Ref /\ ~Queued(q, pkt.ref))
        BY DEF Fates, Apart, Free, Nowhere
    <2> HIDE DEF q
    <2> QED BY <1>1, <2>1, PlacedFate
<1> HIDE DEF p
<1>4. \A x \in Ref : Queued(p, x) => Queued(q, x) \/ (x = r /\ Free(s, h, r))
    BY <1>3 DEF Ending
<1>5. /\ Apart(s.unit, p, s.comm.rsp, h.got)
      /\ \A x \in Ref : x # r /\ Free(s, h, x) => Nowhere(s.unit, p, s.comm.rsp, h.got, x)
    <2>1. Apart(s.unit, q, s.comm.rsp, h.got)
        BY DEF Fates
    <2>2. \A x \in Ref : Queued(p, x) => Queued(q, x) \/ (x = r /\ Nowhere(s.unit, q, s.comm.rsp, h.got, r))
        BY <1>4 DEF Free
    <2>3. Single(p)
        BY <1>3
    <2> HIDE DEF q
    <2>4. /\ Apart(s.unit, p, s.comm.rsp, h.got)
          /\ \A x \in Ref : x # r /\ Nowhere(s.unit, q, s.comm.rsp, h.got, x) => Nowhere(s.unit, p, s.comm.rsp, h.got, x)
        BY <2>1, <2>2, <2>3, QueueFate
    <2> QED BY <2>4 DEF Free, q
<1> QED BY <1>2, <1>5 DEF Safe, Spares, SameLine, Fates, Free

LEMMA PutFate ==
    ASSUME NEW s, NEW h, NEW k \in Nat, NEW c, Base(s, h, k + 1, c), Fates(s, h), NEW pkt \in Rsp,
           NEW r, pkt.end => pkt.ref = r /\ Free(s, h, r), NEW qt \in BOOLEAN
    PROVE  Safe(s, rq_putpkt(s, pkt, qt), h, r)
<1> DEFINE t == rq_putpkt(s, pkt, qt)
           q == Placed(s.cp.rspq, pkt, qt)
<1>1. s \in States
    BY DEF Base
<1>2. CASE s.comm.rsp[s.cp.ridx].own
    <2>1. t = PutRspDesc(Sent(s, pkt))
        BY <1>2 DEF rq_putpkt
    <2>2. s.cp.pbsy > 0
        <3> DEFINE l == Len(s.cp.rspq)
        <3>1. l \in Nat /\ s.cp.pbsy = (k + 1) + l + HeldInAll(s.unit) /\ HeldInAll(s.unit) \in Nat
            BY <1>1, StateTypes, HeldNat DEF Base, Packets
        <3> HIDE DEF l
        <3> QED BY <3>1
    <2> HIDE DEF t
    <2>3. Delivered(s, t, pkt, Credit(s, pkt))
        BY <1>1, <1>2, <2>1, <2>2, Delivers
    <2> QED BY <1>1, <2>3, DeliveredFate DEF t
<1>3. CASE ~s.comm.rsp[s.cp.ridx].own
    <2>1. t = Activate([s EXCEPT !.cp.rspq = q], QUEUE)
        BY <1>3 DEF rq_putpkt, Placed
    <2>2. q \in Seq(Rsp)
        BY <1>1, StateTypes, PlacedIs
    <2> HIDE DEF t
    <2>3. AfterQueue(s, t, q)
        <3> HIDE DEF q
        <3> QED BY <1>1, <2>1, <2>2, Queues
    <2> QED BY <1>1, <2>3, QueuedFate DEF t
<1> QED BY <1>2, <1>3

LEMMA AnswerFate ==
    ASSUME NEW s, NEW h, NEW k \in Nat, NEW c, Base(s, h, k + 1, c), Fates(s, h),
           NEW pkt, pkt.ref \in Nat, Free(s, h, pkt.ref), NEW sts \in Sts
    PROVE  Safe(s, Answer(s, pkt, sts), h, pkt.ref)
<1> DEFINE p == End(pkt, sts)
<1>1. p \in Rsp /\ p.ref = pkt.ref /\ Answer(s, pkt, sts) = rq_putpkt(s, p, TRUE)
    BY DEF End, Rsp, Answer
<1> HIDE DEF p
<1> QED BY <1>1, PutFate


(***************************************************************************)
(* The commands of one drive.                                              *)
(***************************************************************************)
LEMMA EntryRefs ==
    ASSUME NEW u \in Unit
    PROVE  /\ u.cpkt.ref \in Nat /\ (u.cpkt.ref = 0 <=> u.cpkt = Nil)
           /\ Len(u.pktq) \in Nat /\ DOMAIN u.pktq = 1 .. Len(u.pktq)
           /\ \A i \in DOMAIN u.pktq : u.pktq[i] \in Command /\ u.pktq[i].ref \in Ref
<1>1. u.cpkt \in Command \cup {Nil} /\ u.pktq \in Seq(Command)
    BY DEF Unit
<1>2. Len(u.pktq) \in Nat /\ DOMAIN u.pktq = 1 .. Len(u.pktq) /\ \A i \in DOMAIN u.pktq : u.pktq[i] \in Command
    BY <1>1, LenProperties, ElementOfSeq
<1>3. \A p \in Command : p.ref \in Ref
    BY DEF Command, Ref
<1>4. u.cpkt.ref \in Nat /\ (u.cpkt.ref = 0 <=> u.cpkt = Nil)
    BY <1>1, <1>3 DEF Nil, Ref
<1> QED BY <1>2, <1>3, <1>4

(* One more command at the end of the queue, or to work on. *)
LEMMA LastSorted ==
    ASSUME NEW u \in Unit, Sorted(u), NEW pkt \in Command, \A x \in Ref : Has(u, x) => x < pkt.ref,
           NEW v, v.cpkt = u.cpkt, v.pktq = Append(u.pktq, pkt)
    PROVE  Sorted(v) /\ \A x : Has(v, x) => Has(u, x) \/ x = pkt.ref
<1> DEFINE q == u.pktq
           n == Len(q)
           p == v.pktq
<1>1. /\ n \in Nat /\ DOMAIN q = 1 .. n /\ \A i \in 1 .. n : q[i].ref \in Ref
      /\ u.cpkt.ref \in Nat /\ pkt.ref \in Ref
    BY EntryRefs DEF Command, Ref
<1>2. DOMAIN p = 1 .. n + 1 /\ p[n + 1] = pkt /\ \A i \in 1 .. n : p[i] = q[i]
    <2>1. q \in Seq(Command)
        BY DEF Unit
    <2>2. p \in Seq(Command) /\ Len(p) = n + 1 /\ p[n + 1] = pkt /\ \A i \in 1 .. n : p[i] = q[i]
        BY <2>1, AppendProperties
    <2> HIDE DEF p, n, q
    <2> QED BY <2>2, LenProperties
<1> HIDE DEF n, q, p
<1>3. u.cpkt.ref < pkt.ref /\ \A i \in 1 .. n : q[i].ref < pkt.ref
    <2>1. Has(u, u.cpkt.ref) /\ \A i \in 1 .. n : Has(u, q[i].ref)
        BY <1>1 DEF Has, q
    <2>2. u.cpkt.ref = 0 \/ u.cpkt.ref \in Ref
        BY <1>1 DEF Ref
    <2>3. 0 < pkt.ref
        BY <1>1 DEF Ref
    <2> QED BY <1>1, <2>1, <2>2, <2>3
<1>4. \A i \in DOMAIN p : i \in 1 .. n \/ i = n + 1
    BY <1>1, <1>2
<1>5. \A i \in DOMAIN p : v.cpkt.ref < p[i].ref
    BY <1>1, <1>2, <1>3, <1>4 DEF Sorted, q
<1>6. \A i, j \in DOMAIN p : i < j => p[i].ref < p[j].ref
    BY <1>1, <1>2, <1>3, <1>4 DEF Sorted, q
<1>7. \A x : Has(v, x) => Has(u, x) \/ x = pkt.ref
    BY <1>1, <1>2, <1>4 DEF Has, q, p
<1> QED BY <1>5, <1>6, <1>7 DEF Sorted, p

LEMMA WorkSorted ==
    ASSUME NEW u \in Unit, Sorted(u), u.cpkt = Nil, NEW pkt \in Command, \A x \in Ref : Has(u, x) => pkt.ref < x,
           NEW v, v.cpkt = pkt, v.pktq = u.pktq
    PROVE  Sorted(v) /\ \A x : Has(v, x) => Has(u, x) \/ x = pkt.ref
<1>1. \A i \in DOMAIN u.pktq : pkt.ref < u.pktq[i].ref
    BY EntryRefs DEF Has
<1> QED BY <1>1 DEF Sorted, Has

(* The k-th of the queue q is missing in p. *)
Missing(q, p, k) ==
    /\ k \in DOMAIN q
    /\ \A i \in DOMAIN p : LET j == IF i < k THEN i ELSE i + 1 IN i \in Nat /\ j \in DOMAIN q /\ p[i] = q[j]

LEMMA TailMissing ==
    ASSUME NEW q \in Seq(Command), q # <<>>
    PROVE  Missing(q, Tail(q), 1) /\ Head(q) = q[1]
<1> DEFINE p == Tail(q)
           n == Len(q)
<1>1. /\ p \in Seq(Command) /\ Len(p) = n - 1 /\ n \in Nat /\ n > 0 /\ Head(q) = q[1]
      /\ \A i \in 1 .. n - 1 : p[i] = q[i + 1]
    BY HeadAndTail
<1> HIDE DEF p
<1>2. DOMAIN p = 1 .. n - 1 /\ DOMAIN q = 1 .. n
    BY <1>1, LenProperties
<1> HIDE DEF n
<1>3. ASSUME NEW i \in DOMAIN p PROVE i \in Nat /\ ~(i < 1) /\ i + 1 \in DOMAIN q /\ p[i] = q[i + 1]
    BY <1>1, <1>2
<1>4. 1 \in DOMAIN q
    BY <1>1, <1>2
<1> QED BY <1>1, <1>3, <1>4 DEF Missing, p

LEMMA RemoveMissing ==
    ASSUME NEW q \in Seq(Command), NEW k \in DOMAIN q
    PROVE  Missing(q, RemoveAt(q, k), k)
<1> DEFINE n == Len(q)
           a == SubSeq(q, 1, k - 1)
           b == SubSeq(q, k + 1, n)
           p == RemoveAt(q, k)
<1>1. n \in Nat /\ n >= 1 /\ k \in Nat /\ k >= 1 /\ k <= n /\ DOMAIN q = 1 .. n
    BY LenProperties
<1>2. a \in Seq(Command) /\ Len(a) = k - 1 /\ \A j \in 1 .. k - 1 : a[j] = q[j]
    <2> HIDE DEF n
    <2> QED BY <1>1, SubSeqProperties DEF n
<1>3. b \in Seq(Command) /\ Len(b) = n - k /\ \A j \in 1 .. n - k : b[j] = q[k + j]
    <2> HIDE DEF n
    <2>1. \A j \in k + 1 .. n : q[j] \in Command
        <3>1. \A j \in 1 .. n : q[j] \in Command
            BY ElementOfSeq DEF n
        <3> QED BY <1>1, <3>1
    <2>2. /\ b \in Seq(Command) /\ Len(b) = IF k + 1 <= n THEN n - (k + 1) + 1 ELSE 0
          /\ \A j \in 1 .. n - (k + 1) + 1 : b[j] = q[k + 1 + j - 1]
        BY <1>1, <2>1, SubSeqProperties DEF n
    <2> HIDE DEF b
    <2>3. n - (k + 1) + 1 = n - k /\ k <= n /\ \A j \in 1 .. n - k : k + 1 + j - 1 = k + j
        BY <1>1
    <2> QED BY <1>1, <2>2, <2>3
<1>4. p = a \o b
    BY DEF RemoveAt
<1> HIDE DEF a, b, n
<1>5. /\ a \o b \in Seq(Command) /\ Len(a \o b) = Len(a) + Len(b)
      /\ \A j \in 1 .. Len(a) + Len(b) : (a \o b)[j] = IF j <= Len(a) THEN a[j] ELSE b[j - Len(a)]
    BY <1>2, <1>3, ConcatProperties
<1> HIDE DEF p
<1>6. DOMAIN p = 1 .. n - 1
    <2>1. DOMAIN p = 1 .. Len(p)
        BY <1>4, <1>5, LenProperties
    <2> QED BY <1>1, <1>2, <1>3, <1>4, <1>5, <2>1
<1>7. \A i \in 1 .. n - 1 : p[i] = IF i <= k - 1 THEN a[i] ELSE b[i - (k - 1)]
    <2>1. Len(a) + Len(b) = n - 1 /\ Len(a) = k - 1
        BY <1>1, <1>2, <1>3
    <2> QED BY <1>4, <1>5, <2>1
<1>8. ASSUME NEW i \in 1 .. n - 1, i < k PROVE p[i] = q[i] /\ i \in 1 .. n
    BY <1>1, <1>2, <1>7, <1>8
<1>9. ASSUME NEW i \in 1 .. n - 1, ~(i < k) PROVE p[i] = q[i + 1] /\ i + 1 \in 1 .. n
    <2>1. i - (k - 1) \in 1 .. n - k /\ k + (i - (k - 1)) = i + 1 /\ i + 1 \in 1 .. n /\ ~(i <= k - 1)
        BY <1>1, <1>9
    <2> QED BY <1>3, <1>7, <2>1
<1> QED BY <1>1, <1>6, <1>8, <1>9 DEF Missing, p

LEMMA MissingSorted ==
    ASSUME NEW u \in Unit, Sorted(u), NEW v, v.cpkt = u.cpkt, NEW k, Missing(u.pktq, v.pktq, k)
    PROVE  LET r == u.pktq[k].ref
           IN  /\ Sorted(v) /\ \A x : Has(v, x) => Has(u, x)
               /\ r \in Ref /\ Has(u, r) /\ ~Has(v, r)
               /\ k = 1 /\ u.cpkt = Nil => \A x \in Ref : Has(v, x) => r < x
<1> DEFINE q == u.pktq
           p == v.pktq
           f(i) == IF i < k THEN i ELSE i + 1
<1>1. /\ \A i \in DOMAIN q : q[i].ref \in Ref /\ i \in Nat
      /\ u.cpkt.ref \in Nat /\ k \in DOMAIN q
    BY EntryRefs DEF Missing
<1>2. \A i \in DOMAIN p : i \in Nat /\ f(i) \in DOMAIN q /\ p[i] = q[f(i)] /\ f(i) # k
    BY <1>1 DEF Missing
<1>3. \A i, j \in DOMAIN p : i < j => f(i) < f(j)
    BY <1>1, <1>2
<1>4. k = 1 => \A i \in DOMAIN p : k < f(i)
    <2>1. \A i \in DOMAIN p : f(i) \in Nat /\ f(i) # 0
        BY <1>2, EntryRefs
    <2> QED BY <1>2, <2>1
<1>5. \A i \in DOMAIN q, j \in DOMAIN q : i # j => q[i].ref # q[j].ref
    <2>1. \A i, j \in DOMAIN q : i < j => q[i].ref < q[j].ref
        BY DEF Sorted
    <2> HIDE DEF q
    <2> QED BY <1>1, <2>1 DEF Ref
<1>6. \A i \in DOMAIN q : u.cpkt.ref < q[i].ref
    BY DEF Sorted
<1> HIDE DEF f, p
<1>7. Sorted(v)
    <2>1. \A i \in DOMAIN p : v.cpkt.ref < p[i].ref
        BY <1>2, <1>6
    <2>2. \A i, j \in DOMAIN p : i < j => p[i].ref < p[j].ref
        BY <1>2, <1>3 DEF Sorted
    <2> QED BY <2>1, <2>2 DEF Sorted, p
<1>8. \A x : Has(v, x) => Has(u, x)
    BY <1>2 DEF Has, p
<1>9. q[k].ref \in Ref /\ Has(u, q[k].ref)
    BY <1>1 DEF Has
<1>10. ~Has(v, q[k].ref)
    <2>1. v.cpkt.ref # q[k].ref
        BY <1>1, <1>6 DEF Ref
    <2>2. \A i \in DOMAIN p : p[i].ref # q[k].ref
        BY <1>1, <1>2, <1>5
    <2> QED BY <2>1, <2>2 DEF Has, p
<1>11. ASSUME k = 1, u.cpkt = Nil, NEW x \in Ref, Has(v, x) PROVE q[k].ref < x
    <2>1. PICK i \in DOMAIN p : p[i].ref = x
        BY <1>11 DEF Has, Nil, Ref, p
    <2> QED BY <1>1, <1>2, <1>4, <1>11, <2>1 DEF Sorted
<1> QED BY <1>7, <1>8, <1>9, <1>10, <1>11


LEMMA UnitIs ==
    ASSUME NEW s \in States, NEW d \in Drive, NEW u
    PROVE  AfterUnit(s, WithUnit(s, d, u), d, u)
<1> DEFINE units == [s.unit EXCEPT ![d] = u]
           t == WithUnit(s, d, u)
<1>1. Shaped(s) /\ s.unit \in Drives
    BY StateTypes
<1>2. units[d] = u /\ \A e \in Drive : e # d => units[e] = s.unit[e]
    BY <1>1 DEF Drives
<1>3. t.cp = s.cp /\ t.unit = units /\ t.active = s.active /\ t.comm = s.comm
    <2>1. t = [s EXCEPT !.unit = units]
        BY DEF WithUnit
    <2> HIDE DEF t, units
    <2> QED BY <1>1, <2>1, ShapedUnit
<1> HIDE DEF t
<1> QED BY <1>2, <1>3 DEF AfterUnit, t

(* The drive d becomes v, with the command r at most in addition. *)
LEMMA UnitFate ==
    ASSUME NEW s, NEW h, Fates(s, h), NEW d \in Drive, NEW r, NEW v, Sorted(v),
           \A x \in Ref : Has(v, x) => Has(s.unit[d], x) \/ (x = r /\ Free(s, h, r)),
           NEW t, t.cp = s.cp, t.comm = s.comm, t.unit[d] = v, \A e \in Drive : e # d => t.unit[e] = s.unit[e]
    PROVE  /\ Safe(s, t, h, r)
           /\ \A x \in Ref : Has(s.unit[d], x) /\ ~Has(v, x) => Free(t, h, x)
<1> DEFINE U == s.unit
           V == t.unit
           q == s.cp.rspq
           R == s.comm.rsp
           G == h.got
<1>1. Apart(U, q, R, G) /\ Sorted(V[d]) /\ \A e \in Drive : e # d => V[e] = U[e]
    BY DEF Fates
<1>2. \A x \in Ref : Has(V[d], x) => Has(U[d], x) \/ (x = r /\ Nowhere(U, q, R, G, r))
    BY DEF Free
<1> HIDE DEF U, V, q, R, G
<1>3. /\ Apart(V, q, R, G)
      /\ \A x \in Ref : x # r /\ Nowhere(U, q, R, G, x) => Nowhere(V, q, R, G, x)
      /\ \A x \in Ref : Has(U[d], x) /\ ~Has(V[d], x) => Nowhere(V, q, R, G, x)
    BY <1>1, <1>2, DriveFate
<1>4. q = t.cp.rspq /\ R = t.comm.rsp
    BY DEF q, R
<1> QED BY <1>3, <1>4 DEF Safe, Spares, SameLine, Fates, Free, U, V, q, R, G

LEMMA UnitsIs ==
    ASSUME NEW s, NEW h, NEW k, NEW c, Base(s, h, k, c), NEW d \in Drive
    PROVE  s \in States /\ s.unit[d] \in Unit /\ (Fates(s, h) => Sorted(s.unit[d]))
<1>1. s \in States
    BY DEF Base
<1>2. s.unit[d] \in Unit
    BY <1>1, UnitTypes
<1> QED BY <1>1, <1>2 DEF Fates, Apart, Separate

(***************************************************************************)
(* Commands.  One in hand goes behind those that wait, and one that begins *)
(* comes before them.                                                      *)
(***************************************************************************)
Fits(s, pkt) ==
    pkt.unit \in Drive =>
        \A x \in Ref : Has(s.unit[pkt.unit], x) => IF Busy(s, pkt) THEN x < pkt.ref ELSE pkt.ref < x

(* A command in hand that is nowhere else. *)
InHand(s, h, pkt) ==
    /\ Base(s, h, 1, 1) /\ Fates(s, h) /\ pkt \in Command /\ Free(s, h, pkt.ref) /\ Fits(s, pkt)

LEMMA AnsweredFate ==
    ASSUME NEW s, NEW h, NEW pkt \in Command, NEW sts \in Sts, Base(s, h, 1, 1), Fates(s, h), Free(s, h, pkt.ref)
    PROVE  Safe(s, Answer(s, pkt, sts), h, pkt.ref)
<1>1. Base(s, h, 0 + 1, 1)
    OBVIOUS
<1> QED BY <1>1, AnswerFate, RefNat

LEMMA DeferFate ==
    ASSUME NEW s, NEW h, NEW pkt, InHand(s, h, pkt), pkt.unit \in Drive, Busy(s, pkt)
    PROVE  Safe(s, Defer(s, pkt), h, pkt.ref)
<1> DEFINE d == pkt.unit
           u == s.unit[d]
           v == [u EXCEPT !.pktq = Append(u.pktq, pkt)]
           t == WithUnit(s, d, v)
<1>1. /\ Base(s, h, 1, 1) /\ Fates(s, h) /\ pkt \in Command /\ Free(s, h, pkt.ref)
      /\ \A x \in Ref : Has(u, x) => x < pkt.ref
    BY DEF InHand, Fits
<1>2. s \in States /\ u \in Unit /\ Sorted(u)
    BY <1>1, UnitsIs
<1>3. v.cpkt = u.cpkt /\ v.pktq = Append(u.pktq, pkt)
    BY <1>2 DEF Unit
<1>4. AfterUnit(s, t, d, v)
    <2> HIDE DEF v
    <2> QED BY <1>2, UnitIs
<1>5. Defer(s, pkt) = t
    BY DEF Defer, WithUnit
<1> HIDE DEF t, v
<1>6. Sorted(v) /\ \A x : Has(v, x) => Has(u, x) \/ x = pkt.ref
    <2> HIDE DEF u
    <2> QED BY <1>1, <1>2, <1>3, LastSorted
<1> QED BY <1>1, <1>4, <1>5, <1>6, UnitFate DEF AfterUnit

LEMMA OnlineFate ==
    ASSUME NEW s, NEW h, NEW pkt, InHand(s, h, pkt), pkt.unit \in Drive, NEW sts \in Sts, NEW onl \in BOOLEAN
    PROVE  Safe(s, Answer(Online(s, pkt.unit, onl), pkt, sts), h, pkt.ref)
<1> DEFINE d == pkt.unit
           u == [s.unit[d] EXCEPT !.onl = onl]
           t == WithUnit(s, d, u)
<1>1. /\ Base(s, h, 1, 1) /\ Fates(s, h) /\ pkt \in Command /\ Free(s, h, pkt.ref)
      /\ s \in States /\ s.unit[d] \in Unit
    BY UnitsIs DEF InHand
<1>2. u \in Unit /\ u.cpkt = s.unit[d].cpkt /\ u.pktq = s.unit[d].pktq
    BY <1>1 DEF Unit
<1>3. Base(t, h, 1, 1) /\ AfterUnit(s, t, d, u)
    <2> HIDE DEF u
    <2> QED BY <1>1, <1>2, UnitTouched
<1>4. Online(s, pkt.unit, onl) = t
    BY DEF WithUnit, Online
<1> HIDE DEF t, u
<1>5. Alongside(s, t)
    BY <1>2, <1>3 DEF AfterUnit, Alongside
<1>6. Fates(t, h) /\ Free(t, h, pkt.ref) /\ Safe(s, t, h, 0)
    BY <1>1, <1>3, <1>5, AlongsideSpares DEF AfterUnit, Safe, Spares, SameLine
<1>7. Safe(t, Answer(t, pkt, sts), h, pkt.ref)
    BY <1>1, <1>3, <1>6, AnsweredFate
<1> QED BY <1>4, <1>6, <1>7, SafeThen

(* The commands that wait for their drive. *)
LEMMA SequentialFate ==
    ASSUME NEW s, NEW h, NEW pkt, InHand(s, h, pkt), pkt.unit \in Drive, NEW q \in BOOLEAN
    PROVE  /\ Safe(s, rq_avl(s, pkt, q), h, pkt.ref)
           /\ Safe(s, rq_onl(s, pkt, q), h, pkt.ref)
           /\ Safe(s, rq_suc(s, pkt, q), h, pkt.ref)
           /\ Safe(s, rq_fmt(s, pkt, q), h, pkt.ref)
<1>1. Busy(s, pkt) => Safe(s, Defer(s, pkt), h, pkt.ref)
    BY DeferFate
<1>2. \A sts \in Sts : Safe(s, Answer(s, pkt, sts), h, pkt.ref)
    BY AnsweredFate DEF InHand
<1>3. \A sts \in Sts, onl \in BOOLEAN : Safe(s, Answer(Online(s, pkt.unit, onl), pkt, sts), h, pkt.ref)
    BY OnlineFate
<1>4. {"SUC", "OFL", "CMD"} \subseteq Sts
    BY DEF Sts
<1>5. Safe(s, rq_avl(s, pkt, q), h, pkt.ref)
    BY <1>1, <1>3, <1>4 DEF rq_avl, Online
<1>6. Safe(s, rq_onl(s, pkt, q), h, pkt.ref)
    BY <1>1, <1>2, <1>3, <1>4 DEF rq_onl, Online
<1>7. Safe(s, rq_suc(s, pkt, q), h, pkt.ref)
    BY <1>1, <1>2, <1>4 DEF rq_suc
<1>8. Safe(s, rq_fmt(s, pkt, q), h, pkt.ref)
    BY <1>1, <1>2, <1>4 DEF rq_fmt
<1> QED BY <1>5, <1>6, <1>7, <1>8

LEMMA RwFate ==
    ASSUME NEW s, NEW h, NEW pkt, InHand(s, h, pkt), pkt.unit \in Drive, NEW q \in BOOLEAN, q \/ ~Busy(s, pkt)
    PROVE  Safe(s, rq_rw(s, pkt, q), h, pkt.ref)
<1> DEFINE d == pkt.unit
           u == s.unit[d]
           sts == rq_rw_valid(s, pkt)
           v == [u EXCEPT !.cpkt = pkt]
           t == WithUnit(s, d, v)
<1>1. CASE q /\ Busy(s, pkt)
    <2>1. rq_rw(s, pkt, q) = Defer(s, pkt)
        BY <1>1 DEF rq_rw
    <2> QED BY <1>1, <2>1, DeferFate
<1>2. CASE ~Busy(s, pkt) /\ sts # "ok"
    <2>1. sts \in {"OFL", "AVL", "CMD", "ok"}
        BY DEF rq_rw_valid
    <2>2. rq_rw(s, pkt, q) = Answer(s, pkt, sts)
        BY <1>2 DEF rq_rw
    <2> QED BY <1>2, <2>1, <2>2, AnsweredFate DEF InHand, Sts
<1>3. CASE ~Busy(s, pkt) /\ sts = "ok"
    <2>1. /\ Base(s, h, 1, 1) /\ Fates(s, h) /\ pkt \in Command /\ Free(s, h, pkt.ref) /\ u.cpkt = Nil
          /\ \A x \in Ref : Has(u, x) => pkt.ref < x
        BY <1>3 DEF InHand, Fits, Busy
    <2>2. s \in States /\ u \in Unit /\ Sorted(u)
        BY <2>1, UnitsIs
    <2>3. v.cpkt = pkt /\ v.pktq = u.pktq
        BY <2>2 DEF Unit
    <2>4. AfterUnit(s, t, d, v)
        <3> HIDE DEF v
        <3> QED BY <2>2, UnitIs
    <2>5. rq_rw(s, pkt, q) = Activate(t, d)
        BY <1>3 DEF rq_rw, WithUnit
    <2> HIDE DEF t, v
    <2>6. Sorted(v) /\ \A x : Has(v, x) => Has(u, x) \/ x = pkt.ref
        <3> HIDE DEF u
        <3> QED BY <2>1, <2>2, <2>3, WorkSorted
    <2>7. Safe(s, t, h, pkt.ref)
        BY <2>1, <2>4, <2>6, UnitFate DEF AfterUnit
    <2>8. Safe(t, Activate(t, d), h, 0)
        <3> DEFINE x == Activate(t, d)
        <3>1. x.cp = t.cp /\ x.unit = t.unit /\ x.comm = t.comm
            <4>1. Shaped(s)
                BY <2>2, StateTypes
            <4>2. Shaped(t)
                BY <4>1 DEF Shaped, t, WithUnit
            <4> QED BY <4>2, ShapedActive DEF Activate
        <3> HIDE DEF x
        <3>2. Fates(t, h)
            BY <2>7 DEF Safe, Spares
        <3> QED BY <3>1, <3>2, AlongsideSafe DEF Safe, SameLine, x
    <2> QED BY <2>5, <2>7, <2>8, SafeAfter
<1> QED BY <1>1, <1>2, <1>3

LEMMA SccFate ==
    ASSUME NEW s, NEW h, NEW pkt, InHand(s, h, pkt)
    PROVE  Safe(s, rq_scc(s, pkt), h, pkt.ref)
<1> DEFINE w == IF pkt.tmo THEN Htmo ELSE 0
           m == [s.cp EXCEPT !.ths = pkt.ths, !.htmo = w]
           t == WithCp(s, m)
<1>1. /\ Base(s, h, 1, 1) /\ Fates(s, h) /\ pkt \in Command /\ Free(s, h, pkt.ref)
      /\ s.cp \in Msc /\ pkt.ths \in BOOLEAN
    BY StateTypes DEF InHand, Base, Command
<1>2. m \in Msc /\ SameMsc(s.cp, m) /\ m.cidx = s.cp.cidx
    <2>1. w \in Nat
        BY Lengths
    <2> HIDE DEF w
    <2> QED BY <1>1, <2>1 DEF Msc, SameMsc
<1>3. Base(t, h, 1, 1) /\ AfterCp(s, t, m)
    <2> HIDE DEF m
    <2> QED BY <1>1, <1>2, CpBase
<1>4. rq_scc(s, pkt) = Answer(t, pkt, "SUC")
    BY DEF rq_scc, WithCp
<1> HIDE DEF t, m
<1>5. Safe(s, t, h, 0) /\ Free(t, h, pkt.ref)
    BY <1>1, <1>2, <1>3, AlongsideSafe DEF AfterCp, SameMsc, Safe, SameLine
<1>6. Safe(t, Answer(t, pkt, "SUC"), h, pkt.ref)
    BY <1>1, <1>3, <1>5, AnsweredFate DEF Safe, Spares, Sts
<1> QED BY <1>4, <1>5, <1>6, SafeThen


(* The drive's transfer, or the i-th command of its queue, is taken away   *)
(* and free to be answered.                                                *)
LEMMA StoppedFate ==
    ASSUME NEW s, NEW h, NEW k, NEW c, Base(s, h, k, c), Fates(s, h), NEW d \in Drive, s.unit[d].cpkt # Nil,
           NEW t, AfterStopped(s, t, d)
    PROVE  Safe(s, t, h, 0) /\ s.unit[d].cpkt \in Command /\ Free(t, h, s.unit[d].cpkt.ref)
<1> DEFINE u == s.unit[d]
           v == t.unit[d]
           r == u.cpkt.ref
<1>1. u \in Unit /\ Sorted(u) /\ u.cpkt \in Command
    BY UnitsIs DEF Unit
<1>2. v.cpkt = Nil /\ v.pktq = u.pktq
    BY DEF AfterStopped
<1>3. r \in Ref /\ \A i \in DOMAIN u.pktq : u.pktq[i].ref \in Ref
    <2> HIDE DEF u
    <2> QED BY <1>1, EntryRefs DEF Command, Ref
<1> HIDE DEF u, v
<1>4. Sorted(v) /\ \A x \in Ref : Has(v, x) => Has(u, x)
    BY <1>1, <1>2, <1>3 DEF Sorted, Has, Nil, Ref
<1>5. Has(u, r) /\ ~Has(v, r)
    BY <1>1, <1>2, <1>3 DEF Sorted, Has, Nil, Ref
<1>6. /\ Safe(s, t, h, 0)
      /\ \A x \in Ref : Has(u, x) /\ ~Has(v, x) => Free(t, h, x)
    BY <1>4, UnitFate DEF AfterStopped, u, v
<1> QED BY <1>1, <1>3, <1>5, <1>6 DEF u

LEMMA CurrentFate ==
    ASSUME NEW s, NEW h, NEW k \in Nat, NEW c \in Nat, Base(s, h, k, c), Fates(s, h),
           NEW d \in Drive, s.unit[d].cpkt # Nil
    PROVE  LET t == WithoutCurrent(s, d)
           IN  Safe(s, t, h, 0) /\ s.unit[d].cpkt \in Command /\ Free(t, h, s.unit[d].cpkt.ref)
<1> DEFINE v == Stopped(s, d)
           evs == (s.active \ {d}) \cup {QUEUE}
           t == WithActive(v, evs)
           r == s.unit[d].cpkt.ref
<1>1. Base(v, h, k + 1, c + 1) /\ AfterStopped(s, v, d)
    BY CurrentStopped
<1>2. WithoutCurrent(s, d) = t
    <2>1. v.active = s.active /\ v = [s EXCEPT !.unit[d].cpkt = Nil]
        BY <1>1 DEF AfterStopped, Stopped
    <2> QED BY <2>1 DEF WithActive, WithoutCurrent
<1> HIDE DEF v
<1>3. Safe(s, v, h, 0) /\ s.unit[d].cpkt \in Command /\ Free(v, h, r)
    BY <1>1, StoppedFate
<1>4. t.cp = v.cp /\ t.unit = v.unit /\ t.comm = v.comm
    <2>1. Shaped(v)
        BY <1>1, StateTypes DEF Base
    <2> HIDE DEF evs
    <2> QED BY <2>1, ShapedActive DEF WithActive
<1> HIDE DEF t
<1>5. Safe(v, t, h, 0) /\ Free(t, h, r)
    BY <1>3, <1>4, AlongsideSafe DEF Safe, Spares, SameLine
<1> QED BY <1>2, <1>3, <1>5, SafeThen

LEMMA QueueLessFate ==
    ASSUME NEW s, NEW h, NEW k, NEW c, Base(s, h, k, c), Fates(s, h), NEW d \in Drive, NEW q, NEW i,
           Missing(s.unit[d].pktq, q, i)
    PROVE  LET t == WithQueue(s, d, q)
               p == s.unit[d].pktq[i]
           IN  /\ Safe(s, t, h, 0) /\ Free(t, h, p.ref) /\ ~Free(s, h, p.ref) /\ p.ref \in Ref
               /\ i = 1 /\ s.unit[d].cpkt = Nil => \A x \in Ref : Has(t.unit[d], x) => p.ref < x
<1> DEFINE u == s.unit[d]
           v == [u EXCEPT !.pktq = q]
           t == WithQueue(s, d, q)
           r == u.pktq[i].ref
<1>1. s \in States /\ u \in Unit /\ Sorted(u)
    BY UnitsIs
<1>2. v.cpkt = u.cpkt /\ v.pktq = q
    BY <1>1 DEF Unit
<1>3. AfterUnit(s, t, d, v)
    <2> HIDE DEF v
    <2> QED BY <1>1, UnitIs DEF WithQueue, v
<1> HIDE DEF t, v
<1>4. Missing(u.pktq, v.pktq, i)
    BY <1>2
<1>5. /\ Sorted(v) /\ \A x : Has(v, x) => Has(u, x)
      /\ r \in Ref /\ Has(u, r) /\ ~Has(v, r)
      /\ i = 1 /\ u.cpkt = Nil => \A x \in Ref : Has(v, x) => r < x
    <2> HIDE DEF u
    <2> QED BY <1>1, <1>2, <1>4, MissingSorted
<1>6. /\ Safe(s, t, h, 0)
      /\ \A x \in Ref : Has(u, x) /\ ~Has(v, x) => Free(t, h, x)
    BY <1>3, <1>5, UnitFate DEF AfterUnit
<1>7. ~Free(s, h, r)
    BY <1>5 DEF Free, Nowhere, HeldBy
<1> QED BY <1>3, <1>5, <1>6, <1>7 DEF AfterUnit, t

LEMMA FoundFate ==
    ASSUME NEW s, NEW h, NEW pkt \in Command, pkt.unit \in Drive, Between(s, h), Fates(s, h)
    PROVE  Safe(s, Found(s, pkt), h, 0)
<1> DEFINE d == pkt.unit
           u == s.unit[d]
           i == Min(Waiting(s, pkt))
<1>1. Base(s, h, 1, 1) /\ 1 + 1 = 2 /\ u.pktq \in Seq(Command)
    BY UnitTypes DEF Between, Base
<1>2. CASE Current(s, pkt)
    <2> DEFINE t == WithoutCurrent(s, d)
               r == u.cpkt.ref
    <2>1. u.cpkt # Nil /\ Timed(s.unit, s.active)
        BY <1>2 DEF Current, Busy, Between
    <2>2. Base(t, h, 2, 2) /\ t.cp = s.cp
        <3>1. Base(s, h, 1, 1) /\ u.cpkt # Nil /\ 1 + 1 = 2
            BY <1>1, <2>1
        <3> QED BY <2>1, <3>1, CurrentDropped
    <2>3. Safe(s, t, h, 0) /\ u.cpkt \in Command /\ Free(t, h, r)
        BY <1>1, <2>1, CurrentFate
    <2>4. ~Free(s, h, r)
        BY DEF Free, Nowhere, HeldBy, Has
    <2>5. Found(s, pkt) = Answer(t, u.cpkt, "ABO")
        BY <1>2 DEF Found
    <2> HIDE DEF t
    <2>6. Safe(t, Answer(t, u.cpkt, "ABO"), h, r)
        BY <1>1, <2>2, <2>3, RefNat, AnswerFate DEF Safe, Spares, Sts
    <2> QED BY <2>3, <2>4, <2>5, <2>6, SafeThen
<1>3. CASE ~Current(s, pkt) /\ Waiting(s, pkt) # {}
    <2> DEFINE q == RemoveAt(u.pktq, i)
               t == WithQueue(s, d, q)
               p == u.pktq[i]
    <2>1. i \in DOMAIN u.pktq
        <3>1. Waiting(s, pkt) \subseteq DOMAIN u.pktq /\ DOMAIN u.pktq \subseteq Nat
            BY <1>1, LenProperties DEF Waiting
        <3> QED BY <1>3, <3>1, MinIs
    <2>2. Missing(u.pktq, q, i)
        <3> HIDE DEF i
        <3> QED BY <1>1, <2>1, RemoveMissing
    <2>3. t = WithoutWaiting(s, d, i)
        BY DEF WithoutWaiting, WithQueue, WithUnit
    <2>4. Base(t, h, 1 + 1, 2)
        <3> HIDE DEF t, i
        <3> QED BY <1>1, <2>1, <2>3, WaitingDropped
    <2>5. Found(s, pkt) = Answer(t, p, "ABO")
        BY <1>3, <2>3 DEF Found
    <2> HIDE DEF q, i
    <2>6. Safe(s, t, h, 0) /\ Free(t, h, p.ref) /\ ~Free(s, h, p.ref) /\ p.ref \in Ref
        BY <1>1, <2>2, QueueLessFate
    <2> HIDE DEF t
    <2>7. Safe(t, Answer(t, p, "ABO"), h, p.ref)
        BY <2>4, <2>6, AnswerFate DEF Safe, Spares, Sts, Ref
    <2> QED BY <2>5, <2>6, <2>7, SafeThen
<1>4. CASE ~Current(s, pkt) /\ Waiting(s, pkt) = {}
    <2>1. Found(s, pkt) = s
        BY <1>4 DEF Found
    <2> QED BY <2>1 DEF Safe, Spares, SameLine
<1> QED BY <1>2, <1>3, <1>4

(* rq_mscp of a command in hand.                                           *)
LEMMA MscpFate ==
    ASSUME NEW s, NEW h, NEW pkt, NEW q \in BOOLEAN, Between(s, h), InHand(s, h, pkt),
           pkt.unit \in Drive => q \/ ~Busy(s, pkt)
    PROVE  Safe(s, rq_mscp(s, pkt, q), h, pkt.ref)
<1> DEFINE f == rq_mscp(s, pkt, q)
           r == pkt.ref
<1>1. Base(s, h, 1, 1) /\ Fates(s, h) /\ pkt \in Command /\ Free(s, h, r) /\ r \in Ref
    BY DEF InHand, Command, Ref
<1>2. Safe(s, Answer(s, pkt, "OFL"), h, r) /\ Safe(s, Answer(s, pkt, "SUC"), h, r)
    BY <1>1, AnsweredFate DEF Sts
<1>3. CASE pkt.op \in Sequential /\ pkt.unit \notin Drive
    <2>1. f = Answer(s, pkt, "OFL")
        BY <1>3 DEF rq_mscp
    <2> QED BY <1>2, <2>1
<1>4. CASE ~(pkt.op \in Sequential /\ pkt.unit \notin Drive)
    <2>1. CASE pkt.op = "SCC"
        <3>1. f = rq_scc(s, pkt)
            BY <1>4, <2>1 DEF Sequential, Transfers, rq_mscp
        <3> QED BY <3>1, SccFate
    <2>2. CASE pkt.op = "ABO" /\ pkt.unit \in Drive
        <3> DEFINE t == Found(s, pkt)
        <3>1. f = Answer(t, pkt, "SUC")
            BY <1>4, <2>2 DEF Sequential, Transfers, rq_mscp, rq_abo
        <3>2. Base(t, h, 1, 1) /\ Safe(s, t, h, 0)
            BY <1>1, <2>2, FoundBetween, FoundFate DEF Between
        <3> HIDE DEF t
        <3>3. Fates(t, h) /\ Free(t, h, r)
            BY <1>1, <3>2 DEF Safe, Spares, Ref
        <3>4. Safe(t, Answer(t, pkt, "SUC"), h, r)
            BY <1>1, <3>2, <3>3, AnsweredFate DEF Sts
        <3> QED BY <3>1, <3>2, <3>4, SafeThen
    <2>3. CASE pkt.op \in {"AVL", "ONL", "SUC", "FMT"}
        <3>1. /\ pkt.unit \in Drive
              /\ f \in {rq_avl(s, pkt, q), rq_onl(s, pkt, q), rq_suc(s, pkt, q), rq_fmt(s, pkt, q)}
            BY <1>4, <2>3 DEF Sequential, Transfers, rq_mscp
        <3> QED BY <3>1, SequentialFate
    <2>4. CASE pkt.op \in Transfers
        <3>1. pkt.unit \in Drive /\ f = rq_rw(s, pkt, q)
            BY <1>4, <2>4 DEF Sequential, Transfers, rq_mscp
        <3> QED BY <3>1, RwFate
    <2>5. CASE /\ pkt.op \notin {"SCC", "AVL", "ONL", "SUC", "FMT"} \cup Transfers
               /\ ~(pkt.op = "ABO" /\ pkt.unit \in Drive)
        <3>1. f = Answer(s, pkt, "SUC")
            BY <1>4, <2>5 DEF rq_mscp
        <3> QED BY <1>2, <3>1
    <2> HIDE DEF f
    <2> QED BY <2>1, <2>2, <2>3, <2>4, <2>5
<1> QED BY <1>3, <1>4


(***************************************************************************)
(* The queue thread.  Where it takes a packet off a drive's queue nothing  *)
(* is in the way of what begins.                                           *)
(***************************************************************************)
LEMMA FromDriveFate ==
    ASSUME NEW h, NEW d \in Drive, NEW w, Ended(w.s, h), Fates(w.s, h)
    PROVE  Safe(w.s, FromDrive(w, d).s, h, 0)
<1> DEFINE u == w.s.unit[d]
           q == Tail(u.pktq)
           t == WithQueue(w.s, d, q)
           p == Head(u.pktq)
<1>1. /\ Base(w.s, h, 0, 0) /\ w.s \in States /\ w.s.cp.csta = "UP" /\ OwnCommands(w.s.unit)
      /\ Timed(w.s.unit, w.s.active) /\ Slack(w.s)
    BY DEF Ended, Base
<1>2. CASE u.cpkt # Nil \/ u.pktq = <<>>
    <2>1. FromDrive(w, d) = w
        BY <1>2 DEF FromDrive
    <2> QED BY <2>1 DEF Safe, Spares, SameLine
<1>3. CASE u.cpkt = Nil /\ u.pktq # <<>>
    <2>1. u.pktq \in Seq(Command)
        BY <1>1, UnitTypes
    <2>2. Missing(u.pktq, q, 1) /\ p = u.pktq[1]
        BY <1>3, <2>1, TailMissing
    <2>3. p \in Command /\ q \in Seq(Command) /\ Len(u.pktq) = Len(q) + 1 /\ 1 \in DOMAIN u.pktq
        <3>1. /\ p \in Command /\ q \in Seq(Command) /\ Len(q) = Len(u.pktq) - 1 /\ Len(u.pktq) \in Nat
              /\ Len(u.pktq) > 0
            BY <1>3, <2>1, HeadAndTail
        <3> HIDE DEF q, p
        <3> QED BY <2>2, <3>1 DEF Missing
    <2> HIDE DEF q, p
    <2>4. Taken(w.s, d, q)
        BY <2>2, <2>3 DEF Missing, Taken
    <2>5. p.unit = d
        BY <1>1, <2>2, <2>3 DEF OwnCommands, Owns
    <2>6. Base(t, h, 0 + 1, 0 + 1) /\ Beside(w.s, t)
        BY <1>1, <2>4, TakenBase
    <2>7. /\ Safe(w.s, t, h, 0) /\ Free(t, h, p.ref) /\ ~Free(w.s, h, p.ref) /\ p.ref \in Ref
          /\ \A x \in Ref : Has(t.unit[d], x) => p.ref < x
        BY <1>1, <1>3, <2>2, QueueLessFate
    <2>8. FromDrive(w, d).s = rq_mscp(t, p, FALSE)
        <3>1. ~Dead(w.s)
            BY <1>1 DEF Dead
        <3>2. t = [w.s EXCEPT !.unit[d].pktq = q]
            BY DEF WithQueue, WithUnit
        <3>3. FromDrive(w, d) = [s |-> rq_mscp([w.s EXCEPT !.unit[d].pktq = q], p, FALSE), work |-> TRUE]
            BY <1>3, <3>1 DEF FromDrive, q, p
        <3> QED BY <3>2, <3>3
    <2> HIDE DEF t
    <2>9. Between(t, h) /\ ~Busy(t, p)
        BY <1>1, <1>3, <2>5, <2>6, TimedBeside DEF Between, Beside, Slack, LastEnds, Busy
    <2>10. InHand(t, h, p)
        BY <2>3, <2>5, <2>7, <2>9 DEF InHand, Fits, Between, Safe, Spares
    <2>11. Safe(t, rq_mscp(t, p, FALSE), h, p.ref)
        BY <2>9, <2>10, MscpFate
    <2>12. Safe(w.s, rq_mscp(t, p, FALSE), h, 0)
        BY <2>7, <2>11, SafeThen
    <2> QED BY <2>8, <2>12
<1> QED BY <1>2, <1>3

LEMMA FromDrivesFate ==
    ASSUME NEW s, NEW h, Ended(s, h), Fates(s, h)
    PROVE  Safe(s, FromDrives(s).s, h, 0)
<1>1. PICK b : Following(b, NumDrives, s) /\ FromDrives(s) = b[NumDrives]
    BY FollowingExists
<1> DEFINE B == {m \in Nat : m <= NumDrives => Worked(b[m], s, h, m) /\ Safe(s, b[m].s, h, 0)}
<1>2. 0 \in B
    <2>1. b[0].s = s /\ b[0].work = FALSE
        BY <1>1 DEF Following
    <2>2. 0 .. 0 - 1 = {} /\ FALSE \in BOOLEAN
        OBVIOUS
    <2>3. Worked(b[0], s, h, 0)
        BY <2>1, <2>2 DEF Worked
    <2>4. Safe(s, b[0].s, h, 0)
        BY <2>1 DEF Safe, Spares, SameLine
    <2> QED BY <2>3, <2>4
<1>3. ASSUME NEW m \in B PROVE m + 1 \in B
    <2>0. m \in Nat /\ m + 1 \in Nat /\ (m <= NumDrives => Worked(b[m], s, h, m) /\ Safe(s, b[m].s, h, 0))
        OBVIOUS
    <2> SUFFICES ASSUME m + 1 <= NumDrives PROVE Worked(b[m + 1], s, h, m + 1) /\ Safe(s, b[m + 1].s, h, 0)
        BY <2>0
    <2>1. /\ Worked(b[m], s, h, m) /\ Safe(s, b[m].s, h, 0)
          /\ m \in Drive /\ m + 1 \in 1 .. NumDrives /\ (m + 1) - 1 = m
        BY <2>0, Lengths DEF Drive
    <2>2. b[m + 1] = FromDrive(b[m], m)
        BY <1>1, <2>1 DEF Following
    <2>3. Worked(b[m + 1], s, h, m + 1)
        BY <2>1, <2>2, FromDriveWorked
    <2>4. Safe(b[m].s, b[m + 1].s, h, 0)
        BY <2>1, <2>2, FromDriveFate DEF Worked, Safe, Spares
    <2>5. Safe(s, b[m + 1].s, h, 0)
        BY <2>1, <2>4, SafeAfter
    <2> QED BY <2>3, <2>5
<1>4. NumDrives \in B
    <2> B \in SUBSET Nat
        OBVIOUS
    <2> HIDE DEF B
    <2> QED BY <1>2, <1>3, Lengths, SetInduction
<1> QED BY <1>1, <1>4

(* Safe steps keep what is known of the commands, and others too where the *)
(* controller is not up.                                                   *)
LEMMA SafeInv ==
    ASSUME NEW s, NEW h, FateInv(s, h), NEW t, Safe(s, t, h, 0), t.cp.csta = "UP" => s.cp.csta = "UP"
    PROVE  FateInv(t, h)
<1>1. Fates(t, h)
    BY DEF Safe, Spares
<1>2. PICK n \in 0 .. CmdLen : Ahead(s, h, n) /\ (s.cp.csta = "UP" => InLine(s, h, n))
    BY DEF FateInv
<1>3. Ahead(t, h, n)
    BY <1>2 DEF Ahead, Safe, Spares, Ref
<1>4. t.cp.csta = "UP" => InLine(t, h, n)
    BY <1>2 DEF InLine, Safe, SameLine
<1> QED BY <1>1, <1>3, <1>4 DEF FateInv

LEMMA SparesInv ==
    ASSUME NEW s, NEW h, FateInv(s, h), NEW t, Spares(s, t, h, 0), t.cp.csta # "UP"
    PROVE  FateInv(t, h)
<1>1. PICK n \in 0 .. CmdLen : Ahead(s, h, n)
    BY DEF FateInv
<1>2. Ahead(t, h, n) /\ Fates(t, h)
    BY <1>1 DEF Ahead, Spares, Ref
<1> QED BY <1>2 DEF FateInv

(* Nothing is left in the controller, whose rings are as they were. *)
LEMMA EmptiedFate ==
    ASSUME NEW s, NEW h, Fates(s, h), NEW t, t.cp.rspq = <<>>, t.comm.rsp = s.comm.rsp,
           \A d \in Drive : t.unit[d].cpkt = Nil /\ t.unit[d].pktq = <<>>
    PROVE  Spares(s, t, h, 0)
<1>1. DOMAIN <<>> = {}
    OBVIOUS
<1>2. \A d \in Drive : Sorted(t.unit[d]) /\ \A x \in Ref : ~Has(t.unit[d], x)
    BY <1>1 DEF Sorted, Has, Nil, Ref
<1>3. Separate(t.unit) /\ \A x \in Ref : ~HeldBy(t.unit, x)
    BY <1>2 DEF Separate, HeldBy
<1>4. Single(t.cp.rspq) /\ \A x : ~Queued(t.cp.rspq, x)
    BY <1>1 DEF Single, Queued
<1> QED BY <1>3, <1>4 DEF Spares, Fates, Free, Apart, Nowhere

LEMMA FatalFate ==
    ASSUME NEW s \in States, s.cp.perr # "NSR", NEW h \in Hosts, Fates(s, h), NEW err \in {"PRE", "PIE", "QWE", "PPF", "HAT"}
    PROVE  Spares(s, rq_fatal(s, err), h, 0)
<1> DEFINE t == rq_fatal(s, err)
<1>1. Rest(t, h)
    BY FatalRests
<1>2. t.comm = s.comm
    BY StateTypes, DeadIs DEF AfterDead
<1> HIDE DEF t
<1> QED BY <1>1, <1>2, EmptiedFate DEF Rest, t


(***************************************************************************)
(* The commands in the host's ring.                                        *)
(***************************************************************************)
LEMMA Backs ==
    ASSUME NEW to \in 0 .. CmdLen - 1, NEW n \in 0 .. CmdLen
    PROVE  /\ \A i \in 0 .. CmdLen - 1 : Back(i, to) \in 1 .. CmdLen
           /\ n > 0 => /\ Back(Spot(to, n), to) = n
                       /\ (Spot(to, n) + 1) % CmdLen = Spot(to, n - 1)
                       /\ \A i \in 0 .. CmdLen - 1 : Back(i, to) = n => i = Spot(to, n)
           /\ n = 0 => Back(Spot(to, n), to) = CmdLen
           /\ Back(to, to) = CmdLen
           /\ LET next == (to + 1) % CmdLen
              IN  /\ n < CmdLen => Spot(next, n + 1) = Spot(to, n)
                  /\ Back(to, next) = 1
                  /\ \A i \in 0 .. CmdLen - 1 : i # to => Back(i, next) = Back(i, to) + 1
<1>1. CmdLen \in Nat /\ CmdLen > 0
    BY Lengths
<1>2. \A i \in 0 .. CmdLen - 1 : (i + 1) % CmdLen = IF i = CmdLen - 1 THEN 0 ELSE i + 1
    BY <1>1, Around
<1>3. Spot(to, n) \in 0 .. CmdLen - 1
    BY <1>1 DEF Spot
<1>4. (to + 1) % CmdLen = (IF to = CmdLen - 1 THEN 0 ELSE to + 1)
      /\ (Spot(to, n) + 1) % CmdLen = (IF Spot(to, n) = CmdLen - 1 THEN 0 ELSE Spot(to, n) + 1)
    BY <1>2, <1>3
<1>5. \A i \in 0 .. CmdLen - 1 : Back(i, to) \in 1 .. CmdLen
    BY <1>1 DEF Back
<1>6. ASSUME n > 0
      PROVE  /\ Back(Spot(to, n), to) = n
             /\ (Spot(to, n) + 1) % CmdLen = Spot(to, n - 1)
             /\ \A i \in 0 .. CmdLen - 1 : Back(i, to) = n => i = Spot(to, n)
    <2>1. Back(Spot(to, n), to) = n
        BY <1>1, <1>6 DEF Back, Spot
    <2>2. (IF Spot(to, n) = CmdLen - 1 THEN 0 ELSE Spot(to, n) + 1) = Spot(to, n - 1)
        BY <1>1, <1>6 DEF Spot
    <2>3. \A i \in 0 .. CmdLen - 1 : Back(i, to) = n => i = Spot(to, n)
        BY <1>1, <1>6 DEF Back, Spot
    <2> QED BY <1>4, <2>1, <2>2, <2>3
<1>7. (n = 0 => Back(Spot(to, n), to) = CmdLen) /\ Back(to, to) = CmdLen
    BY <1>1 DEF Back, Spot
<1> DEFINE next == (to + 1) % CmdLen
<1>8. next = (IF to = CmdLen - 1 THEN 0 ELSE to + 1)
    BY <1>4
<1> HIDE DEF next
<1>9. (n < CmdLen => Spot(next, n + 1) = Spot(to, n)) /\ Back(to, next) = 1
    BY <1>1, <1>8 DEF Back, Spot
<1>10. \A i \in 0 .. CmdLen - 1 : i # to => Back(i, next) = Back(i, to) + 1
    BY <1>1, <1>8 DEF Back
<1> QED BY <1>5, <1>6, <1>7, <1>9, <1>10 DEF next

(* The oldest command is fetched. *)
LEMMA FetchLine ==
    ASSUME NEW s \in States, NEW h \in Hosts, NEW n \in 0 .. CmdLen, InLine(s, h, n),
           s.comm.cmd[s.cp.cidx].own, NEW t,
           t.comm.cmd = [s.comm.cmd EXCEPT ![s.cp.cidx] = Fetched], t.cp.cidx = (s.cp.cidx + 1) % CmdLen
    PROVE  /\ n > 0 /\ n - 1 \in 0 .. CmdLen /\ s.comm.cmd[s.cp.cidx].pkt.ref = h.sent + 1 - n
           /\ InLine(t, h, n - 1)
<1> DEFINE c == s.cp.cidx
           to == h.cidx
           ring == s.comm.cmd
           new == t.comm.cmd
<1>1. /\ CmdLen \in Nat /\ CmdLen > 0 /\ h.sent \in Nat /\ to \in 0 .. CmdLen - 1 /\ c \in 0 .. CmdLen - 1
      /\ ring \in CmdRing
    BY Lengths, HostTypes, StateTypes DEF Hosts
<1>2. new[c] = Fetched /\ Fetched.own = FALSE /\ \A i \in 0 .. CmdLen - 1 : i # c => new[i] = ring[i]
    BY <1>1 DEF CmdRing, Fetched
<1>3. /\ c = Spot(to, n)
      /\ \A i \in 0 .. CmdLen - 1 : /\ ring[i].own <=> Back(i, to) <= n
                                    /\ ring[i].own => ring[i].pkt.ref = h.sent + 1 - Back(i, to)
    BY DEF InLine
<1> HIDE DEF c, to, ring, new
<1>4. n > 0
    <2>1. ring[c].own
        BY DEF c, ring
    <2>2. Back(c, to) <= n
        BY <1>1, <1>3, <2>1
    <2>3. n = 0 => Back(c, to) = CmdLen
        BY <1>1, <1>3, Backs
    <2> QED BY <1>1, <2>2, <2>3
<1>5. Back(c, to) = n /\ (c + 1) % CmdLen = Spot(to, n - 1) /\ \A i \in 0 .. CmdLen - 1 : Back(i, to) = n => i = c
    BY <1>1, <1>3, <1>4, Backs
<1>6. ring[c].pkt.ref = h.sent + 1 - n
    BY <1>1, <1>3, <1>5 DEF c, ring
<1>7. ASSUME NEW i \in 0 .. CmdLen - 1
      PROVE  /\ new[i].own <=> Back(i, to) <= n - 1
             /\ new[i].own => new[i].pkt.ref = h.sent + 1 - Back(i, to)
    <2>1. Back(i, to) \in 1 .. CmdLen
        BY <1>1, Backs
    <2>2. CASE i = c
        BY <1>2, <1>5, <2>2
    <2>3. CASE i # c
        <3>1. new[i] = ring[i] /\ Back(i, to) # n
            BY <1>2, <1>5, <2>3
        <3> DEFINE b == Back(i, to)
        <3>2. b <= n - 1 <=> b <= n
            <4>1. b \in 1 .. CmdLen /\ b # n
                BY <2>1, <3>1
            <4> HIDE DEF b
            <4> QED BY <1>1, <4>1
        <3> QED BY <1>3, <3>1, <3>2
    <2> QED BY <2>2, <2>3
<1>8. InLine(t, h, n - 1)
    BY <1>5, <1>7 DEF InLine, c, to, new
<1>9. n - 1 \in 0 .. CmdLen
    BY <1>1, <1>4
<1> QED BY <1>4, <1>6, <1>8, <1>9 DEF c, ring

(* One more is sent. *)
LEMMA SendLine ==
    ASSUME NEW s \in States, NEW h \in Hosts, NEW n \in 0 .. CmdLen, InLine(s, h, n), ~s.comm.cmd[h.cidx].own,
           NEW e, e.own, e.pkt.ref = h.sent + 1,
           NEW t, t.comm.cmd = [s.comm.cmd EXCEPT ![h.cidx] = e], t.cp = s.cp,
           NEW g, g.sent = h.sent + 1, g.cidx = (h.cidx + 1) % CmdLen
    PROVE  n + 1 \in 0 .. CmdLen /\ InLine(t, g, n + 1)
<1> DEFINE to == h.cidx
           next == g.cidx
           ring == s.comm.cmd
           new == t.comm.cmd
<1>1. /\ CmdLen \in Nat /\ CmdLen > 0 /\ h.sent \in Nat /\ to \in 0 .. CmdLen - 1 /\ ring \in CmdRing
    BY Lengths, HostTypes, StateTypes DEF Hosts
<1>2. new[to] = e /\ \A i \in 0 .. CmdLen - 1 : i # to => new[i] = ring[i]
    BY <1>1 DEF CmdRing
<1>3. /\ s.cp.cidx = Spot(to, n)
      /\ \A i \in 0 .. CmdLen - 1 : /\ ring[i].own <=> Back(i, to) <= n
                                    /\ ring[i].own => ring[i].pkt.ref = h.sent + 1 - Back(i, to)
    BY DEF InLine
<1>4. next = (to + 1) % CmdLen /\ ~ring[to].own
    OBVIOUS
<1> HIDE DEF to, next, ring, new
<1>5. n < CmdLen
    <2>1. Back(to, to) = CmdLen
        BY <1>1, Backs
    <2> QED BY <1>1, <1>3, <1>4, <2>1
<1>6. /\ Spot(next, n + 1) = Spot(to, n) /\ Back(to, next) = 1
      /\ \A i \in 0 .. CmdLen - 1 : i # to => Back(i, next) = Back(i, to) + 1
    BY <1>1, <1>4, <1>5, Backs
<1>7. ASSUME NEW i \in 0 .. CmdLen - 1
      PROVE  /\ new[i].own <=> Back(i, next) <= n + 1
             /\ new[i].own => new[i].pkt.ref = g.sent + 1 - Back(i, next)
    <2>1. Back(i, to) \in 1 .. CmdLen
        BY <1>1, Backs
    <2>2. CASE i = to
        BY <1>1, <1>2, <1>6, <2>2
    <2>3. CASE i # to
        <3>1. new[i] = ring[i] /\ Back(i, next) = Back(i, to) + 1
            BY <1>2, <1>6, <2>3
        <3>2. Back(i, next) <= n + 1 <=> Back(i, to) <= n
            BY <1>1, <2>1, <3>1
        <3>3. g.sent + 1 - Back(i, next) = h.sent + 1 - Back(i, to)
            BY <1>1, <2>1, <3>1
        <3> QED BY <1>3, <3>1, <3>2, <3>3
    <2> QED BY <2>2, <2>3
<1>8. InLine(t, g, n + 1)
    BY <1>3, <1>6, <1>7 DEF InLine, next, new
<1> QED BY <1>1, <1>5, <1>8

(* PutCmdDesc steps to the next entry. *)
LEMMA PutCmdRing ==
    ASSUME NEW s \in States
    PROVE  LET v == PutCmdDesc(s)
           IN  /\ v.comm.cmd = [s.comm.cmd EXCEPT ![s.cp.cidx] = Fetched]
               /\ v.cp.cidx = (s.cp.cidx + 1) % CmdLen
<1> DEFINE i == s.cp.cidx
           r == (i + 1) % CmdLen
           t == Onward(s, i, r)
           v == PutCmdDesc(s)
           ring == [s.comm.cmd EXCEPT ![i] = Fetched]
<1>1. Shaped(s) /\ s.cp \in Msc /\ s.comm \in [cmd : CmdRing, rsp : RspRing]
    BY StateTypes
<1>2. AfterOnward(s, t, i, r)
    BY <1>1, OnwardIs
<1>3. v = t \/ v = rq_ring_int(t)
    <2>1. t = [s EXCEPT !.comm.cmd[i] = [own |-> FALSE, pkt |-> Nil], !.cp.cidx = (i + 1) % CmdLen]
        BY DEF Onward, Fetched
    <2> HIDE DEF t
    <2> QED BY <2>1 DEF PutCmdDesc
<1> HIDE DEF t, v, r
<1>4. Shaped(t) /\ t.cp = [s.cp EXCEPT !.cidx = r] /\ t.comm = [s.comm EXCEPT !.cmd = ring]
    BY <1>2 DEF AfterOnward
<1> HIDE DEF ring
<1>5. t.cp.cidx = r /\ t.comm.cmd = ring
    BY <1>1, <1>4 DEF Msc
<1>6. CASE v = rq_ring_int(t)
    <2>1. AfterInterrupt(t, v)
        BY <1>4, <1>6, InterruptIs
    <2>2. v.comm = t.comm /\ v.cp = [t.cp EXCEPT !.irq = t.cp.irq \/ "VEC" \in t.cp.s1dat]
        BY <2>1 DEF AfterInterrupt
    <2>3. v.cp.cidx = t.cp.cidx
        <3> DEFINE b == t.cp.irq \/ "VEC" \in t.cp.s1dat
        <3>1. v.cp = [t.cp EXCEPT !.irq = b]
            BY <2>2
        <3> HIDE DEF b
        <3> QED BY <1>1, <1>4, <3>1 DEF Msc
    <2> QED BY <1>5, <2>2, <2>3 DEF v, r, ring
<1>7. CASE v = t
    BY <1>5, <1>7 DEF v, r, ring
<1> QED BY <1>3, <1>6, <1>7


(* It is not known to the controller, which has none that is younger. *)
LEMMA GotPktFate ==
    ASSUME NEW s, NEW h, Ended(s, h), FateInv(s, h), s.comm.cmd[s.cp.cidx].own,
           \A d \in Drive : s.unit[d].cpkt # Nil \/ s.unit[d].pktq = <<>>
    PROVE  FateInv(rq_getpkt(s), h)
<1> DEFINE pkt == s.comm.cmd[s.cp.cidx].pkt
           r == rq_deqf(s)
           t == [r EXCEPT !.cp.hat = 0]
           u == PutCmdDesc(t)
           f == rq_mscp(u, pkt, TRUE)
<1>1. /\ Base(s, h, 0, 0) /\ s \in States /\ Timed(s.unit, s.active) /\ Slack(s) /\ h \in Hosts
      /\ s.cp.csta = "UP" /\ Fates(s, h)
    BY DEF Ended, Base, FateInv
<1>2. pkt \in Command
    <2>1. s.comm.cmd \in CmdRing /\ s.cp.cidx \in 0 .. CmdLen - 1
        BY <1>1, StateTypes
    <2>2. s.comm.cmd[s.cp.cidx] \in [own : BOOLEAN, pkt : Command \cup {Nil}]
        BY <2>1 DEF CmdRing
    <2>3. pkt # Nil
        BY <1>1, <2>1 DEF Base, RingOrder
    <2> QED BY <2>2, <2>3
<1>3. Base(r, h, 0 + 1, 0) /\ AfterDeqf(s, r) /\ ~Dead(r)
    <2>1. s.cp.free >= 1
        BY <1>1, FreeForCommand DEF Slack
    <2> QED BY <1>1, <2>1, DeqfBase
<1> HIDE DEF r
<1>4. /\ Base(t, h, 1, 0)
      /\ t.cp.rspq = s.cp.rspq /\ t.cp.cidx = s.cp.cidx /\ t.cp.ths = s.cp.ths /\ t.cp.ridx = s.cp.ridx
      /\ t.unit = s.unit /\ t.active = s.active /\ t.comm = s.comm
    <2>1. Base(r, h, 1, 0)
        BY <1>3
    <2>2. /\ Base(t, h, 1, 0)
          /\ t.cp.rspq = r.cp.rspq /\ t.cp.cidx = r.cp.cidx /\ t.cp.ths = r.cp.ths /\ t.cp.ridx = r.cp.ridx
          /\ t.unit = r.unit /\ t.active = r.active /\ t.comm = r.comm
        <3>1. t = WithHat(r, 0)
            BY DEF WithHat
        <3> HIDE DEF t
        <3> QED BY <2>1, <3>1, HatBase
    <2> HIDE DEF t
    <2> QED BY <1>3, <2>2 DEF AfterDeqf
<1>5. rq_getpkt(s) = IF pkt.op = "PRE" THEN rq_fatal(t, "PRE")
                     ELSE IF pkt.op = "PIE" THEN rq_fatal(u, "PIE") ELSE f
    BY <1>3 DEF rq_getpkt, r
<1> HIDE DEF t
<1>6. t \in States /\ t.cp.perr # "NSR" /\ t.comm.cmd[t.cp.cidx].own
    BY <1>4 DEF Base
<1>7. Base(u, h, 1, 0 + 1) /\ AfterFetch(t, u)
    BY <1>4, <1>6, PutCmdBase
<1>8. u.comm.cmd = [t.comm.cmd EXCEPT ![t.cp.cidx] = Fetched] /\ u.cp.cidx = (t.cp.cidx + 1) % CmdLen
    BY <1>6, PutCmdRing
<1> HIDE DEF u
<1>9. u \in States /\ u.cp.perr # "NSR"
    BY <1>7 DEF Base
<1>10. PICK n \in 0 .. CmdLen : Ahead(s, h, n) /\ InLine(s, h, n)
    BY <1>1 DEF FateInv
<1>11. /\ n > 0 /\ n - 1 \in 0 .. CmdLen /\ pkt.ref = h.sent + 1 - n /\ InLine(u, h, n - 1)
    <2>1. u.comm.cmd = [s.comm.cmd EXCEPT ![s.cp.cidx] = Fetched] /\ u.cp.cidx = (s.cp.cidx + 1) % CmdLen
        BY <1>4, <1>8
    <2> QED BY <1>1, <1>10, <2>1, FetchLine
<1>12. /\ Fates(t, h) /\ Safe(s, t, h, 0)
       /\ Fates(u, h) /\ \A x : Free(u, h, x) <=> Free(s, h, x)
    BY <1>1, <1>4, <1>7, AlongsideSafe DEF AfterFetch, Safe, Spares, SameLine
<1> HIDE DEF pkt
<1>13. h.sent \in Nat /\ n \in Nat /\ pkt.ref \in Ref
    BY <1>1, <1>2, HostTypes, Lengths DEF Command, Ref, Hosts
<1>14. \A x \in Ref : (x > h.sent - (n - 1) => x # pkt.ref /\ x > h.sent - n) /\ (x > h.sent - n => ~(x < pkt.ref))
    BY <1>11, <1>13 DEF Ref
<1>15. pkt.ref > h.sent - n
    BY <1>11, <1>13
<1>16. \A x \in Ref : x > h.sent - (n - 1) => x # pkt.ref /\ Free(u, h, x)
    BY <1>10, <1>12, <1>14 DEF Ahead
<1>17. Free(u, h, pkt.ref)
    BY <1>10, <1>12, <1>13, <1>15 DEF Ahead
<1>18. CASE pkt.op = "PRE"
    <2>1. FateInv(t, h)
        BY <1>1, <1>12, SafeInv
    <2>2. Spares(t, rq_fatal(t, "PRE"), h, 0) /\ rq_fatal(t, "PRE").cp.csta # "UP"
        BY <1>1, <1>6, <1>12, FatalFate, FatalRests DEF Dead
    <2> QED BY <1>5, <1>18, <2>1, <2>2, SparesInv
<1>19. CASE pkt.op = "PIE"
    <2>1. FateInv(u, h)
        BY <1>11, <1>12, <1>16 DEF FateInv, Ahead
    <2>2. Spares(u, rq_fatal(u, "PIE"), h, 0) /\ rq_fatal(u, "PIE").cp.csta # "UP"
        BY <1>1, <1>9, <1>12, FatalFate, FatalRests DEF Dead
    <2> QED BY <1>5, <1>19, <2>1, <2>2, SparesInv
<1>20. CASE pkt.op # "PRE" /\ pkt.op # "PIE"
    <2>1. Between(u, h) /\ u.unit = s.unit
        <3>1. Base(u, h, 1, 1)
            BY <1>7
        <3> QED BY <1>1, <1>4, <1>7, <3>1 DEF AfterFetch, Slack, LastEnds, Between
    <2>2. Fits(u, pkt)
        <3>1. ASSUME pkt.unit \in Drive, NEW x \in Ref, Has(u.unit[pkt.unit], x)
              PROVE  IF Busy(u, pkt) THEN x < pkt.ref ELSE pkt.ref < x
            <4>1. ~Free(u, h, x)
                BY <3>1 DEF Free, Nowhere, HeldBy
            <4>2. ~(x > h.sent - n)
                BY <1>10, <1>12, <4>1 DEF Ahead
            <4>3. x < pkt.ref
                BY <1>11, <1>13, <4>2 DEF Ref
            <4>4. DOMAIN <<>> = {}
                OBVIOUS
            <4>5. Busy(u, pkt)
                BY <2>1, <3>1, <4>4 DEF Busy, Has, Nil, Ref
            <4> QED BY <4>3, <4>5
        <3> QED BY <3>1 DEF Fits
    <2>3. InHand(u, h, pkt)
        BY <1>2, <1>12, <1>17, <2>1, <2>2 DEF InHand, Between
    <2>4. Safe(u, f, h, pkt.ref)
        <3>1. TRUE \in BOOLEAN
            OBVIOUS
        <3> QED BY <2>1, <2>3, <3>1, MscpFate
    <2> HIDE DEF f
    <2>5. Fates(f, h) /\ Ahead(f, h, n - 1) /\ InLine(f, h, n - 1)
        BY <1>11, <1>16, <2>4 DEF Safe, Spares, SameLine, Ahead, InLine
    <2>6. FateInv(f, h)
        BY <1>11, <2>5 DEF FateInv
    <2> QED BY <1>5, <1>20, <2>6
<1> QED BY <1>18, <1>19, <1>20

LEMMA FromHostFate ==
    ASSUME NEW s, NEW h, NEW w, Worked(w, s, h, NumDrives), FateInv(w.s, h)
    PROVE  FateInv(FromHost(w).s, h)
<1>1. Ended(w.s, h) /\ ~Dead(w.s) /\ Fates(w.s, h)
    BY DEF Worked, Ended, Base, Dead, FateInv
<1>2. ~w.work => \A d \in Drive : w.s.unit[d].cpkt # Nil \/ w.s.unit[d].pktq = <<>>
    BY DEF Worked, Drive
<1>3. CASE w.work \/ ~w.s.cp.pip
    <2>1. FromHost(w) = w
        BY <1>3 DEF FromHost
    <2> QED BY <2>1
<1>4. CASE ~w.work /\ w.s.cp.pip /\ ~w.s.comm.cmd[w.s.cp.cidx].own
    <2> DEFINE m == [w.s.cp EXCEPT !.pip = FALSE]
               t == WithCp(w.s, m)
    <2>1. w.s \in States /\ w.s.cp \in Msc /\ Base(w.s, h, 0, 0)
        BY <1>1, StateTypes DEF Ended, Base
    <2>2. m \in Msc /\ SameMsc(w.s.cp, m) /\ m.cidx = w.s.cp.cidx
        BY <2>1 DEF Msc, SameMsc
    <2>3. Base(t, h, 0, 0) /\ AfterCp(w.s, t, m)
        <3> HIDE DEF m
        <3> QED BY <2>1, <2>2, CpBase
    <2>4. FromHost(w).s = t
        BY <1>1, <1>4 DEF FromHost, WithCp
    <2> HIDE DEF m, t
    <2>5. Safe(w.s, t, h, 0) /\ t.cp.csta = w.s.cp.csta
        BY <1>1, <2>2, <2>3, AlongsideSafe DEF AfterCp, SameMsc, Safe, SameLine
    <2>6. FateInv(t, h)
        BY <2>5, SafeInv
    <2> QED BY <2>4, <2>6
<1>5. CASE ~w.work /\ w.s.cp.pip /\ w.s.comm.cmd[w.s.cp.cidx].own
    <2>1. FromHost(w).s = rq_getpkt(w.s)
        BY <1>1, <1>5 DEF FromHost
    <2> QED BY <1>1, <1>2, <1>5, <2>1, GotPktFate
<1> QED BY <1>3, <1>4, <1>5

LEMMA FirstFate ==
    ASSUME NEW s, NEW h, Base(s, h, 0, 0), Fates(s, h), s.cp.rspq # <<>>
    PROVE  Safe(s, First(s), h, 0)
<1> DEFINE q == s.cp.rspq
           r == Tail(q)
           p == Head(q)
           t == Popped(s)
           m == [s.cp EXCEPT !.rspq = r]
<1>1. s \in States /\ q \in Seq(Rsp) /\ p \in Rsp /\ Single(q) /\ Shaped(s) /\ s.cp \in Msc
    <2>1. s \in States
        BY DEF Base
    <2>2. q \in Seq(Rsp) /\ Shaped(s) /\ s.cp \in Msc /\ q # <<>>
        BY <2>1, StateTypes
    <2>3. Single(q)
        BY DEF Fates, Apart
    <2> HIDE DEF q
    <2>4. p \in Rsp
        BY <2>2, HeadAndTail
    <2> QED BY <2>1, <2>2, <2>3, <2>4
<1>2. /\ Single(r) /\ \A x : Queued(r, x) => Queued(q, x)
      /\ p.end => p.ref \in Ref /\ Queued(q, p.ref) /\ ~Queued(r, p.ref)
    <2>1. q \in Seq(Rsp) /\ q # <<>> /\ Single(q)
        BY <1>1
    <2> HIDE DEF q
    <2> QED BY <2>1, TailFate
<1>3. Base(t, h, 1, One(p))
    BY PoppedBase
<1>4. t.cp.rspq = r /\ t.cp.cidx = s.cp.cidx /\ t.unit = s.unit /\ t.comm = s.comm
    <2>1. t = [s EXCEPT !.cp = m]
        BY DEF Popped
    <2>2. t.cp = m /\ t.unit = s.unit /\ t.comm = s.comm
        <3> HIDE DEF m, t
        <3> QED BY <1>1, <2>1, ShapedCp
    <2>3. m.rspq = r /\ m.cidx = s.cp.cidx
        <3> HIDE DEF r
        <3> QED BY <1>1 DEF Msc
    <2> HIDE DEF m, t
    <2> QED BY <2>2, <2>3
<1>5. First(s) = rq_putpkt(t, p, FALSE)
    BY DEF First
<1> HIDE DEF t, r, p, m
<1>6. /\ Apart(s.unit, r, s.comm.rsp, h.got)
      /\ \A x \in Ref : x # 0 /\ Nowhere(s.unit, q, s.comm.rsp, h.got, x) => Nowhere(s.unit, r, s.comm.rsp, h.got, x)
      /\ \A x \in Ref : Queued(q, x) /\ ~Queued(r, x) => Nowhere(s.unit, r, s.comm.rsp, h.got, x)
    <2>1. Apart(s.unit, q, s.comm.rsp, h.got) /\ Single(r) /\ \A x \in Ref : Queued(r, x) => Queued(q, x)
        BY <1>2 DEF Fates
    <2> HIDE DEF q
    <2> DEFINE U == s.unit
               R == s.comm.rsp
               G == h.got
    <2>2. Apart(U, q, R, G) /\ Single(r) /\ \A x \in Ref : Queued(r, x) => Queued(q, x) \/ (x = 0 /\ Nowhere(U, q, R, G, 0))
        BY <2>1
    <2> HIDE DEF U, R, G
    <2>3. /\ Apart(U, r, R, G)
          /\ \A x \in Ref : x # 0 /\ Nowhere(U, q, R, G, x) => Nowhere(U, r, R, G, x)
          /\ \A x \in Ref : Queued(q, x) /\ ~Queued(r, x) => Nowhere(U, r, R, G, x)
        BY <2>2, QueueFate
    <2> QED BY <2>3 DEF U, R, G
<1>7. Safe(s, t, h, 0)
    BY <1>4, <1>6 DEF Safe, Spares, SameLine, Fates, Free
<1>8. p.end => Free(t, h, p.ref) /\ ~Free(s, h, p.ref)
    BY <1>2, <1>4, <1>6 DEF Free, Nowhere
<1>9. Base(t, h, 0 + 1, One(p)) /\ Fates(t, h) /\ FALSE \in BOOLEAN
    BY <1>3, <1>7 DEF Safe, Spares
<1>10. CASE p.end
    <2>1. Safe(t, rq_putpkt(t, p, FALSE), h, p.ref)
        BY <1>1, <1>8, <1>9, <1>10, PutFate DEF p
    <2> QED BY <1>5, <1>7, <1>8, <1>10, <2>1, SafeThen
<1>11. CASE ~p.end
    <2>1. Safe(t, rq_putpkt(t, p, FALSE), h, 0)
        BY <1>1, <1>9, <1>11, PutFate DEF p
    <2> QED BY <1>5, <1>7, <2>1, SafeAfter
<1> QED BY <1>10, <1>11


LEMMA QueueThreadFate ==
    ASSUME NEW s, NEW h, Ended(s, h), FateInv(s, h)
    PROVE  FateInv(QueueThread(s), h)
<1> DEFINE a == FromDrives(s)
           w == FromHost(a)
           x == Responses(w)
           t == QueueThread(s)
<1>1. Worked(a, s, h, NumDrives)
    BY FromDrivesWorked
<1>2. FateInv(a.s, h)
    <2>1. Safe(s, a.s, h, 0)
        BY FromDrivesFate DEF FateInv
    <2>2. s.cp.csta = "UP"
        BY DEF Ended, Base
    <2> HIDE DEF a
    <2> QED BY <2>1, <2>2, SafeInv
<1> HIDE DEF a
<1>3. FateInv(w.s, h) /\ HostWorked(w, h)
    BY <1>1, <1>2, FromHostFate, FromHostWorked
<1> HIDE DEF w
<1>4. t = IF x.work /\ ~Dead(x.s) THEN Activate(x.s, QUEUE) ELSE x.s
    BY DEF QueueThread, a, w
<1>5. FateInv(x.s, h)
    <2>1. CASE Dead(w.s) \/ w.s.cp.rspq = <<>>
        <3>1. x = w
            BY <2>1 DEF Responses
        <3> HIDE DEF x
        <3> QED BY <1>3, <3>1
    <2>2. CASE ~Dead(w.s) /\ w.s.cp.rspq # <<>>
        <3>1. x = [s |-> First(w.s), work |-> TRUE]
            BY <2>2 DEF Responses, First, Popped
        <3>2. Base(w.s, h, 0, 0) /\ w.s.cp.csta = "UP" /\ Fates(w.s, h)
            BY <1>3, <2>2 DEF HostWorked, Ended, Base, FateInv
        <3>3. Safe(w.s, First(w.s), h, 0)
            BY <2>2, <3>2, FirstFate
        <3> HIDE DEF x
        <3>4. x.s = First(w.s)
            BY <3>1
        <3> QED BY <1>3, <3>2, <3>3, <3>4, SafeInv
    <2> QED BY <2>1, <2>2
<1> HIDE DEF x
<1>6. CASE x.work /\ ~Dead(x.s)
    <2>1. t = WithActive(x.s, x.s.active \cup {QUEUE})
        BY <1>4, <1>6 DEF Activate, WithActive
    <2>2. /\ WithActive(x.s, x.s.active \cup {QUEUE}).unit = x.s.unit
          /\ WithActive(x.s, x.s.active \cup {QUEUE}).cp = x.s.cp
          /\ WithActive(x.s, x.s.active \cup {QUEUE}).comm = x.s.comm
        BY <1>3 DEF WithActive
    <2> HIDE DEF t
    <2>3. t.unit = x.s.unit /\ t.cp = x.s.cp /\ t.comm = x.s.comm
        BY <2>1, <2>2
    <2>4. Safe(x.s, t, h, 0)
        BY <1>5, <2>3, AlongsideSafe DEF FateInv, Safe, SameLine
    <2>5. FateInv(t, h)
        BY <1>5, <2>3, <2>4, SafeInv
    <2> QED BY <2>5 DEF t
<1>7. CASE ~(x.work /\ ~Dead(x.s))
    BY <1>4, <1>5, <1>7
<1> QED BY <1>6, <1>7


(***************************************************************************)
(* Transfers.                                                              *)
(***************************************************************************)
LEMMA RequeuedFate ==
    ASSUME NEW s \in States, NEW h, Fates(s, h), NEW evs
    PROVE  Safe(s, WithActive(s, evs), h, 0)
<1> DEFINE t == WithActive(s, evs)
<1>1. t.cp = s.cp /\ t.unit = s.unit /\ t.comm = s.comm
    <2>1. Shaped(s)
        BY StateTypes
    <2> QED BY <2>1, ShapedActive DEF WithActive
<1> HIDE DEF t
<1> QED BY <1>1, AlongsideSafe DEF Safe, SameLine, t

LEMMA RwEndFate ==
    ASSUME NEW s, NEW h, NEW d \in Drive, NEW sts \in Sts, Base(s, h, 0, 0), s.unit[d].cpkt # Nil, Fates(s, h)
    PROVE  Safe(s, rq_rw_end(s, d, sts), h, 0)
<1> DEFINE v == Stopped(s, d)
           p == s.unit[d].cpkt
           e == Answer(v, p, sts)
           evs == e.active \cup {QUEUE}
<1>1. Base(v, h, 0 + 1, 0 + 1) /\ AfterStopped(s, v, d)
    BY CurrentStopped
<1>2. Safe(s, v, h, 0) /\ p \in Command /\ Free(v, h, p.ref) /\ ~Free(s, h, p.ref)
    <2>1. Safe(s, v, h, 0) /\ p \in Command /\ Free(v, h, p.ref)
        BY <1>1, StoppedFate
    <2>2. ~Free(s, h, p.ref)
        BY DEF Free, Nowhere, HeldBy, Has
    <2> QED BY <2>1, <2>2
<1>3. rq_rw_end(s, d, sts) = IF s.unit[d].pktq # <<>> THEN WithActive(e, evs) ELSE e
    BY DEF rq_rw_end, Stopped, Activate, WithActive
<1> HIDE DEF v, p
<1>4. Safe(v, e, h, p.ref)
    <2>1. Base(v, h, 1, 1)
        BY <1>1
    <2> QED BY <1>2, <2>1, AnsweredFate DEF Safe, Spares
<1>5. e \in States
    <2>1. Base(e, h, 0, 0)
        <3>1. End(p, sts) \in Rsp /\ One(End(p, sts)) = 1
            <4>1. p.ref \in Nat
                BY <1>2, RefNat
            <4> QED BY <4>1 DEF End, Rsp, One
        <3>2. Base(v, h, 0 + 1, 0 + One(End(p, sts))) /\ TRUE \in BOOLEAN
            BY <1>1, <3>1
        <3> QED BY <3>1, <3>2, PutPkt DEF Answer, Put
    <2> QED BY <2>1 DEF Base
<1> HIDE DEF e
<1>6. Safe(s, e, h, 0)
    BY <1>2, <1>4, SafeThen
<1>7. Safe(e, WithActive(e, evs), h, 0)
    BY <1>5, <1>6, RequeuedFate DEF Safe, Spares
<1>8. Safe(s, WithActive(e, evs), h, 0)
    BY <1>6, <1>7, SafeAfter
<1> QED BY <1>3, <1>6, <1>8

LEMMA FailedFate ==
    ASSUME NEW s, NEW h, NEW d \in Drive, NEW sts \in Sts, Begun(s, h, d), Fates(s, h)
    PROVE  Safe(s, Failed(s, d, sts), h, 0)
<1> DEFINE a == rq_deqf(s)
           c == s.unit[d].cpkt
           log == ErrorLog(c, sts)
           b == rq_putpkt(a, log, TRUE)
<1>1. Base(s, h, 0, 0) /\ s \in States /\ c # Nil /\ s.cp.ths \in BOOLEAN /\ ~Dead(s)
    BY DEF Begun, TimedBut, Base, States, Msc, Dead
<1>2. CASE ~s.cp.ths
    <2>1. Failed(s, d, sts) = rq_rw_end(s, d, sts)
        BY <1>1, <1>2 DEF Failed
    <2> QED BY <1>1, <2>1, RwEndFate
<1>3. CASE s.cp.ths
    <2>1. Base(a, h, 0 + 1, 0) /\ AfterDeqf(s, a) /\ ~Dead(a)
        BY <1>1, FreeForLog, DeqfBase
    <2>2. log \in Rsp /\ ~log.end /\ One(log) = 0
        <3>1. c.ref \in Nat
            BY <1>1, UnitTypes, RefNat
        <3> HIDE DEF c
        <3> QED BY <3>1 DEF ErrorLog, Rsp, One
    <2>3. Failed(s, d, sts) = IF Dead(b) THEN b ELSE rq_rw_end(b, d, sts)
        BY <1>3, <2>1 DEF Failed
    <2> HIDE DEF a, log
    <2>4. Safe(s, a, h, 0)
        BY <2>1, AlongsideSafe DEF AfterDeqf, Safe, SameLine
    <2>5. Safe(a, b, h, 0)
        <3>1. Fates(a, h) /\ Base(a, h, 0 + 1, 0) /\ TRUE \in BOOLEAN
            BY <2>1, <2>4 DEF Safe, Spares
        <3>2. log \in Rsp /\ (log.end => log.ref = 0 /\ Free(a, h, 0))
            BY <2>2
        <3>3. Safe(a, rq_putpkt(a, log, TRUE), h, 0)
            BY <3>1, <3>2, PutFate
        <3> QED BY <3>3 DEF b
    <2>6. Base(b, h, 0, 0) /\ Kept(a, b)
        <3>1. Base(a, h, 0 + 1, 0 + One(log)) /\ log \in Rsp
            BY <2>1, <2>2
        <3>2. Put(a, b, h, log, Placed(a.cp.rspq, log, TRUE), 0, 0)
            BY <3>1, PutPkt DEF b
        <3> QED BY <3>2 DEF Put
    <2> HIDE DEF b
    <2>7. Safe(s, b, h, 0) /\ ~Dead(b)
        BY <2>4, <2>5, <2>6, SafeAfter DEF Base, Dead
    <2>8. b.unit[d].cpkt # Nil
        BY <1>1, <2>1, <2>6 DEF Kept, AfterDeqf
    <2>9. Safe(b, rq_rw_end(b, d, sts), h, 0)
        BY <2>6, <2>7, <2>8, RwEndFate DEF Safe, Spares
    <2>10. Safe(s, rq_rw_end(b, d, sts), h, 0)
        BY <2>7, <2>9, SafeAfter
    <2> QED BY <2>3, <2>7, <2>10
<1> QED BY <1>1, <1>2, <1>3

(* The drive works on the same command. *)
LEMMA TouchedFate ==
    ASSUME NEW s, NEW h, NEW d \in Drive, Fates(s, h), NEW u, u.cpkt.ref = s.unit[d].cpkt.ref, u.pktq = s.unit[d].pktq,
           NEW t, AfterUnit(s, t, d, u)
    PROVE  Safe(s, t, h, 0)
<1>1. Alongside(s, t) /\ SameLine(s, t)
    BY DEF AfterUnit, Alongside, SameLine
<1> QED BY <1>1, AlongsideSpares DEF Safe

LEMMA CompleteFate ==
    ASSUME NEW s, NEW h, NEW d \in Drive, Begun(s, h, d), Fates(s, h), NEW err \in BOOLEAN
    PROVE  Safe(s, rq_io_complete(s, d, err), h, 0)
<1> DEFINE old == s.unit[d]
           u == [old EXCEPT !.io_complete = TRUE, !.io_status = err, !.io_ref = old.cpkt.ref]
           t == WithUnit(s, d, u)
<1>1. s \in States /\ old.cpkt # Nil /\ Owns(old, d)
    BY DEF Begun, Base, TimedBut, OwnCommands
<1>2. old \in Unit /\ old.cpkt \in Command /\ old.cpkt.unit = d
    BY <1>1, UnitTypes DEF Owns
<1>3. u \in Unit /\ u.cpkt = old.cpkt /\ u.pktq = old.pktq
    <2>1. old.cpkt.ref \in Nat
        BY <1>2, RefNat
    <2> QED BY <1>2, <2>1 DEF Unit
<1>4. Begun(t, h, d) /\ AfterUnit(s, t, d, u)
    <2> HIDE DEF u, t
    <2> QED BY <1>1, <1>2, <1>3, BegunTouched DEF t
<1>5. rq_io_complete(s, d, err) = WithActive(t, t.active \cup {d})
    BY DEF rq_io_complete, Activate, WithActive, WithUnit
<1> HIDE DEF t, u
<1>6. Safe(s, t, h, 0)
    BY <1>3, <1>4, TouchedFate
<1>7. Safe(t, WithActive(t, t.active \cup {d}), h, 0)
    BY <1>4, <1>6, RequeuedFate DEF Begun, Base, Safe, Spares
<1>8. Safe(s, WithActive(t, t.active \cup {d}), h, 0)
    BY <1>6, <1>7, SafeAfter
<1> QED BY <1>5, <1>8

LEMMA TakingFate ==
    ASSUME NEW s, NEW h, NEW d \in Drive, Begun(s, h, d), Fates(s, h)
    PROVE  Safe(s, Taking(s, d), h, 0)
<1> DEFINE old == s.unit[d]
           u == [old EXCEPT !.io_complete = FALSE]
           t == WithUnit(s, d, u)
<1>1. s \in States /\ old.cpkt # Nil /\ Owns(old, d)
    BY DEF Begun, Base, TimedBut, OwnCommands
<1>2. old \in Unit /\ old.cpkt.unit = d
    BY <1>1, UnitTypes DEF Owns
<1>3. u \in Unit /\ u.cpkt = old.cpkt /\ u.pktq = old.pktq
    BY <1>2 DEF Unit
<1>4. AfterUnit(s, t, d, u)
    <2> HIDE DEF u, t
    <2> QED BY <1>1, <1>2, <1>3, BegunTouched DEF t
<1>5. Taking(s, d) = t
    BY DEF Taking, WithUnit
<1> HIDE DEF t, u
<1> QED BY <1>3, <1>4, <1>5, TouchedFate

LEMMA AdvanceFate ==
    ASSUME NEW s, NEW h, NEW d \in Drive, Begun(s, h, d), Fates(s, h)
    PROVE  Safe(s, Advance(s, d), h, 0)
<1> DEFINE old == s.unit[d]
           c == [old.cpkt EXCEPT !.size = old.cpkt.size - 1]
           u == [old EXCEPT !.cpkt = c]
           t == WithUnit(s, d, u)
<1>1. s \in States /\ old.cpkt # Nil /\ Owns(old, d) /\ Base(s, h, 0, 0)
    BY DEF Begun, Base, TimedBut, OwnCommands
<1>2. old \in Unit /\ old.cpkt \in Command /\ old.cpkt.unit = d
    BY <1>1, UnitTypes DEF Owns
<1>3. CASE old.cpkt.size > 1
    <2>1. old.cpkt.size - 1 \in Nat
        <3>1. old.cpkt.size \in Nat
            BY <1>2 DEF Command
        <3> QED BY <1>3, <3>1
    <2>2. c \in Command /\ c.unit = d /\ c.ref = old.cpkt.ref
        BY <1>2, <2>1 DEF Command
    <2>3. u \in Unit /\ u.cpkt = c /\ u.pktq = old.pktq
        <3> HIDE DEF c
        <3> QED BY <1>2, <2>2 DEF Unit
    <2>4. c # Nil
        BY <2>2, RefNat
    <2>5. Begun(t, h, d) /\ AfterUnit(s, t, d, u)
        <3> HIDE DEF u, t
        <3> QED BY <2>2, <2>3, <2>4, BegunTouched DEF t
    <2>6. Advance(s, d) = WithActive(t, t.active \cup {d})
        BY <1>3 DEF Advance, Activate, WithActive, WithUnit
    <2> HIDE DEF t, u, c
    <2>7. Safe(s, t, h, 0)
        BY <2>2, <2>3, <2>5, TouchedFate
    <2>8. Safe(t, WithActive(t, t.active \cup {d}), h, 0)
        BY <2>5, <2>7, RequeuedFate DEF Begun, Base, Safe, Spares
    <2>9. Safe(s, WithActive(t, t.active \cup {d}), h, 0)
        BY <2>7, <2>8, SafeAfter
    <2> QED BY <2>6, <2>9
<1>4. CASE ~(old.cpkt.size > 1)
    <2>1. Advance(s, d) = rq_rw_end(s, d, "SUC")
        BY <1>4 DEF Advance
    <2> QED BY <1>1, <2>1, RwEndFate DEF Sts
<1> QED BY <1>3, <1>4


(***************************************************************************)
(* Initialization: nothing is in the controller.                           *)
(***************************************************************************)
LEMMA RestFate ==
    ASSUME NEW s, NEW h, FateInv(s, h), NEW t, NEW g, Rest(t, g), t.comm.rsp = s.comm.rsp
    PROVE  FateInv(t, h)
<1>1. Spares(s, t, h, 0)
    BY EmptiedFate DEF Rest, FateInv
<1>2. t.cp.csta # "UP"
    BY DEF Rest
<1> QED BY <1>1, <1>2, SparesInv

(* No response is left in the ring either. *)
LEMMA ClearedFate ==
    ASSUME NEW s, NEW h, FateInv(s, h), NEW t, NEW g, Rest(t, g), \A i \in DOMAIN t.comm.rsp : ~Filled(t.comm.rsp[i])
    PROVE  FateInv(t, h)
<1> DEFINE u == [unit |-> t.unit, cp |-> t.cp, comm |-> s.comm]
<1>1. u.unit = t.unit /\ u.cp = t.cp /\ u.comm = s.comm
    OBVIOUS
<1> HIDE DEF u
<1>2. Spares(s, u, h, 0)
    BY <1>1, EmptiedFate DEF Rest, FateInv
<1>3. Scattered(t.comm.rsp) /\ \A x : ~Lying(t.comm.rsp, x)
    BY DEF Scattered, Lying
<1>4. Fates(t, h) /\ \A x : Free(u, h, x) => Free(t, h, x)
    BY <1>1, <1>2, <1>3 DEF Spares, Fates, Free, Apart, Nowhere
<1>5. Spares(s, t, h, 0)
    BY <1>2, <1>4 DEF Spares
<1>6. t.cp.csta # "UP"
    BY DEF Rest
<1> QED BY <1>5, <1>6, SparesInv

LEMMA RspEmpty ==
    ASSUME NEW own \in BOOLEAN
    PROVE  \A i \in DOMAIN Empty(RspLen, own) : ~Filled(Empty(RspLen, own)[i])
BY DEF Empty, Filled, Nil

(* Up to step 4, where the rings are cleared, they are as they were.       *)
LEMMA KeepsRings ==
    ASSUME NEW s, Shaped(s), NEW csta, NEW w, NEW b
    PROVE  /\ Shaped(To(s, csta)) /\ To(s, csta).comm = s.comm
           /\ Shaped(rq_init_int(s)) /\ rq_init_int(s).comm = s.comm
           /\ Shaped(WithS1dat(s, w)) /\ WithS1dat(s, w).comm = s.comm
           /\ Shaped(WithBad(s, b)) /\ WithBad(s, b).comm = s.comm
           /\ Shaped(WithRings(s)) /\ WithRings(s).comm = NoRings
<1>1. \A m : Shaped([s EXCEPT !.cp = m]) /\ [s EXCEPT !.cp = m].comm = s.comm
    BY ShapedCp
<1>2. Shaped(To(s, csta)) /\ To(s, csta).comm = s.comm
    BY <1>1 DEF To
<1>3. Shaped(rq_init_int(s)) /\ rq_init_int(s).comm = s.comm
    BY <1>1 DEF rq_init_int
<1>4. Shaped(WithS1dat(s, w)) /\ WithS1dat(s, w).comm = s.comm
    BY <1>1 DEF WithS1dat
<1>5. Shaped(WithBad(s, b)) /\ WithBad(s, b).comm = s.comm
    BY <1>1 DEF WithBad
<1>6. Shaped(WithRings(s)) /\ WithRings(s).comm = NoRings
    BY DEF WithRings, Shaped
<1> QED BY <1>2, <1>3, <1>4, <1>5, <1>6

LEMMA Step4Rings ==
    ASSUME NEW s, Shaped(s)
    PROVE  rq_step4(s).comm = s.comm \/ rq_step4(s).comm = NoRings
<1> DEFINE b == WithRings(To(s, "S4"))
<1>1. Shaped(b) /\ b.comm = NoRings
    BY KeepsRings
<1>2. rq_init_int(b).comm = NoRings
    <2> HIDE DEF b
    <2> QED BY <1>1, KeepsRings
<1>3. rq_step4(s) = IF s.cp.bad THEN rq_fatal(s, "QWE") ELSE rq_init_int(b)
    BY DEF rq_step4, WithRings
<1>4. rq_fatal(s, "QWE").comm = s.comm
    BY DeadIs DEF AfterDead
<1> HIDE DEF b
<1> QED BY <1>2, <1>3, <1>4

LEMMA DialogueRings ==
    ASSUME NEW s, NEW h, Rest(s, h), s.cp.csta # "DEAD", ~(s.cp.csta = "S4" /\ "GO" \in s.cp.saw)
    PROVE  InitThread(s).comm = s.comm \/ InitThread(s).comm = NoRings
<1> DEFINE saw == s.cp.saw
           b == s.cp.bad \/ "NXM" \in saw
           located == WithBad(s, b)
           t == InitThread(s)
<1>1. Shaped(s)
    BY StateTypes DEF Rest
<1>2. Shaped(located) /\ located.comm = s.comm
    <2> HIDE DEF b
    <2> QED BY <1>1, KeepsRings
<1>3. \A x : /\ To(s, x).comm = s.comm /\ Shaped(To(s, x))
             /\ To(located, x).comm = s.comm /\ Shaped(To(located, x))
    <2> HIDE DEF located
    <2> QED BY <1>1, <1>2, KeepsRings
<1>4. \A x : Shaped(x) => rq_init_int(x).comm = x.comm
    BY KeepsRings
<1>5. CASE s.cp.csta = "S1" /\ {"VL", "WR"} \subseteq saw
    BY <1>3, <1>5 DEF InitThread
<1>6. CASE s.cp.csta = "S1" /\ "VL" \in saw /\ "WR" \notin saw
    <2> DEFINE a == To(s, "S2")
               c == WithS1dat(a, saw)
    <2>1. t = rq_init_int(c)
        BY <1>6 DEF InitThread, WithS1dat
    <2>2. Shaped(c) /\ c.comm = a.comm
        BY <1>3, KeepsRings
    <2> HIDE DEF c, t
    <2>3. t.comm = a.comm
        BY <1>4, <2>1, <2>2
    <2> QED BY <1>3, <2>3 DEF t
<1>7. CASE s.cp.csta = "S2"
    <2> DEFINE a == To(located, "S3")
    <2>1. t = rq_init_int(a)
        BY <1>7 DEF InitThread, WithBad
    <2>2. Shaped(a) /\ a.comm = s.comm
        BY <1>3
    <2> HIDE DEF a, t
    <2> QED BY <1>4, <2>1, <2>2 DEF t
<1>8. CASE s.cp.csta = "S3"
    <2>1. t = IF PP \in saw THEN To(located, "S3_PPA") ELSE rq_step4(located)
        BY <1>8 DEF InitThread, WithBad
    <2>2. rq_step4(located).comm = s.comm \/ rq_step4(located).comm = NoRings
        <3> HIDE DEF located
        <3> QED BY <1>2, Step4Rings
    <2> HIDE DEF t, located
    <2> QED BY <1>3, <2>1, <2>2 DEF t
<1>9. CASE s.cp.csta = "S3_PPA"
    <2>1. t = IF saw = {} THEN To(s, "S3_PPB") ELSE rq_fatal(s, "PPF")
        BY <1>9 DEF InitThread
    <2>2. rq_fatal(s, "PPF").comm = s.comm
        BY <1>1, DeadIs DEF AfterDead
    <2> HIDE DEF t
    <2> QED BY <1>3, <2>1, <2>2 DEF t
<1>10. CASE \/ s.cp.csta = "S1" /\ "VL" \notin saw
            \/ s.cp.csta = "S4" /\ "GO" \notin saw
            \/ s.cp.csta \notin {"S1", "S2", "S3", "S3_PPA", "S4"}
    <2>1. t = s
        BY <1>10 DEF InitThread
    <2> HIDE DEF t
    <2> QED BY <2>1 DEF t
<1> HIDE DEF t, located, b
<1> QED BY <1>5, <1>6, <1>7, <1>8, <1>9, <1>10 DEF t

(***************************************************************************)
(* The controller comes up with nothing in it and empty rings.             *)
(***************************************************************************)
LEMMA GoUpFate ==
    ASSUME NEW s, NEW h, FateInv(s, h), Rest(s, h), s.cp.csta = "S4", "GO" \in s.cp.saw
    PROVE  FateInv(GoUp(s), h)
<1> DEFINE t == Activate(To(s, "UP"), TIMER)
           a == rq_deqf(t)
           log == ErrorLog(Nil, "CNT")
           u == IF "LF" \in s.cp.saw /\ s.cp.perr # "none" THEN rq_plf(t) ELSE t
           m == [u.cp EXCEPT !.perr = "none"]
           v == WithCp(u, m)
<1>1. Running(t, h) /\ t.cp.rspq = <<>> /\ ~t.cp.ths /\ t.cp.free >= 1 /\ t.comm.rsp[t.cp.ridx].own
    BY UpRuns
<1>2. /\ s \in States /\ Shaped(s) /\ s.cp \in Msc /\ s.cp.rspq = <<>> /\ s.cp.cidx = 0 /\ h.cidx = 0
      /\ s.comm.cmd = Empty(CmdLen, FALSE) /\ h \in Hosts
    <2>1. s \in States /\ s.cp.csta = "S4" /\ s.cp.csta # "DEAD"
        BY DEF Rest
    <2> QED BY <2>1, StateTypes DEF Rest
<1>3. t.unit = s.unit /\ t.comm = s.comm /\ t.cp.cidx = s.cp.cidx
    <2> DEFINE n == [s.cp EXCEPT !.csta = "UP"]
               w == WithCp(s, n)
    <2>1. Shaped(w) /\ w.cp = n /\ w.unit = s.unit /\ w.comm = s.comm
        <3> HIDE DEF n
        <3> QED BY <1>2, ShapedCp DEF WithCp
    <2>2. n.cidx = s.cp.cidx
        BY <1>2 DEF Msc
    <2>3. w = To(s, "UP")
        BY DEF To, WithCp
    <2> HIDE DEF n, w
    <2>4. t = [w EXCEPT !.active = w.active \cup {TIMER}]
        BY <2>3 DEF Activate
    <2> HIDE DEF t
    <2>5. t.cp = w.cp /\ t.unit = w.unit /\ t.comm = w.comm
        BY <2>1, <2>4, ShapedActive
    <2> QED BY <2>1, <2>2, <2>5
<1> HIDE DEF t
<1>4. Spares(s, t, h, 0)
    <2>1. t.cp.rspq = s.cp.rspq
        BY <1>1, <1>2
    <2> QED BY <1>3, <2>1, AlongsideSafe DEF FateInv
<1>5. InLine(t, h, 0)
    <2>1. CmdLen \in Nat /\ CmdLen > 0
        BY Lengths
    <2>2. Spot(0, 0) = 0
        BY DEF Spot
    <2>3. \A i \in 0 .. CmdLen - 1 : Back(i, 0) \in 1 .. CmdLen
        BY <2>1 DEF Back
    <2>4. \A i \in 0 .. CmdLen - 1 : ~(Back(i, 0) <= 0)
        <3> SUFFICES ASSUME NEW i \in 0 .. CmdLen - 1 PROVE ~(Back(i, 0) <= 0)
            OBVIOUS
        <3> DEFINE x == Back(i, 0)
        <3>1. x \in 1 .. CmdLen
            BY <2>3
        <3> HIDE DEF x
        <3> QED BY <2>1, <3>1 DEF x
    <2>5. \A i \in 0 .. CmdLen - 1 : t.comm.cmd[i].own = FALSE
        <3>1. s.comm.cmd = Empty(CmdLen, FALSE)
            BY <1>2
        <3>2. \A i \in 0 .. CmdLen - 1 : s.comm.cmd[i].own = FALSE
            BY <3>1 DEF Empty
        <3> QED BY <1>3, <3>2
    <2> QED BY <1>2, <1>3, <2>2, <2>4, <2>5 DEF InLine
<1>6. FateInv(t, h)
    <2>1. PICK n \in 0 .. CmdLen : Ahead(s, h, n)
        BY DEF FateInv
    <2>2. h.sent \in Nat /\ CmdLen \in Nat /\ n \in Nat
        BY <1>2, Lengths, HostTypes DEF Hosts
    <2>3. \A r \in Ref : r > h.sent - 0 => r > h.sent - n /\ r # 0
        BY <2>2 DEF Ref
    <2>4. Ahead(t, h, 0)
        BY <1>4, <2>1, <2>3 DEF Ahead, Spares
    <2>5. 0 \in 0 .. CmdLen
        BY <2>2
    <2> QED BY <1>4, <1>5, <2>4, <2>5 DEF FateInv, Spares
<1>7. FateInv(u, h) /\ Running(u, h) /\ u.cp.csta = "UP"
    <2>0. Running(u, h)
        BY <1>1, PlfRuns
    <2>1. FateInv(rq_plf(t), h)
        <3>1. Base(t, h, 0, 0)
            BY <1>1 DEF Running
        <3>2. Base(a, h, 0 + 1, 0) /\ AfterDeqf(t, a)
            BY <1>1, <3>1, DeqfBase
        <3>3. log \in Rsp /\ (log.end => log.ref = 0 /\ Free(a, h, 0))
            BY DEF ErrorLog, Rsp, Nil, Sts
        <3>4. rq_plf(t) = rq_putpkt(a, log, TRUE)
            BY DEF rq_plf
        <3> HIDE DEF a, log
        <3>5. Safe(t, a, h, 0)
            BY <1>6, <3>2, AlongsideSafe DEF FateInv, AfterDeqf, Safe, SameLine
        <3>6. Safe(a, rq_putpkt(a, log, TRUE), h, 0)
            <4>1. Fates(a, h) /\ TRUE \in BOOLEAN
                BY <3>5 DEF Safe, Spares
            <4> QED BY <3>2, <3>3, <4>1, PutFate
        <3>7. Safe(t, rq_plf(t), h, 0)
            BY <3>4, <3>5, <3>6, SafeAfter
        <3> QED BY <1>6, <3>1, <3>7, SafeInv DEF Base
    <2> QED BY <1>6, <2>0, <2>1 DEF Running, Base
<1> HIDE DEF u
<1>8. u.cp \in Msc /\ Shaped(u) /\ Fates(u, h)
    BY <1>7, StateTypes DEF Running, Base, FateInv
<1>9. m.rspq = u.cp.rspq /\ m.cidx = u.cp.cidx
    BY <1>8 DEF Msc
<1>10. GoUp(s) = v
    BY DEF GoUp, WithCp, u, t
<1> HIDE DEF m
<1>11. v.cp = m /\ v.unit = u.unit /\ v.comm = u.comm
    BY <1>8, ShapedCp DEF WithCp
<1> HIDE DEF v
<1>12. Safe(u, v, h, 0)
    BY <1>8, <1>9, <1>11, AlongsideSafe DEF Safe, SameLine
<1> QED BY <1>7, <1>10, <1>12, SafeInv

LEMMA InitThreadFate ==
    ASSUME NEW s, NEW h, FateInv(s, h), Rest(s, h), s.cp.csta # "DEAD"
    PROVE  FateInv(InitThread(s), h)
<1> DEFINE t == InitThread(s)
<1>1. CASE s.cp.csta = "S4" /\ "GO" \in s.cp.saw
    <2>1. t = GoUp(s)
        BY <1>1 DEF InitThread
    <2> HIDE DEF t
    <2> QED BY <1>1, <2>1, GoUpFate DEF t
<1>2. CASE ~(s.cp.csta = "S4" /\ "GO" \in s.cp.saw)
    <2>1. t.comm = s.comm \/ t.comm = NoRings
        BY <1>2, DialogueRings
    <2>2. Rest(t, h)
        BY <1>2, DialogueRests
    <2>3. \A i \in DOMAIN NoRings.rsp : ~Filled(NoRings.rsp[i])
        BY RspEmpty DEF NoRings
    <2> HIDE DEF t
    <2>4. CASE t.comm = s.comm
        BY <2>2, <2>4, RestFate DEF t
    <2>5. CASE t.comm = NoRings
        BY <2>2, <2>3, <2>5, ClearedFate DEF t
    <2> QED BY <2>1, <2>4, <2>5
<1> QED BY <1>1, <1>2


(***************************************************************************)
(* The steps.                                                              *)
(***************************************************************************)
LEMMA BecameFate ==
    ASSUME NEW x, Becomes(x), x \in States, host' = host, FateInv(x, host)
    PROVE  FInv'
<1>1. State' = x
    BY Became
<1> QED BY <1>1 DEF FInv

LEMMA SafeStep ==
    ASSUME NEW s, FateInv(s, host), NEW x, Becomes(x), host' = host, Safe(s, x, host, 0), s.cp.csta = "UP", Running(x, host)
    PROVE  FInv'
<1>1. FateInv(x, host)
    BY SafeInv
<1>2. x \in States
    BY DEF Running, Base
<1> QED BY <1>1, <1>2, BecameFate

(* What is known of the commands survives the expiry of a drive's event. *)
LEMMA ExpiredFate ==
    ASSUME IInv, FInv, NEW d \in Drive, d \in active
    PROVE  /\ FateInv(Expired(d), host) /\ Begun(Expired(d), host, d)
           /\ Expired(d).cp.csta = "UP" /\ Fates(Expired(d), host)
<1> DEFINE s == State
           evs == s.active \ {d}
           t == Expired(d)
<1>1. s \in States /\ Shaped(s) /\ FateInv(s, host) /\ Fates(s, host)
    BY Typed, ShapedStates DEF FInv, FateInv
<1>2. t = WithActive(s, evs)
    BY DEF Expired, WithActive
<1>3. Begun(t, host, d)
    BY DriveRuns
<1> HIDE DEF s
<1>4. Safe(s, t, host, 0) /\ t.cp = s.cp
    <2> HIDE DEF evs
    <2>1. Safe(s, WithActive(s, evs), host, 0)
        BY <1>1, RequeuedFate
    <2>2. WithActive(s, evs).cp = s.cp
        BY <1>1, ShapedActive DEF WithActive
    <2> QED BY <1>2, <2>1, <2>2
<1> HIDE DEF t
<1>5. FateInv(t, host)
    BY <1>1, <1>4, SafeInv
<1> QED BY <1>3, <1>5 DEF Begun, Base, FateInv, t

LEMMA TopFate ==
    ASSUME IInv, FInv, NEW d \in Drive, Top(d)
    PROVE  FInv'
<1> DEFINE s == Expired(d)
           pkt == unit[d].cpkt
<1>1. d \in active /\ host' = host
    BY DEF Top
<1>2. Begun(s, host, d) /\ FateInv(s, host) /\ s.cp.csta = "UP" /\ Fates(s, host) /\ s.unit = unit
    BY <1>1, ExpiredFate, DriveRuns
<1>3. Base(s, host, 0, 0) /\ s.unit[d].cpkt # Nil
    BY <1>2 DEF Begun, TimedBut
<1> HIDE DEF s
<1>4. CASE Becomes(rq_rw_end(s, d, "SUC"))
    <2>1. Running(rq_rw_end(s, d, "SUC"), host) /\ Safe(s, rq_rw_end(s, d, "SUC"), host, 0)
        BY <1>2, <1>3, RwEndRuns, RwEndFate DEF Sts
    <2> QED BY <1>1, <1>2, <1>4, <2>1, SafeStep
<1>5. CASE NothingToWrite(pkt) /\ Becomes(s)
    <2>1. Running(s, host)
        BY <1>2, <1>5, BegunStays
    <2> QED BY <1>1, <1>2, <1>5, <2>1, BecameFate DEF Running, Base
<1>6. CASE \E err \in BOOLEAN : Becomes(rq_io_complete(s, d, err))
    <2>1. PICK err \in BOOLEAN : Becomes(rq_io_complete(s, d, err))
        BY <1>6
    <2>2. Running(rq_io_complete(s, d, err), host) /\ Safe(s, rq_io_complete(s, d, err), host, 0)
        BY <1>2, CompleteRuns, CompleteFate
    <2> QED BY <1>1, <1>2, <2>1, <2>2, SafeStep
<1> QED BY <1>4, <1>5, <1>6 DEF Top, s

LEMMA BottomFate ==
    ASSUME IInv, FInv, NEW d \in Drive, Bottom(d)
    PROVE  FInv'
<1> DEFINE r == Expired(d)
           s == Taking(r, d)
<1>1. d \in active /\ host' = host
    BY DEF Bottom
<1>2. Begun(r, host, d) /\ FateInv(r, host) /\ r.cp.csta = "UP" /\ Fates(r, host)
    BY <1>1, ExpiredFate
<1>3. \/ Becomes(rq_rw_end(r, d, "SUC"))
      \/ Becomes(Failed(s, d, "HST"))
      \/ Becomes(Failed(s, d, "DRV"))
      \/ Becomes(Advance(s, d))
      \/ Becomes(rq_rw_end(s, d, "CMP"))
    BY DEF Bottom, Taking
<1> HIDE DEF r
<1>4. Begun(s, host, d) /\ Safe(r, s, host, 0)
    BY <1>2, TakingBegun, TakingFate
<1>5. FateInv(s, host) /\ s.cp.csta = "UP" /\ Fates(s, host)
    <2>1. s.cp.csta = "UP"
        BY <1>4 DEF Begun, Base
    <2> HIDE DEF s
    <2> QED BY <1>2, <1>4, <2>1, SafeInv DEF FateInv
<1>6. /\ Base(r, host, 0, 0) /\ r.unit[d].cpkt # Nil
      /\ Base(s, host, 0, 0) /\ s.unit[d].cpkt # Nil
    BY <1>2, <1>4 DEF Begun, TimedBut
<1> HIDE DEF s
<1>7. /\ Running(rq_rw_end(r, d, "SUC"), host) /\ Running(rq_rw_end(s, d, "CMP"), host)
      /\ Running(Failed(s, d, "HST"), host) /\ Running(Failed(s, d, "DRV"), host)
      /\ Running(Advance(s, d), host)
    BY <1>2, <1>4, RwEndRuns, FailedRuns, AdvanceRuns DEF Sts
<1>8. /\ Safe(r, rq_rw_end(r, d, "SUC"), host, 0) /\ Safe(s, rq_rw_end(s, d, "CMP"), host, 0)
      /\ Safe(s, Failed(s, d, "HST"), host, 0) /\ Safe(s, Failed(s, d, "DRV"), host, 0)
      /\ Safe(s, Advance(s, d), host, 0)
    BY <1>2, <1>4, <1>5, <1>6, RwEndFate, FailedFate, AdvanceFate DEF Sts
<1> QED BY <1>1, <1>2, <1>3, <1>5, <1>7, <1>8, SafeStep

LEMMA ThreadFate ==
    ASSUME IInv, FInv, rq_quesvc, cp.csta \in {"UP", "DEAD"}
    PROVE  FInv'
<1> DEFINE s == State
           evs == s.active \ {QUEUE}
           t == WithActive(s, evs)
<1>1. s.cp = cp /\ s.active = active
    BY StateFields
<1>2. Running(s, host) /\ FateInv(s, host)
    <2>1. QUEUE \in active
        BY DEF rq_quesvc
    <2> QED BY <1>1, <2>1 DEF IInv, Rest, FInv
<1>3. Becomes(QueueThread(t)) /\ host' = host
    BY DEF rq_quesvc, WithActive
<1> HIDE DEF s
<1>4. Base(s, host, 0, 0) /\ s \in States /\ s.active \subseteq 0 .. NumDrives + 1 /\ Timed(s.unit, s.active) /\ Slack(s)
    BY <1>2, StateTypes DEF Running, Base
<1>5. evs \subseteq 0 .. NumDrives + 1 /\ QUEUE \notin Drive
    BY <1>4, Lengths DEF QUEUE, Drive
<1>6. Safe(s, t, host, 0) /\ Base(t, host, 0, 0) /\ AfterActive(s, t, evs)
    <2> HIDE DEF evs
    <2> QED BY <1>2, <1>4, <1>5, RequeuedFate, BaseActive DEF FateInv
<1> HIDE DEF t
<1>7. Timed(t.unit, t.active) /\ Slack(t)
    BY <1>4, <1>5, <1>6 DEF AfterActive, Timed, Slack, LastEnds
<1>8. Ended(t, host) /\ FateInv(t, host)
    BY <1>2, <1>4, <1>6, <1>7, SafeInv DEF Ended, Base
<1>9. Running(QueueThread(t), host) \/ Rest(QueueThread(t), host)
    BY <1>8, QueueThreadKeeps
<1>10. QueueThread(t) \in States
    BY <1>9 DEF Running, Base, Rest
<1> QED BY <1>3, <1>8, <1>10, QueueThreadFate, BecameFate

LEMMA TimerFate ==
    ASSUME IInv, FInv, rq_tmrsvc
    PROVE  FInv'
<1> DEFINE s == State
           n == IF cp.hat > 0 THEN cp.hat - 1 ELSE 0
           t == WithHat(s, n)
<1>1. s.cp = cp /\ s.active = active
    BY StateFields
<1>2. Running(s, host) /\ FateInv(s, host)
    <2>1. TIMER \in active /\ TIMER # QUEUE
        BY Lengths DEF rq_tmrsvc, TIMER, QUEUE
    <2> QED BY <1>1, <2>1 DEF IInv, Rest, FInv
<1>3. Becomes(IF cp.hat = 1 THEN rq_fatal(t, "HAT") ELSE t) /\ host' = host
    BY DEF rq_tmrsvc, WithHat, State
<1>4. n \in Nat
    <2>1. cp.hat \in Nat
        BY <1>1, <1>2, StateTypes DEF Running, Base, Msc
    <2> QED BY <2>1
<1> HIDE DEF s, n
<1>5. /\ Base(t, host, 0, 0) /\ t.cp.rspq = s.cp.rspq /\ t.cp.cidx = s.cp.cidx
      /\ t.unit = s.unit /\ t.comm = s.comm
    <2>1. t = WithHat(s, n)
        OBVIOUS
    <2> HIDE DEF t
    <2> QED BY <1>2, <1>4, <2>1, HatBase DEF Running
<1> HIDE DEF t
<1>6. FateInv(t, host) /\ t \in States /\ t.cp.perr # "NSR" /\ host \in Hosts
    <2>1. Safe(s, t, host, 0)
        BY <1>2, <1>5, AlongsideSafe DEF FateInv, Safe, SameLine
    <2> QED BY <1>2, <1>5, <2>1, SafeInv DEF Running, Base
<1>7. CASE cp.hat = 1
    <2>1. Spares(t, rq_fatal(t, "HAT"), host, 0) /\ Rest(rq_fatal(t, "HAT"), host)
        BY <1>6, FatalFate, FatalRests DEF FateInv
    <2>2. FateInv(rq_fatal(t, "HAT"), host) /\ rq_fatal(t, "HAT") \in States
        BY <1>6, <2>1, SparesInv DEF Rest
    <2> QED BY <1>3, <1>7, <2>2, BecameFate
<1>8. CASE cp.hat # 1
    BY <1>3, <1>6, <1>8, BecameFate
<1> QED BY <1>7, <1>8

LEMMA DialogueFate ==
    ASSUME IInv, FInv, rq_quesvc, cp.csta \notin {"UP", "DEAD"}
    PROVE  FInv'
<1> DEFINE s == State
           evs == s.active \ {QUEUE}
           t == WithActive(s, evs)
<1>1. s.cp = cp /\ s.active = active
    BY StateFields
<1>2. Becomes(InitThread(t)) /\ host' = host
    BY DEF rq_quesvc, WithActive
<1>3. FateInv(s, host)
    BY DEF FInv
<1> HIDE DEF s
<1>4. Rest(s, host)
    BY <1>1 DEF IInv, Running, Base, s
<1>5. evs \subseteq {QUEUE}
    BY <1>4 DEF Rest
<1>6. Rest(t, host) /\ t.cp = s.cp
    BY <1>1, <1>4, <1>5, RestActive
<1>7. t.comm = s.comm
    <2>1. Shaped(s)
        BY <1>4, StateTypes DEF Rest
    <2> QED BY <2>1, ShapedActive DEF WithActive
<1> HIDE DEF t
<1>8. FateInv(t, host)
    BY <1>3, <1>6, <1>7, RestFate
<1>9. FateInv(InitThread(t), host) /\ (Running(InitThread(t), host) \/ Rest(InitThread(t), host))
    BY <1>1, <1>6, <1>8, InitThreadFate, InitThreadKeeps
<1>10. InitThread(t) \in States
    BY <1>9 DEF Running, Base, Rest
<1> QED BY <1>2, <1>9, <1>10, BecameFate


(***************************************************************************)
(* The host.                                                               *)
(***************************************************************************)
LEMMA SameHostFate ==
    ASSUME NEW s, NEW h, FateInv(s, h), NEW g, g.got = h.got, g.sent = h.sent, g.cidx = h.cidx
    PROVE  FateInv(s, g)
BY DEF FateInv, Fates, Ahead, Free, InLine

(* A host that resets the controller has forgotten what it got. *)
LEMMA ForgottenFate ==
    ASSUME NEW s, NEW h, FateInv(s, h), s.cp.csta # "UP", NEW g, g.got = {}, g.sent = h.sent
    PROVE  FateInv(s, g)
<1>1. Fates(s, g) /\ \A x : Free(s, h, x) => Free(s, g, x)
    BY DEF FateInv, Fates, Free, Apart, Nowhere
<1> QED BY <1>1 DEF FateInv, Ahead

LEMMA WriteSAFate ==
    ASSUME IInv, FInv, WriteSA
    PROVE  FInv'
<1> DEFINE s == State
           t == State'
<1>1. PICK w \in HostWords :
          /\ cp.csta \notin {"UP", "DEAD"}
          /\ cp' = [cp EXCEPT !.saw = w]
          /\ IF cp.csta = "S4"
             THEN comm' = [comm EXCEPT !.rsp = Empty(RspLen, TRUE)] /\ host' = [host EXCEPT !.credits = 1]
             ELSE comm' = comm /\ host' = host
    BY DEF WriteSA
<1>2. s.cp = cp /\ s.comm = comm /\ t.cp = cp' /\ t.comm = comm'
    BY StateFields, NextFields
<1>3. cp \in Msc /\ host \in Hosts /\ comm \in [cmd : CmdRing, rsp : RspRing] /\ FateInv(s, host)
    BY Typed DEF FInv
<1>4. IInv' /\ cp'.csta = cp.csta
    BY <1>1, <1>3, WriteSAKeeps DEF Msc
<1>5. host'.got = host.got /\ host'.sent = host.sent /\ host'.cidx = host.cidx
    <2> DEFINE g == [host EXCEPT !.credits = 1]
    <2>1. g.got = host.got /\ g.sent = host.sent /\ g.cidx = host.cidx
        BY <1>3 DEF Hosts
    <2>2. host' = IF cp.csta = "S4" THEN g ELSE host
        BY <1>1
    <2> HIDE DEF g
    <2> QED BY <2>1, <2>2
<1>6. comm' = comm \/ comm'.rsp = Empty(RspLen, TRUE)
    <2> DEFINE ring == Empty(RspLen, TRUE)
    <2>1. [comm EXCEPT !.rsp = ring].rsp = ring
        BY <1>3
    <2>2. comm' = [comm EXCEPT !.rsp = ring] \/ comm' = comm
        BY <1>1
    <2> HIDE DEF ring
    <2>3. comm' = comm \/ comm'.rsp = ring
        BY <2>1, <2>2
    <2> QED BY <2>3 DEF ring
<1>7. Running(t, host') \/ Rest(t, host')
    BY <1>4 DEF IInv
<1> HIDE DEF s, t
<1>8. Rest(t, host')
    BY <1>1, <1>2, <1>4, <1>7 DEF Running, Base
<1>9. FateInv(t, host)
    <2>1. CASE comm' = comm
        BY <1>2, <1>3, <1>8, <2>1, RestFate
    <2>2. CASE comm'.rsp = Empty(RspLen, TRUE)
        <3>1. TRUE \in BOOLEAN /\ t.comm.rsp = Empty(RspLen, TRUE)
            BY <1>2, <2>2
        <3>2. \A i \in DOMAIN t.comm.rsp : ~Filled(t.comm.rsp[i])
            BY <3>1, RspEmpty
        <3> QED BY <1>3, <1>8, <3>2, ClearedFate
    <2> QED BY <1>6, <2>1, <2>2
<1> QED BY <1>5, <1>9, SameHostFate DEF FInv, t

LEMMA WriteIPFate ==
    ASSUME IInv, FInv, WriteIP
    PROVE  FInv'
<1> DEFINE s == State
           t == rq_reset(s)
           g == host'
<1>1. Becomes(t) /\ g = Asleep(host.sent, host.resets + 1)
    BY DEF WriteIP
<1>2. s \in States /\ host \in Hosts /\ cp.perr # "NSR" /\ s.cp = cp /\ FateInv(s, host)
    BY Typed, StateFields DEF FInv
<1> HIDE DEF s
<1>3. g \in Hosts /\ g.cidx = 0 /\ g.ridx = 0 /\ g.got = {} /\ g.sent = host.sent
    BY <1>1, <1>2, Lengths DEF Asleep, Hosts
<1>4. Rest(t, g)
    BY <1>2, <1>3, ResetRests
<1>5. t.comm = s.comm
    BY <1>2, StateTypes, ResetIs DEF AfterReset
<1> HIDE DEF t, g
<1>6. FateInv(t, host)
    BY <1>2, <1>4, <1>5, RestFate
<1>7. FateInv(t, g)
    BY <1>3, <1>4, <1>6, ForgottenFate DEF Rest
<1>8. State' = t
    BY <1>1, <1>4, Became DEF Rest
<1> QED BY <1>7, <1>8 DEF FInv, g

LEMMA ReadIPFate ==
    ASSUME IInv, FInv, ReadIP
    PROVE  FInv'
<1> DEFINE s == State
<1>1. s.cp = cp /\ FateInv(s, host)
    BY StateFields DEF FInv
<1>2. CASE cp.csta = "UP"
    <2> DEFINE m == [s.cp EXCEPT !.pip = TRUE]
               u == WithCp(s, m)
               evs == u.active \cup {QUEUE}
    <2>1. Becomes(WithActive(u, evs)) /\ host' = host
        BY <1>2 DEF ReadIP, WithCp, State, Activate, WithActive
    <2>2. Running(s, host) /\ s.cp \in Msc
        BY <1>1, <1>2, Typed
    <2> HIDE DEF s
    <2>3. m \in Msc /\ SameMsc(s.cp, m) /\ m.cidx = s.cp.cidx
        BY <2>2 DEF Msc, SameMsc
    <2> HIDE DEF m
    <2>4. Base(u, host, 0, 0) /\ AfterCp(s, u, m)
        BY <2>2, <2>3, CpBase DEF Running
    <2> HIDE DEF u
    <2>5. Safe(s, u, host, 0)
        BY <1>1, <2>3, <2>4, AlongsideSafe DEF FateInv, AfterCp, SameMsc, Safe, SameLine
    <2>6. FateInv(u, host) /\ u \in States /\ u.cp.csta = "UP"
        BY <1>1, <1>2, <2>4, <2>5, SafeInv DEF Base
    <2>7. u.active \subseteq 0 .. NumDrives + 1
        BY <2>6, StateTypes
    <2>8. evs \subseteq 0 .. NumDrives + 1
        BY <2>7, Lengths DEF QUEUE
    <2> HIDE DEF evs
    <2>9. Base(WithActive(u, evs), host, 0, 0) /\ Safe(u, WithActive(u, evs), host, 0)
        BY <2>4, <2>6, <2>8, BaseActive, RequeuedFate DEF FateInv
    <2>10. FateInv(WithActive(u, evs), host) /\ WithActive(u, evs) \in States
        BY <2>6, <2>9, SafeInv DEF Base
    <2> QED BY <2>1, <2>10, BecameFate
<1>3. CASE cp.csta = "S3_PPB"
    <2>1. Becomes(rq_step4(s)) /\ host' = host
        BY <1>3 DEF ReadIP
    <2>2. Rest(s, host)
        BY <1>3, Typed
    <2> HIDE DEF s
    <2>3. Still(s, host) /\ Shaped(s)
        BY <1>1, <1>3, <2>2, StateTypes DEF Rest, Still
    <2> DEFINE t == rq_step4(s)
    <2>4. Rest(t, host) /\ (t.comm = s.comm \/ t.comm = NoRings)
        BY <2>3, Step4Rests, Step4Rings
    <2>5. \A i \in DOMAIN NoRings.rsp : ~Filled(NoRings.rsp[i])
        BY RspEmpty DEF NoRings
    <2> HIDE DEF t
    <2>6. FateInv(t, host) /\ t \in States
        <3>1. CASE t.comm = s.comm
            BY <1>1, <2>4, <3>1, RestFate DEF Rest
        <3>2. CASE t.comm = NoRings
            BY <1>1, <2>4, <2>5, <3>2, ClearedFate DEF Rest
        <3> QED BY <2>4, <3>1, <3>2
    <2> QED BY <2>1, <2>6, BecameFate DEF t
<1> QED BY <1>2, <1>3 DEF ReadIP

(* Only the interrupt and the host's attention differ. *)
LEMMA AttentionFate ==
    ASSUME FInv, TakeInterrupt \/ Look \/ Sleep, IInv
    PROVE  FInv'
<1> DEFINE s == State
           t == State'
<1>1. /\ cp' = cp \/ cp' = [cp EXCEPT !.irq = FALSE]
      /\ host' = [host EXCEPT !.awake = TRUE] \/ host' = [host EXCEPT !.awake = FALSE]
      /\ unit' = unit /\ comm' = comm
    BY DEF TakeInterrupt, Look, Sleep
<1>2. cp \in Msc /\ host \in Hosts /\ FateInv(s, host)
    BY Typed DEF FInv
<1>3. cp'.rspq = cp.rspq /\ cp'.cidx = cp.cidx /\ cp'.csta = cp.csta
    BY <1>1, <1>2 DEF Msc
<1>4. host'.got = host.got /\ host'.sent = host.sent /\ host'.cidx = host.cidx
    BY <1>1, <1>2 DEF Hosts
<1>5. /\ s.cp = cp /\ s.unit = unit /\ s.comm = comm
      /\ t.cp = cp' /\ t.unit = unit' /\ t.comm = comm'
    BY StateFields, NextFields
<1> HIDE DEF s, t
<1>6. Safe(s, t, host, 0) /\ t.cp.csta = s.cp.csta
    BY <1>1, <1>2, <1>3, <1>5, AlongsideSafe DEF FateInv, Safe, SameLine
<1>7. FateInv(t, host)
    BY <1>2, <1>6, SafeInv
<1> QED BY <1>4, <1>7, SameHostFate DEF FInv, t

(* A command is given to the controller. *)
LEMMA SendCommandFate ==
    ASSUME IInv, FInv, SendCommand
    PROVE  FInv'
<1> DEFINE i == host.cidx
           s == State
           t == State'
           g == host'
<1>1. PICK c \in Shapes : comm' = [comm EXCEPT !.cmd[i] = [own |-> TRUE, pkt |-> Numbered(c, host.sent + 1)]]
    BY DEF SendCommand
<1> DEFINE e == [own |-> TRUE, pkt |-> Numbered(c, host.sent + 1)]
           ring == [comm.cmd EXCEPT ![i] = e]
<1>2. /\ cp.csta = "UP" /\ ~comm.cmd[i].own /\ cp' = cp /\ unit' = unit
      /\ host' = [host EXCEPT !.sent = @ + 1, !.credits = @ - 1, !.cidx = (@ + 1) % CmdLen]
    BY DEF SendCommand
<1>3. /\ s \in States /\ host \in Hosts /\ comm \in [cmd : CmdRing, rsp : RspRing] /\ comm.cmd \in CmdRing
      /\ FateInv(s, host)
    BY Typed DEF FInv
<1>4. /\ s.cp = cp /\ s.unit = unit /\ s.comm = comm
      /\ t.cp = cp' /\ t.unit = unit' /\ t.comm = comm'
    BY StateFields, NextFields
<1>5. e.own /\ e.pkt.ref = host.sent + 1
    <2>1. c \in Shape
        BY MscpAssumption
    <2> QED BY <2>1 DEF Numbered, Shape
<1>6. comm' = [comm EXCEPT !.cmd = ring]
    BY <1>1, <1>3
<1> HIDE DEF e, ring
<1>7. comm'.cmd = ring /\ comm'.rsp = comm.rsp
    BY <1>3, <1>6
<1>8. g.got = host.got /\ g.sent = host.sent + 1 /\ g.cidx = (host.cidx + 1) % CmdLen
    <2> DEFINE a == host.sent + 1
               b == host.credits - 1
               r == (host.cidx + 1) % CmdLen
    <2>1. host' = [host EXCEPT !.sent = a, !.credits = b, !.cidx = r]
        BY <1>2
    <2> HIDE DEF a, b, r
    <2>2. host'.got = host.got /\ host'.sent = a /\ host'.cidx = r
        BY <1>3, <2>1 DEF Hosts
    <2> QED BY <2>2 DEF a, r
<1> HIDE DEF s, t, g
<1>9. PICK n \in 0 .. CmdLen : Ahead(s, host, n) /\ InLine(s, host, n)
    BY <1>2, <1>3, <1>4 DEF FateInv
<1>10. n + 1 \in 0 .. CmdLen /\ InLine(t, g, n + 1)
    <2>1. t.comm.cmd = [s.comm.cmd EXCEPT ![host.cidx] = e] /\ t.cp = s.cp /\ ~s.comm.cmd[host.cidx].own
        BY <1>2, <1>4, <1>7 DEF ring
    <2> QED BY <1>3, <1>5, <1>8, <1>9, <2>1, SendLine
<1>11. Fates(t, g) /\ \A x : Free(t, g, x) <=> Free(s, host, x)
    BY <1>2, <1>3, <1>4, <1>7, <1>8 DEF FateInv, Fates, Free
<1>12. host.sent \in Nat /\ n \in Nat
    BY <1>3, HostTypes, Lengths DEF Hosts
<1>13. \A x \in Ref : x > g.sent - (n + 1) => x > host.sent - n
    BY <1>8, <1>12 DEF Ref
<1>14. Ahead(t, g, n + 1)
    BY <1>9, <1>11, <1>13 DEF Ahead
<1>15. FateInv(t, g)
    BY <1>10, <1>11, <1>14 DEF FateInv
<1> QED BY <1>15 DEF FInv, t, g

(* An end packet goes from the ring to the host. *)
LEMMA ReadFate ==
    ASSUME NEW U, NEW q, NEW R, NEW G, Apart(U, q, R, G), NEW i \in DOMAIN R, Filled(R[i]),
           NEW e, ~Filled(e), NEW H, H = IF R[i].pkt.end THEN G \cup {R[i].pkt.ref} ELSE G
    PROVE  LET S == [R EXCEPT ![i] = e]
           IN  /\ Apart(U, q, S, H)
               /\ \A x \in Ref : Nowhere(U, q, R, G, x) => Nowhere(U, q, S, H, x)
<1> DEFINE S == [R EXCEPT ![i] = e]
           p == R[i].pkt
<1>1. Scattered(R)
    BY DEF Apart
<1>2. Scattered(S) /\ \A x : Lying(S, x) => Lying(R, x)
    BY <1>1, EntryFate
<1>3. p.end => Lying(R, p.ref) /\ ~Lying(S, p.ref)
    <2>1. DOMAIN S = DOMAIN R /\ S[i] = e /\ \A j \in DOMAIN R : j # i => S[j] = R[j]
        OBVIOUS
    <2> HIDE DEF S
    <2> QED BY <1>1, <2>1 DEF Scattered, Lying, Ending
<1> HIDE DEF S, p
<1>4. \A x \in Ref : Lying(S, x) => Lying(R, x) \/ (x = 0 /\ Nowhere(U, q, R, G, 0))
    BY <1>2
<1>5. /\ Apart(U, q, S, G)
      /\ \A x \in Ref : x # 0 /\ Nowhere(U, q, R, G, x) => Nowhere(U, q, S, G, x)
      /\ \A x \in Ref : Lying(R, x) /\ ~Lying(S, x) => Nowhere(U, q, S, G, x)
    BY <1>2, <1>4, RingFate
<1>6. CASE p.end
    <2>1. H = G \cup {p.ref}
        BY <1>6 DEF p
    <2>2. p.ref \in Ref => Nowhere(U, q, S, G, p.ref)
        BY <1>3, <1>5, <1>6
    <2>3. Apart(U, q, S, H)
        BY <1>5, <2>1, <2>2 DEF Apart, Nowhere
    <2>4. \A x \in Ref : Nowhere(U, q, R, G, x) => Nowhere(U, q, S, H, x)
        BY <1>3, <1>5, <1>6, <2>1 DEF Nowhere, Ref
    <2> QED BY <2>3, <2>4 DEF S
<1>7. CASE ~p.end
    <2>1. H = G
        BY <1>7 DEF p
    <2> QED BY <1>5, <2>1 DEF S, Ref
<1> QED BY <1>6, <1>7

LEMMA ReadResponseFate ==
    ASSUME IInv, FInv, ReadResponse
    PROVE  FInv'
<1> DEFINE i == host.ridx
           x == comm.rsp[i]
           ring == [comm.rsp EXCEPT ![i] = Blank]
           new == IF x.pkt.end THEN host.got \cup {x.pkt.ref} ELSE host.got
           s == State
           t == State'
           g == host'
<1>1. /\ Filled(x) /\ cp' = cp /\ unit' = unit
      /\ comm' = [comm EXCEPT !.rsp[i] = Blank]
      /\ host' = [host EXCEPT !.ridx = (@ + 1) % RspLen,
                              !.got = IF x.pkt.end THEN @ \cup {x.pkt.ref} ELSE @,
                              !.credits = IF x.pkt.end THEN @ + x.pkt.cr + 1 ELSE @]
    BY DEF ReadResponse, Response, Blank
<1>2. /\ host \in Hosts /\ comm \in [cmd : CmdRing, rsp : RspRing] /\ comm.rsp \in RspRing /\ FateInv(s, host)
    BY Typed DEF FInv
<1>3. i \in DOMAIN comm.rsp
    <2>1. i \in 0 .. RspLen - 1
        BY <1>2, HostTypes
    <2> QED BY <1>2, <2>1 DEF RspRing
<1>4. /\ s.cp = cp /\ s.unit = unit /\ s.comm = comm
      /\ t.cp = cp' /\ t.unit = unit' /\ t.comm = comm'
    BY StateFields, NextFields
<1>5. comm' = [comm EXCEPT !.rsp = ring]
    BY <1>1, <1>2
<1>6. ~Filled(Blank)
    BY DEF Filled, Blank
<1>7. g.got = new /\ g.sent = host.sent /\ g.cidx = host.cidx
    <2> DEFINE a == (host.ridx + 1) % RspLen
               b == IF x.pkt.end THEN host.credits + x.pkt.cr + 1 ELSE host.credits
    <2>1. host' = [host EXCEPT !.ridx = a, !.got = new, !.credits = b]
        BY <1>1
    <2> HIDE DEF a, b, new
    <2> QED BY <1>2, <2>1 DEF Hosts
<1>8. /\ Apart(unit, cp.rspq, ring, new)
      /\ \A y \in Ref : Nowhere(unit, cp.rspq, comm.rsp, host.got, y) => Nowhere(unit, cp.rspq, ring, new, y)
    <2>1. Apart(unit, cp.rspq, comm.rsp, host.got)
        BY <1>2, <1>4 DEF FateInv, Fates
    <2> DEFINE R == comm.rsp
               q == cp.rspq
               G == host.got
    <2>2. Apart(unit, q, R, G) /\ i \in DOMAIN R /\ Filled(R[i]) /\ ~Filled(Blank)
          /\ new = (IF R[i].pkt.end THEN G \cup {R[i].pkt.ref} ELSE G)
        BY <1>1, <1>3, <1>6, <2>1
    <2>3. /\ Apart(unit, q, [R EXCEPT ![i] = Blank], new)
          /\ \A y \in Ref : Nowhere(unit, q, R, G, y) => Nowhere(unit, q, [R EXCEPT ![i] = Blank], new, y)
        <3> HIDE DEF R, q, G, new, i
        <3> QED BY <2>2, ReadFate
    <2> QED BY <2>3
<1> HIDE DEF ring, new, x, i
<1>9. comm'.rsp = ring /\ comm'.cmd = comm.cmd
    BY <1>2, <1>5
<1> HIDE DEF s, t, g
<1>10. Fates(t, g) /\ \A y \in Ref : Free(s, host, y) => Free(t, g, y)
    BY <1>1, <1>4, <1>7, <1>8, <1>9 DEF Fates, Free
<1>11. PICK n \in 0 .. CmdLen : Ahead(s, host, n) /\ (s.cp.csta = "UP" => InLine(s, host, n))
    BY <1>2 DEF FateInv
<1>12. Ahead(t, g, n)
    BY <1>7, <1>10, <1>11 DEF Ahead
<1>13. t.cp.csta = "UP" => InLine(t, g, n)
    BY <1>1, <1>4, <1>7, <1>9, <1>11 DEF InLine
<1>14. FateInv(t, g)
    BY <1>10, <1>11, <1>12, <1>13 DEF FateInv
<1> QED BY <1>14 DEF FInv, t, g


(***************************************************************************)
(* The theorem.                                                            *)
(***************************************************************************)
LEMMA InitFate ==
    ASSUME Init
    PROVE  FInv
<1> DEFINE s == State
           m == ResetMsc("none")
<1>1. /\ cp = m /\ comm = NoRings /\ host = Asleep(0, 0)
      /\ unit = [d \in Drive |-> [onl |-> FALSE, cpkt |-> Nil, pktq |-> <<>>,
                                  io_complete |-> FALSE, io_status |-> FALSE, io_ref |-> 0]]
    BY DEF Init
<1>2. m.csta = "S1" /\ m.rspq = <<>>
    BY ResetMscIs
<1> HIDE DEF m
<1>3. s.cp = cp /\ s.unit = unit /\ s.comm = comm
    BY StateFields
<1>4. DOMAIN <<>> = {}
    OBVIOUS
<1> HIDE DEF s
<1>5. \A d \in Drive : s.unit[d].cpkt = Nil /\ s.unit[d].pktq = <<>>
    BY <1>1, <1>3
<1>6. \A d \in Drive : Sorted(s.unit[d]) /\ \A x \in Ref : ~Has(s.unit[d], x)
    BY <1>4, <1>5 DEF Sorted, Has, Nil, Ref
<1>7. Separate(s.unit) /\ \A x \in Ref : ~HeldBy(s.unit, x)
    BY <1>6 DEF Separate, HeldBy
<1>8. Single(s.cp.rspq) /\ \A x : ~Queued(s.cp.rspq, x)
    BY <1>1, <1>2, <1>3, <1>4 DEF Single, Queued
<1>9. Scattered(s.comm.rsp) /\ \A x : ~Lying(s.comm.rsp, x)
    <2>1. \A i \in DOMAIN NoRings.rsp : ~Filled(NoRings.rsp[i])
        BY RspEmpty DEF NoRings
    <2>2. s.comm.rsp = NoRings.rsp
        BY <1>1, <1>3
    <2> QED BY <2>1, <2>2 DEF Scattered, Lying
<1>10. host.got = {}
    BY <1>1 DEF Asleep
<1>11. Fates(s, host) /\ \A x \in Ref : Free(s, host, x)
    BY <1>7, <1>8, <1>9, <1>10 DEF Fates, Free, Apart, Nowhere
<1>12. 0 \in 0 .. CmdLen
    BY Lengths
<1>13. s.cp.csta # "UP"
    BY <1>1, <1>2, <1>3
<1>14. FateInv(s, host)
    BY <1>11, <1>12, <1>13 DEF FateInv, Ahead
<1> QED BY <1>14 DEF FInv, s

LEMMA StepFate ==
    ASSUME IInv, FInv, [Next]_vars
    PROVE  FInv'
<1>1. CASE rq_quesvc
    BY <1>1, ThreadFate, DialogueFate
<1>2. CASE rq_tmrsvc
    BY <1>2, TimerFate
<1>3. ASSUME NEW d \in Drive, rq_svc(d) PROVE FInv'
    BY <1>3, TopFate, BottomFate DEF rq_svc
<1>4. CASE Host
    BY <1>4, WriteSAFate, WriteIPFate, ReadIPFate, SendCommandFate, AttentionFate, ReadResponseFate DEF Host
<1>5. CASE UNCHANGED vars
    <2>1. State' = State /\ host' = host
        BY <1>5 DEF vars, State
    <2> QED BY <2>1 DEF FInv
<1> QED BY <1>1, <1>2, <1>3, <1>4, <1>5 DEF Next

(* A drive's commands, the one it works on first, are in order. *)
LEMMA InOrder ==
    ASSUME NEW u \in Unit, Sorted(u)
    PROVE  /\ \A i \in Entries(u) : i \in Nat /\ Entry(u, i).ref \in Nat /\ Has(u, Entry(u, i).ref)
           /\ \A i, j \in Entries(u) : i < j => Entry(u, i).ref < Entry(u, j).ref
<1>1. /\ u.cpkt.ref \in Nat /\ Len(u.pktq) \in Nat /\ DOMAIN u.pktq = 1 .. Len(u.pktq)
      /\ \A i \in DOMAIN u.pktq : u.pktq[i].ref \in Ref
    BY EntryRefs
<1>2. ASSUME NEW i \in Entries(u)
      PROVE  i \in Nat /\ (i # 0 => i \in DOMAIN u.pktq) /\ Entry(u, i) = IF i = 0 THEN u.cpkt ELSE u.pktq[i]
    BY <1>1 DEF Entries, Entry
<1>3. \A i \in Entries(u) : i \in Nat /\ Entry(u, i).ref \in Nat /\ Has(u, Entry(u, i).ref)
    BY <1>1, <1>2 DEF Has, Ref
<1>4. ASSUME NEW i \in Entries(u), NEW j \in Entries(u), i < j
      PROVE  Entry(u, i).ref < Entry(u, j).ref
    <2>1. j # 0 /\ j \in DOMAIN u.pktq /\ Entry(u, j) = u.pktq[j]
        BY <1>2, <1>4
    <2>2. CASE i = 0
        BY <1>2, <2>1, <2>2 DEF Sorted
    <2>3. CASE i # 0
        BY <1>2, <1>4, <2>1, <2>3 DEF Sorted
    <2> QED BY <2>2, <2>3
<1> QED BY <1>3, <1>4

LEMMA PlacesAre ==
    ASSUME NEW r, NEW x \in Places(r)
    PROVE  \/ \E d \in Drive : \E i \in Entries(unit[d]) : x = <<"drive", d, i>> /\ Entry(unit[d], i).ref = r
           \/ \E i \in DOMAIN cp.rspq : x = <<"waiting", 0, i>> /\ Ending(cp.rspq[i], r)
           \/ \E i \in DOMAIN comm.rsp : x = <<"ring", 0, i>> /\ Filled(comm.rsp[i]) /\ Ending(comm.rsp[i].pkt, r)
           \/ x = <<"host", 0, r>> /\ r \in host.got
<1>1. x \in OnDrives(r) \/ x \in InWaiting(r) \/ x \in OnRing(r) \/ x \in WithHost(r)
    BY DEF Places
<1>2. CASE x \in OnDrives(r)
    <2> DEFINE A(d) == {<<"drive", d, i>> : i \in {j \in Entries(unit[d]) : Entry(unit[d], j).ref = r}}
    <2>1. PICK d \in Drive : x \in A(d)
        <3>1. OnDrives(r) = UNION {A(d) : d \in Drive}
            BY DEF OnDrives
        <3> HIDE DEF A
        <3> QED BY <1>2, <3>1
    <2>2. PICK i \in {j \in Entries(unit[d]) : Entry(unit[d], j).ref = r} : x = <<"drive", d, i>>
        BY <2>1
    <2>3. i \in Entries(unit[d]) /\ Entry(unit[d], i).ref = r
        OBVIOUS
    <2> QED BY <2>2, <2>3
<1>3. CASE x \in InWaiting(r)
    BY <1>3 DEF InWaiting, Ending
<1>4. CASE x \in OnRing(r)
    BY <1>4 DEF OnRing, Ending
<1>5. CASE x \in WithHost(r)
    BY <1>5 DEF WithHost
<1> QED BY <1>1, <1>2, <1>3, <1>4, <1>5

LEMMA FatesApart ==
    ASSUME IInv, FInv
    PROVE  OneFate
<1> DEFINE s == State
<1>1. s.cp = cp /\ s.unit = unit /\ s.comm = comm
    BY StateFields
<1>2. Apart(unit, cp.rspq, comm.rsp, host.got) /\ unit \in Drives /\ host \in Hosts
    BY <1>1, Typed DEF FInv, FateInv, Fates
<1>3. \A d \in Drive : unit[d] \in Unit /\ Sorted(unit[d])
    BY <1>2 DEF Drives, Apart, Separate
<1>4. \A d \in Drive : /\ \A i \in Entries(unit[d]) : i \in Nat /\ Entry(unit[d], i).ref \in Nat /\ Has(unit[d], Entry(unit[d], i).ref)
                       /\ \A i, j \in Entries(unit[d]) : i < j => Entry(unit[d], i).ref < Entry(unit[d], j).ref
    BY <1>3, InOrder
<1>5. ASSUME NEW r \in 1 .. host.sent, NEW x \in Places(r), NEW y \in Places(r)
      PROVE  x = y
    <2>1. r \in Ref
        <3>1. host.sent \in Nat
            BY <1>2, HostTypes DEF Hosts
        <3> QED BY <3>1 DEF Ref
    <2> DEFINE OnDrive(z, d, i) == z = <<"drive", d, i>> /\ Entry(unit[d], i).ref = r
               Waits(z, i) == z = <<"waiting", 0, i>> /\ Ending(cp.rspq[i], r)
               Lies(z, i) == z = <<"ring", 0, i>> /\ Filled(comm.rsp[i]) /\ Ending(comm.rsp[i].pkt, r)
               Got(z) == z = <<"host", 0, r>> /\ r \in host.got
               D(z) == \E d \in Drive : \E i \in Entries(unit[d]) : OnDrive(z, d, i)
               W(z) == \E i \in DOMAIN cp.rspq : Waits(z, i)
               L(z) == \E i \in DOMAIN comm.rsp : Lies(z, i)
    <2>2. \A z \in {x, y} : D(z) \/ W(z) \/ L(z) \/ Got(z)
        BY PlacesAre
    <2>3. \A z : /\ D(z) => HeldBy(unit, r)
                 /\ W(z) => Queued(cp.rspq, r)
                 /\ L(z) => Lying(comm.rsp, r)
                 /\ Got(z) => r \in host.got
        BY <1>4 DEF HeldBy, Queued, Lying
    <2>4. \A z, v : D(z) /\ D(v) => z = v
        <3> SUFFICES ASSUME NEW z, NEW v, NEW d \in Drive, NEW i \in Entries(unit[d]), OnDrive(z, d, i),
                            NEW e \in Drive, NEW j \in Entries(unit[e]), OnDrive(v, e, j)
                     PROVE  z = v
            OBVIOUS
        <3>1. d = e
            BY <1>2, <1>4, <2>1 DEF Apart, Separate
        <3>2. i \in Nat /\ j \in Nat /\ r \in Nat
            BY <1>4, <2>1 DEF Ref
        <3>3. ~(i < j) /\ ~(j < i)
            <4>1. (i < j => r < r) /\ (j < i => r < r)
                BY <1>4, <3>1
            <4> QED BY <3>2, <4>1
        <3>4. i = j
            BY <3>2, <3>3
        <3> QED BY <3>1, <3>4
    <2>5. \A z, v : W(z) /\ W(v) => z = v
        <3> SUFFICES ASSUME NEW z, NEW v, NEW i \in DOMAIN cp.rspq, Waits(z, i), NEW j \in DOMAIN cp.rspq, Waits(v, j)
                     PROVE  z = v
            OBVIOUS
        <3>1. i = j
            BY <1>2 DEF Apart, Single, Ending
        <3> QED BY <3>1
    <2>6. \A z, v : L(z) /\ L(v) => z = v
        <3> SUFFICES ASSUME NEW z, NEW v, NEW i \in DOMAIN comm.rsp, Lies(z, i), NEW j \in DOMAIN comm.rsp, Lies(v, j)
                     PROVE  z = v
            OBVIOUS
        <3>1. i = j
            BY <1>2 DEF Apart, Scattered, Ending
        <3> QED BY <3>1
    <2>7. \A z, v : Got(z) /\ Got(v) => z = v
        OBVIOUS
    <2>8. /\ HeldBy(unit, r) => ~Queued(cp.rspq, r) /\ ~Lying(comm.rsp, r) /\ r \notin host.got
          /\ Queued(cp.rspq, r) => ~Lying(comm.rsp, r) /\ r \notin host.got
          /\ Lying(comm.rsp, r) => r \notin host.got
        BY <1>2, <2>1 DEF Apart
    <2> HIDE DEF D, W, L, Got
    <2> QED BY <2>2, <2>3, <2>4, <2>5, <2>6, <2>7, <2>8
<1> QED BY <1>4, <1>5 DEF OneFate

(* rq_getpkt, rq_mscp, rq_abo, rq_rw_end, rq_putpkt: no command that the   *)
(* host has sent is ever doubled, whatever it aborts and however often it  *)
(* resets the controller: it or its end packet is in one place at most, on *)
(* a drive, among the waiting responses, in the ring or with the host; and *)
(* a drive does its commands in the order in which they came.              *)
THEOREM CommandsHaveOneFate == Spec => []OneFate
<1>1. Init => IInv /\ FInv
    BY InitRests, InitFate
<1>2. IInv /\ FInv /\ [Next]_vars => (IInv /\ FInv)'
    BY StepKeeps, StepFate
<1>3. IInv /\ FInv => OneFate
    BY FatesApart
<1> QED BY <1>1, <1>2, <1>3, PTL DEF Spec

=============================================================================
