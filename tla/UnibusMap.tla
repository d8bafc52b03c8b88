----------------------------- MODULE UnibusMap -----------------------------
(***************************************************************************)
(* How a device reaches memory (Map_ReadB, Map_ReadW, Map_WriteB and       *)
(* Map_WriteW of pdp11_io.c): directly on the Qbus and on an 18 bit        *)
(* Unibus, through the Unibus map, which the program sets by words and     *)
(* bytes, on the 22 bit machines with a Unibus; there the I/O page too can *)
(* be reached.                                                             *)
(*                                                                         *)
(* Addresses count bytes; a byte of memory is any value, a byte of the map *)
(* a number below MapByte.                                                 *)
(***************************************************************************)
EXTENDS Integers, Sequences, FiniteSets

CONSTANTS
    Page, UniSize, Physical,   \* 2^13, 2^18 and 2^22
    MapByte,                   \* 2^8
    DmaMemory,                 \* bus |-> MEMSIZE
    IoWords, IoCpu,            \* words of the I/O page that answer, of the processor's
    DmaRequests,                 \* what a device asks for: first address and byte count
    MapWrites,                 \* where and what the program writes to the map
    MaxDma

VARIABLES
    bus,             \* "Q", "U18" or "U22"; cpu_bme; ub_map; uba_last; what the map was told
    dmamem,          \* memory, and behind it the words of the I/O page
    dma              \* the last transfer, and how many steps there were

UNIBUS == bus.kind # "Q"
MEMSIZE == DmaMemory[bus.kind]
ADDR_IS_MEM(pa) == pa < MEMSIZE
IOPAGEBASE == Physical - Page
UnibusIoPage == UniSize - Page
LastPage == UniSize \div Page - 1
MapPages == 0 .. LastPage

-----------------------------------------------------------------------------
(***************************************************************************)
(* The map: of each page two words, of which the lower is even.  Mutant: a *)
(* byte goes to the half of the entry its word would go to.                *)
(***************************************************************************)
Even(n) == n - (n % 2)
Power(k) == MapByte ^ k
PlaceAsWord(addr, byte) == (addr % 4) - (addr % 2)
Place(addr, byte) == IF byte THEN addr % 4 ELSE (addr % 4) - (addr % 2)
Size(byte) == IF byte THEN MapByte ELSE MapByte * MapByte
ubm_wr(map, addr, data, byte) ==
    LET pg == addr \div 4
        unit == Power(Place(addr, byte))
        old == (map[pg] \div unit) % Size(byte)
    IN  [map EXCEPT ![pg] = Even((@ - old * unit + data * unit) % Physical)]
ubm_rd(map, addr) ==
    LET m == map[addr \div 4] IN
    IF (addr \div 2) % 2 = 1 THEN m \div Power(2) ELSE Even(m % Power(2))

Map_Addr(ba) ==
    LET pg == (ba \div Page) % (LastPage + 1)
        off == ba % Page
    IN  IF pg # LastPage THEN (bus.map[pg] + off) % Physical ELSE (IOPAGEBASE + off) % Physical

-----------------------------------------------------------------------------
(***************************************************************************)
(* How far a transfer of the bytes (or words) from ba on comes, and where  *)
(* it goes.  On a Unibus one that begins in the I/O page stays there, and  *)
(* ends at a register of the processor or where nothing answers; an odd    *)
(* transfer of words does not begin.                                       *)
(***************************************************************************)
Step(words) == IF words THEN 2 ELSE 1
Within(a) == Even(a) \in IoWords \ IoCpu
InIoPage(t) == UNIBUS /\ t.ba >= UnibusIoPage

(* The first of the n places that is not good, or n. *)
Upto(n, step, Good(_)) ==
    LET bad == {i \in 0 .. n - 1 : i % step = 0 /\ ~Good(i)}
    IN  IF bad = {} THEN n ELSE CHOOSE i \in bad : \A j \in bad : i <= j

Trimmed(t) ==
    LET ba == t.ba % (IF UNIBUS THEN UniSize ELSE Physical)
    IN  IF t.words THEN [t EXCEPT !.ba = Even(ba), !.bc = Even(t.bc)] ELSE [t EXCEPT !.ba = ba]

(* Mutant: a transfer whose end is not in memory does not begin. *)
PhysicalAllOrNothing(t, lim) == IF ADDR_IS_MEM(lim) THEN lim ELSE t.ba
PhysicalEnd(t, lim) ==
    IF ADDR_IS_MEM(lim) THEN lim ELSE IF ADDR_IS_MEM(t.ba) THEN MEMSIZE ELSE t.ba

(* Bytes moved, and the residue that is returned. *)
Moved(t) ==
    IF InIoPage(t)
    THEN LET Good(i) == Within(t.ba + i)
             n == IF t.words /\ (t.ba % 2 = 1 \/ t.bc % 2 = 1) THEN 0 ELSE Upto(t.bc, Step(t.words), Good)
         IN  [moved |-> n, residue |-> t.bc - n]
    ELSE LET u == Trimmed(t)
             lim == u.ba + u.bc
             Good(i) == ADDR_IS_MEM(Map_Addr(u.ba + i))
             n == IF bus.bme THEN Upto(u.bc, Step(t.words), Good) ELSE PhysicalEnd(u, lim) - u.ba
         IN  [moved |-> n,
              residue |-> IF ~bus.bme /\ ~ADDR_IS_MEM(lim) /\ ~ADDR_IS_MEM(u.ba) THEN t.bc ELSE u.bc - n]

(* The cell of the i-th byte. *)
IoCell(a) == <<"io", a>>
Cell(a) == <<"memory", a>>
MappedAtStart(u, i) == Map_Addr(u.ba) + i
MappedPlace(u, i) == Map_Addr(u.ba + i)
Where(t, i) ==
    IF InIoPage(t) THEN IoCell(t.ba + i)
    ELSE LET u == Trimmed(t) IN
         Cell(IF bus.bme THEN (IF t.words THEN MappedPlace(u, Even(i)) + (i % 2) ELSE MappedPlace(u, i)) ELSE u.ba + i)

(* The last address that was mapped. *)
Mapped(t, moved) ==
    LET u == Trimmed(t)
        tried == IF moved < u.bc THEN moved ELSE u.bc - Step(t.words)
    IN  IF InIoPage(t) \/ ~bus.bme \/ u.bc = 0 THEN bus.last ELSE Map_Addr(u.ba + tried)

Data(i) == 200 + i

-----------------------------------------------------------------------------
(* The program sets the map, and then one transfer is looked at. *)
Idle == dma.did = <<>>
Steps == Idle /\ dma.count < MaxDma
Quiet == dma' = [dma EXCEPT !.count = @ + 1]

Map_Read ==
    \E x \in DmaRequests, words \in BOOLEAN :
        LET t == [ba |-> x[1], bc |-> x[2], words |-> words]
            n == Moved(t)
        IN  /\ Idle
            /\ bus' = [bus EXCEPT !.last = Mapped(t, n.moved)]
            /\ dma' = [dma EXCEPT !.did = <<[op |-> "read", t |-> t, residue |-> n.residue, before |-> dmamem,
                                  buf |-> [i \in 0 .. n.moved - 1 |-> dmamem[Where(t, i)]]]>>]
            /\ UNCHANGED dmamem

Map_Write ==
    \E x \in DmaRequests, words \in BOOLEAN :
        LET t == [ba |-> x[1], bc |-> x[2], words |-> words]
            n == Moved(t)
        IN  /\ Idle
            /\ bus' = [bus EXCEPT !.last = Mapped(t, n.moved)]
            /\ dmamem' = [c \in DOMAIN dmamem |->
                            LET mine == {i \in 0 .. n.moved - 1 : Where(t, i) = c}
                            IN  IF mine = {} THEN dmamem[c] ELSE Data(CHOOSE i \in mine : \A j \in mine : j <= i)]
            /\ dma' = [dma EXCEPT !.did = <<[op |-> "write", t |-> t, residue |-> n.residue, before |-> dmamem, buf |-> <<>>]>>]

(* The program writes to the map, and turns it on and off (MMR3). *)
SetMap ==
    \E w \in MapWrites, byte \in BOOLEAN :
        LET data == w[2] % Size(byte)
            first == Place(w[1], byte)
        IN  /\ bus.kind = "U22" /\ Steps /\ (~byte => w[1] % 2 = 0)
            /\ bus' = [bus EXCEPT !.map = ubm_wr(@, w[1], data, byte),
                         !.told[w[1] \div 4] = [k \in 0 .. 3 |->
                             IF byte THEN (IF k = w[1] % 4 THEN data ELSE @[k])
                             ELSE IF k = w[1] % 4 THEN data % MapByte
                             ELSE IF k = (w[1] % 4) + 1 THEN data \div MapByte ELSE @[k]]]
            /\ Quiet /\ UNCHANGED dmamem

Enable ==
    /\ bus.kind = "U22" /\ Steps
    /\ bus' = [bus EXCEPT !.bme = ~@]
    /\ Quiet /\ UNCHANGED dmamem

DmaInit ==
    \E kind \in DOMAIN DmaMemory :
        /\ bus = [kind |-> kind, bme |-> FALSE, map |-> [p \in MapPages |-> 0], last |-> 0,
                  told |-> [p \in MapPages |-> [k \in 0 .. 3 |-> 0]]]
        /\ dmamem = [c \in {Cell(a) : a \in 0 .. DmaMemory[kind] - 1} \cup {IoCell(a) : a \in UnibusIoPage .. UniSize - 1}
                        |-> 100 + c[2]]
        /\ dma = [count |-> 0, did |-> <<>>]

DmaNext == Map_Read \/ Map_Write \/ SetMap \/ Enable

-----------------------------------------------------------------------------
(***************************************************************************)
(* What a transfer should do, byte by byte: each byte goes where the bus   *)
(* and the map send its own address.  Words begin at an even address and   *)
(* are an even number of bytes.  (With the map off, a transfer that runs   *)
(* into the I/O page of a machine with more memory than that comes into    *)
(* memory instead.)                                                        *)
(***************************************************************************)
PlaceOf(b, first, a) ==
    IF b.kind # "Q" /\ a >= UnibusIoPage /\ (b.bme \/ first >= UnibusIoPage) THEN IoCell(a)
    ELSE IF ~b.bme THEN Cell(a % (IF b.kind = "Q" THEN Physical ELSE UniSize))
    ELSE LET told == b.told[a \div Page]
         IN  Cell(((Even(told[0] + MapByte * told[1] + MapByte * MapByte * told[2]) % Physical) + (a % Page)) % Physical)
There(b, c) == IF c[1] = "io" THEN Within(c[2]) ELSE c[2] < DmaMemory[b.kind]

(* The bytes asked for that were moved are those at the beginning, up to   *)
(* the first that is not there; they and no others were moved; and the     *)
(* residue says how many were not.                                         *)
TransferExact(d) ==
    LET t == d.t
        refused == t.words /\ InIoPage(t) /\ (t.ba % 2 = 1 \/ t.bc % 2 = 1)
        first == IF t.words THEN Even(t.ba) ELSE t.ba
        asked == IF t.words THEN Even(t.bc) ELSE t.bc
        C(i) == PlaceOf(bus, first, first + i)
        stays(i) == InIoPage(t) = (C(i)[1] = "io")
        moved == IF d.residue = t.bc THEN 0 ELSE asked - d.residue
    IN  IF refused THEN d.residue = t.bc /\ d.buf = <<>> /\ dmamem = d.before
        ELSE /\ moved \in 0 .. asked
             /\ \A i \in 0 .. moved - 1 : stays(i) /\ There(bus, C(i))
             /\ moved < asked => ~stays(moved) \/ ~There(bus, C(moved))
             /\ IF d.op = "read" THEN d.buf = [i \in 0 .. moved - 1 |-> d.before[C(i)]] /\ dmamem = d.before
                ELSE dmamem = [c \in DOMAIN dmamem |->
                        IF \E i \in 0 .. moved - 1 : C(i) = c
                        THEN Data(CHOOSE i \in 0 .. moved - 1 : C(i) = c /\ \A j \in i + 1 .. moved - 1 : C(j) # c)
                        ELSE d.before[c]]

(* The map reads as it was written, but for what it does not have: bit 0,  *)
(* and the bits above a physical address.                                  *)
MapReadsBack ==
    \A p \in MapPages :
        /\ ubm_rd(bus.map, 4 * p) = Even(bus.told[p][0] + MapByte * bus.told[p][1])
        /\ ubm_rd(bus.map, 4 * p + 2) =
               (bus.told[p][2] + MapByte * bus.told[p][3]) % (Physical \div (MapByte * MapByte))

DmaExact == MapReadsBack /\ (dma.did # <<>> => TransferExact(dma.did[1]))
=============================================================================
