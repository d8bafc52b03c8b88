-------------------------------- MODULE Bus --------------------------------
(***************************************************************************)
(* Which device answers at which address of the I/O page: the processor    *)
(* model with its bus and memory (pdp11_cpumod.c), the automatic           *)
(* configuration of addresses and vectors (pdp11_io_lib.c), the tables of  *)
(* the dispatch that are built from them whenever the simulation starts    *)
(* (pdp11_io.c), Massbus adapters (pdp11_rh.c) and ROMs (pdp11_rom.c).     *)
(*                                                                         *)
(* Addresses are offsets in the I/O page, memory is counted in blocks; the *)
(* operator changes the configuration while the simulation is stopped.     *)
(***************************************************************************)
EXTENDS Integers, Sequences, FiniteSets, TLC

LOCAL INSTANCE Functions

CONSTANTS
    Installed,       \* names in sim_devices, in order
    OffAtFirst,             \* those disabled at first
    Sizes,           \* memory sizes, in blocks
    Mem64, UniMem, MaxMem, IoPage,
    Addresses, Vectors,   \* what the operator may set
    RomUnits, RomSizes,
    MaxChanges

VARIABLES io, changes

(* FoldLeft of SequencesExt, in time that grows with the sequence alone.   *)
Folded(Op(_, _), base, seq) ==
    LET upTo[i \in 0 .. Len(seq)] == IF i = 0 THEN base ELSE Op(upTo[i - 1], seq[i])
    IN  upTo[Len(seq)]

-----------------------------------------------------------------------------
(***************************************************************************)
(* Processors and devices.                                                 *)
(***************************************************************************)
CpuTab ==
    "11/03" :> [std |-> {"BVT"}, opt |-> {"BVT", "EIS"}, maxm |-> Mem64]
    @@ "11/34" :> [std |-> {"U", "EIS", "MMU"}, opt |-> {"FPP"}, maxm |-> UniMem]
    @@ "11/70" :> [std |-> {"U", "EIS", "FPP", "MMU", "UBM"}, opt |-> {"FPP", "RH11"}, maxm |-> MaxMem]
    @@ "11/73" :> [std |-> {"EIS", "FPP", "MMU"}, opt |-> {"CIS"}, maxm |-> MaxMem]

Dib(rd, wr, ba, lnt) == [rd |-> rd, wr |-> wr, ba |-> ba, lnt |-> lnt, vnum |-> 0]

(* Registers of the processor: of these models, or with this option.       *)
Cnf(models, option, rd, wr, ba, lnt) ==
    [models |-> models, option |-> option, dib |-> Dib(rd, wr, ba, lnt)]
Mapped == {"11/34", "11/70", "11/73"}
cnf_tab ==
    <<Cnf(Mapped, "", "PSW", "PSW", \o17776, 2), Cnf({"11/73"}, "", "CPUJ", "CPUJ", \o17740, \o36),
      Cnf({"11/70"}, "", "CPU70", "CPU70", \o17740, \o36),
      Cnf({}, "MMU", "APR", "APR", \o12300, \o20), Cnf({}, "MMU", "APR", "APR", \o12340, \o20),
      Cnf({}, "MMU", "APR", "APR", \o17600, \o20), Cnf({}, "MMU", "APR", "APR", \o17640, \o20),
      Cnf({}, "MMU", "MMR012", "MMR012", \o17572, 6), Cnf({"11/70", "11/73"}, "", "MMR3", "MMR3", \o12516, 2),
      Cnf({}, "UBM", "UBM", "UBM", \o10200, \o200),
      Cnf({"11/70", "11/73"}, "", "APR", "APR", \o12320, \o20), Cnf({"11/70", "11/73"}, "", "APR", "APR", \o12360, \o20),
      Cnf({"11/70", "11/73"}, "", "APR", "APR", \o12200, \o100),
      Cnf({"11/70", "11/73"}, "", "APR", "APR", \o17620, \o20), Cnf({"11/70", "11/73"}, "", "APR", "APR", \o17660, \o20),
      Cnf({"11/34", "11/70"}, "", "SR", "none", \o17570, 2), Cnf({"11/34", "11/70"}, "", "none", "DR", \o17570, 2)>>

(* The driver, its registers, the place of its interrupt request and the   *)
(* routine that acknowledges it; the busses it is for; whether it can be   *)
(* disabled.                                                               *)
Dev(rd, lnt, level, bit, ack, bus, can) ==
    [rd |-> rd, lnt |-> lnt, at |-> <<level, bit>>, ack |-> ack, bus |-> bus, can |-> can]
Both == {"U", "Q"}
Catalogue ==
    "RHA" :> Dev("mba", 0, 5, 5, "mba0_inta", Both, FALSE)
    @@ "CLK" :> Dev("clk", 2, 6, 1, "clk_inta", Both, FALSE)
    @@ "PTR" :> Dev("ptr", 4, 4, 3, "none", Both, TRUE)
    @@ "PTP" :> Dev("ptp", 4, 4, 4, "none", Both, TRUE)
    @@ "TTI" :> Dev("tti", 4, 4, 1, "none", Both, FALSE)
    @@ "TTO" :> Dev("tto", 4, 4, 2, "none", Both, FALSE)
    @@ "RL" :> Dev("rl", \o12, 5, 2, "none", Both, TRUE)
    @@ "RX" :> Dev("rx", 4, 5, 3, "none", Both, TRUE)
    @@ "RP" :> Dev("rp", \o54, 0, 0, "rp_abort", {"U", "Q", "M"}, TRUE)
    @@ "RQ" :> Dev("rq", 4, 5, 8, "rq_inta", Both, TRUE)
    @@ "RQB" :> Dev("rq", 4, 5, 8, "rq_inta", Both, TRUE)
    @@ "RQC" :> Dev("rq", 4, 5, 8, "rq_inta", Both, TRUE)
    @@ "XQ" :> Dev("xq", \o20, 5, 13, "xq_int", {"Q"}, TRUE)
    @@ "XQB" :> Dev("xq", \o20, 5, 13, "xq_int", {"Q"}, TRUE)

Devices == {Installed[i] : i \in DOMAIN Installed}
UNIBUS(s) == "U" \in s.opt
Enabled(s) == Devices \ s.dis
Massbus(d) == "M" \in Catalogue[d].bus

-----------------------------------------------------------------------------
(***************************************************************************)
(* Automatic configuration: a table of devices in the order in which their *)
(* floating addresses follow each other.  A device of the table that does  *)
(* not exist leaves only its gap.                                          *)
(***************************************************************************)
Row(dnam, numv, amod, vmod, fixa, fixv) ==
    [dnam |-> dnam, numv |-> numv, amod |-> amod, vmod |-> vmod, fixa |-> fixa, fixv |-> fixv]
Fixed(dnam, fixa, fixv) == Row(dnam, 1, 0, 0, fixa, fixv)
Gap(amod) == Row(<<>>, 0, amod, 8, <<>>, <<>>)
Gaps(amods) == [i \in DOMAIN amods |-> Gap(amods[i])]
auto_tab ==
    <<Fixed(<<"RHA">>, <<\o16700>>, <<\o254>>), Fixed(<<"CLK">>, <<\o17546>>, <<\o100>>),
      Fixed(<<"PTR">>, <<\o17550>>, <<\o70>>), Fixed(<<"PTP">>, <<\o17554>>, <<\o74>>),
      Fixed(<<"RL">>, <<\o14400>>, <<\o160>>)>>
    \o Gaps(<<8, 16, 8, 8, 8, 8, 8, 8, 8, 8, 8, 16, 8>>)
    \o <<Row(<<"RL", "RLB">>, 1, 8, 4, <<\o14400>>, <<\o160>>)>> \o Gaps(<<16, 8, 8>>)
    \o <<Row(<<"RX", "RY">>, 1, 8, 4, <<\o17170>>, <<\o264>>)>> \o Gaps(<<8, 8, 8, 8, 8, 16, 8>>)
    \o <<Row(<<"XQ", "XQB">>, -1, 0, 4, <<\o14440, \o14460>>, <<\o120>>),
         Row(<<"RQ", "RQB", "RQC">>, -1, 4, 4, <<\o12150>>, <<\o154>>)>>

Aligned(n, mod) == ((n + mod - 1) \div mod) * mod

(* Mutant: the address is aligned, but the next one is not moved on. *)
NextAddressKept(row, csr) == csr
NextAddress(row, csr) == csr + row.amod

(* Controllers of the row before this one that are there.  Mutant: that    *)
(* exist, enabled or not.                                                  *)
EarlierAny(s, row, j) == Cardinality({k \in 1 .. j - 1 : row.dnam[k] \in Devices})
Earlier(s, row, j) == Cardinality({k \in 1 .. j - 1 : row.dnam[k] \in Enabled(s)})

(* Assigned: the device takes the fixed address of its place or the next   *)
(* floating one.  A device that is not for this bus is disabled, and that  *)
(* ends the configuration: the switch that says the power has just come on *)
(* is never set here.                                                      *)
Assigned(a, row, j) ==
    LET d == row.dnam[j]
        place == Earlier(a.s, row, j) + 1
        fixa == place \in DOMAIN row.fixa
        fixv == place \in DOMAIN row.fixv
        vec == IF fixv THEN row.fixv[place] ELSE Aligned(a.vec, row.vmod)
    IN  IF ~a.ok \/ d \notin Enabled(a.s) \/ Massbus(d) THEN a
        ELSE IF (IF UNIBUS(a.s) THEN "U" ELSE "Q") \notin Catalogue[d].bus
             THEN [a EXCEPT !.s.dis = @ \cup {d}, !.ok = FALSE]
        ELSE [a EXCEPT !.s.ba[d] = IF fixa THEN row.fixa[place] ELSE a.csr,
                       !.csr = IF fixa THEN @ ELSE NextAddress(row, @),
                       !.s.vec[d] = IF row.numv > 0 THEN vec ELSE @,
                       !.vec = IF fixv THEN @ ELSE vec + 4]

auto_config(s) ==
    LET Rows(a, row) ==
            LET b == IF row.amod > 0 THEN [a EXCEPT !.csr = Aligned(@, row.amod)] ELSE a
                c == Folded(LAMBDA x, j : Assigned(x, row, j), b, [j \in DOMAIN row.dnam |-> j])
            IN  IF row.amod > 0 /\ c.ok THEN [c EXCEPT !.csr = @ + 2] ELSE c
        Done(a) == [a.s EXCEPT !.configured = a.ok]
    IN  Done(IF s.auto THEN Folded(Rows, [s |-> s, csr |-> \o10, vec |-> \o300, ok |-> TRUE], auto_tab) 
             ELSE [s |-> s, ok |-> s.configured])

-----------------------------------------------------------------------------
(***************************************************************************)
(* The tables of the dispatch, kept in s.slot (who answers at a word),     *)
(* s.ack and s.int (who acknowledges an interrupt request, and with which  *)
(* vector).  built is "no" as soon as a conflict has ended the building.   *)
(***************************************************************************)
IOPAGESIZE == \o20000
Words(dib) == {((dib.ba + i) % IOPAGESIZE) \div 2 : i \in {n \in 0 .. dib.lnt - 1 : n % 2 = 0}}
DeviceDib(s, d) ==
    [rd |-> Catalogue[d].rd, wr |-> Catalogue[d].rd, ba |-> s.ba[d], vnum |-> 1,
     lnt |-> IF d = "RHA" THEN s.mbalnt ELSE Catalogue[d].lnt]
RomDib(s, u) ==
    Dib(IF s.rom[u].attached THEN "rom" ELSE "none", "none", s.rom[u].base, s.rom[u].capac)

Differ(f, g) == f # "none" /\ g # "none" /\ f # g
(* Mutant: only the first word is compared. *)
AddressConflictAtBase(s, dib) ==
    LET w == dib.ba \div 2
    IN  dib.lnt > 0 /\ w \in DOMAIN s.slot /\ (Differ(s.slot[w].rd, dib.rd) \/ Differ(s.slot[w].wr, dib.wr))
AddressConflict(s, dib) ==
    \E w \in Words(dib) \cap DOMAIN s.slot :
        Differ(s.slot[w].rd, dib.rd) \/ Differ(s.slot[w].wr, dib.wr)

(* Mutant: only the first device of all is compared with it. *)
VectorConflictWithFirst(s, d) ==
    s.vec[d] # 0 /\ d # Installed[1] /\ s.vec[Installed[1]] = s.vec[d]
VectorConflict(s, d) ==
    s.vec[d] # 0 /\ \E e \in Enabled(s) \ {d} : s.vec[e] = s.vec[d]

(* The request of two devices at one place. *)
SlotConflict(s, d) ==
    LET at == Catalogue[d].at IN
    /\ at \in DOMAIN s.int
    /\ \/ Differ(s.int[at].ack, Catalogue[d].ack)
       \/ s.int[at].vec # 0 /\ s.vec[d] # 0 /\ s.int[at].vec # s.vec[d]

(* A DIB without routines takes its words out of the table. *)
Registered(s, dib) ==
    IF AddressConflict(s, dib) THEN [s EXCEPT !.built = "no"]
    ELSE IF dib.rd = "none" /\ dib.wr = "none" /\ dib.vnum = 0
         THEN [s EXCEPT !.slot = [w \in DOMAIN @ \ Words(dib) |-> @[w]]]
         ELSE [s EXCEPT !.slot = [w \in Words(dib) |-> dib] @@ @]

build_ubus_tab(s, d) ==
    IF VectorConflict(s, d) \/ SlotConflict(s, d) THEN [s EXCEPT !.built = "no"]
    ELSE LET at == Catalogue[d].at
             old == IF at \in DOMAIN s.int THEN s.int[at] ELSE [ack |-> "none", vec |-> 0]
             new == IF Catalogue[d].ack # "none" THEN [old EXCEPT !.ack = Catalogue[d].ack]
                    ELSE IF s.vec[d] # 0 THEN [old EXCEPT !.vec = s.vec[d]] ELSE old
         IN  Registered([s EXCEPT !.int = at :> new @@ @], DeviceDib(s, d))

(* A Massbus drive makes its adapter answer. *)
build_mbus_tab(s, d) ==
    build_ubus_tab([s EXCEPT !.mbus = d, !.dis = @ \ {"RHA"}, !.mbalnt = Catalogue[d].lnt], "RHA")

(* As many adapters are enabled as there are drives for them. *)
init_mbus_tab(s) ==
    [s EXCEPT !.mbus = "none",
              !.dis = IF \E d \in Enabled(s) : Massbus(d) THEN @ \ {"RHA"} ELSE @ \cup {"RHA"}]

cpu_build_dib(s) ==
    LET Added(t, row) ==
            IF t.built = "yes" /\ (s.model \in row.models \/ row.option \in s.opt) THEN Registered(t, row.dib) ELSE t
    IN  Folded(Added, s, cnf_tab)

Cleared(s) == [s EXCEPT !.slot = <<>>, !.int = <<>>, !.built = "yes"]

build_dib_tab(s) ==
    LET Added(t, d) ==
            IF t.built = "no" \/ d \notin Enabled(t) THEN t
            ELSE IF Massbus(d) THEN build_mbus_tab(t, d) ELSE build_ubus_tab(t, d)
        RomAdded(t, u) == IF t.built = "yes" THEN Registered(t, RomDib(t, u)) ELSE t
    IN  Folded(RomAdded, Folded(Added, cpu_build_dib(init_mbus_tab(Cleared(s))), Installed),
                 [u \in 1 .. RomUnits |-> u])

-----------------------------------------------------------------------------
(***************************************************************************)
(* Model, memory and bus.                                                  *)
(***************************************************************************)
cpu_set_bus(s) ==
    LET bus == IF UNIBUS(s) THEN "U" ELSE "Q"
    IN  [s EXCEPT !.dis = @ \cup {d \in Enabled(s) : Catalogue[d].can /\ bus \notin Catalogue[d].bus}]

Least(a, b) == IF a < b THEN a ELSE b

(* Nobody is asked whether memory that holds something is to be truncated: *)
(* the answer is no.  Mutant: yes.                                         *)
TruncatedAnyway(s, val) == cpu_set_bus([s EXCEPT !.mem = val, !.alloc = val])
Resized(s, val) ==
    IF \E b \in s.used : val <= b /\ b < s.mem THEN s
    ELSE cpu_set_bus([s EXCEPT !.mem = val, !.alloc = val])

cpu_set_size(s, val) == Resized(s, Least(val, CpuTab[s.model].maxm - IoPage))

(* The model is changed before it is clear that its memory suffices; then  *)
(* the world is reset, or would be: the reset of the processor, the first  *)
(* in the list, reports an error whenever memory is there already.         *)
cpu_set_model(s, m) ==
    LET t == cpu_set_bus([s EXCEPT !.model = m, !.opt = CpuTab[m].std])
    IN  IF m = s.model THEN s
        ELSE IF t.mem > CpuTab[m].maxm THEN cpu_set_size(t, CpuTab[m].maxm) ELSE t

(* Enabling or disabling a device resets it. *)
mba_set_enbdis(s, d) == IF Massbus(d) THEN build_dib_tab(s) ELSE s
DeviceReset(s, d) == IF Massbus(d) THEN mba_set_enbdis(s, d) ELSE auto_config(s)

(* A ROM in the way of another device is detached, and that takes the      *)
(* words of both out of the table.                                         *)
rom_detach(s, u) ==
    LET t == [s EXCEPT !.rom[u].attached = FALSE]
    IN  [Registered(t, RomDib(t, u)) EXCEPT !.rom[u].capac = 0, !.built = s.built]
rom_attach(s, u, base, size) ==
    LET t == Registered([s EXCEPT !.rom[u] = [attached |-> TRUE, base |-> base, capac |-> size]],
                        Dib("rom", "none", base, size))
    IN  IF AddressConflict(s, Dib("rom", "none", base, size)) THEN rom_detach([t EXCEPT !.built = s.built], u) ELSE t

-----------------------------------------------------------------------------
(***************************************************************************)
(* The operator, and sim_instr, which builds the tables each time.         *)
(***************************************************************************)
Changed(s) == changes < MaxChanges /\ io' = [s EXCEPT !.running = FALSE] /\ changes' = changes + 1

SetModel == \E m \in DOMAIN CpuTab : Changed(cpu_set_model(io, m))
SetSize == \E val \in Sizes : val <= CpuTab[io.model].maxm /\ Changed(cpu_set_size(io, val))
SetOption == \E o \in CpuTab[io.model].opt : Changed([io EXCEPT !.opt = @ \cup {o}])
ClearOption == \E o \in CpuTab[io.model].opt : Changed([io EXCEPT !.opt = @ \ {o}])
Enable ==
    \E d \in io.dis : Catalogue[d].can /\ Changed(DeviceReset([io EXCEPT !.dis = @ \ {d}], d))
Disable ==
    \E d \in Enabled(io) : Catalogue[d].can /\ Changed(DeviceReset([io EXCEPT !.dis = @ \cup {d}], d))
set_autocon(s, on) == IF s.auto = on THEN s ELSE auto_config([s EXCEPT !.auto = on])
SetAuto == \E on \in BOOLEAN : Changed(set_autocon(io, on))
set_addr == \E d \in DOMAIN Addresses : \E a \in Addresses[d] : Changed(set_autocon([io EXCEPT !.ba[d] = a], FALSE))
set_vec == \E d \in DOMAIN Vectors : \E v \in Vectors[d] : Changed(set_autocon([io EXCEPT !.vec[d] = v], FALSE))
RomAttach ==
    \E u \in 1 .. RomUnits, rom \in RomSizes :
        ~io.rom[u].attached /\ Changed(rom_attach(io, u, rom.base, rom.size))
RomDetach == \E u \in 1 .. RomUnits : io.rom[u].attached /\ Changed(rom_detach(io, u))

(* Memory never reaches into the I/O page while the processor runs, so     *)
(* that what it held there is given up; the program fills a block of it.   *)
Trimmed(s) ==
    LET mem == Least(s.mem, CpuTab[s.model].maxm - IoPage)
    IN  [s EXCEPT !.mem = mem, !.used = {b \in @ : b < mem}]
sim_instr ==
    LET s == build_dib_tab(io) IN
    /\ ~io.running
    /\ IF s.built = "no" THEN io' = s
       ELSE LET t == [Trimmed(s) EXCEPT !.running = TRUE]
            IN  \E b \in {0, t.mem - 1} : io' = [t EXCEPT !.used = @ \cup {b}]
    /\ UNCHANGED changes

Reset0 ==
    [model |-> "11/73", opt |-> CpuTab["11/73"].std, mem |-> MaxMem - IoPage, alloc |-> MaxMem - IoPage, used |-> {},
     dis |-> OffAtFirst, auto |-> TRUE, configured |-> TRUE,
     ba |-> [d \in Devices |-> CASE d = "TTI" -> \o17560 [] d = "TTO" -> \o17564 [] OTHER -> 0],
     vec |-> [d \in Devices |-> CASE d = "TTI" -> \o60 [] d = "TTO" -> \o64 [] OTHER -> 0],
     mbus |-> "none", mbalnt |-> 0, rom |-> [u \in 1 .. RomUnits |-> [attached |-> FALSE, base |-> 0, capac |-> 0]],
     slot |-> <<>>, int |-> <<>>, built |-> "yes", running |-> FALSE]

BusInit == io \in {build_dib_tab(s) : s \in {auto_config(Reset0)}} /\ changes = 0

BusNext ==
    \/ SetModel \/ SetSize \/ SetOption \/ ClearOption \/ Enable \/ Disable
    \/ SetAuto \/ set_addr \/ set_vec \/ RomAttach \/ RomDetach \/ sim_instr

-----------------------------------------------------------------------------
(***************************************************************************)
(* While the simulation runs                                               *)
(*                                                                         *)
(* - every enabled device answers at all its words, and so does every      *)
(*   register of the processor.  Two controllers of one driver at the same *)
(*   address are not noticed (the later one answers), and the display      *)
(*   register hides the switch register;                                   *)
(***************************************************************************)
OwnDevices(s) == {d \in Enabled(s) : ~Massbus(d)}
Overlaps(s, d) ==
    \E e \in OwnDevices(s) \ {d} :
        Catalogue[e].rd = Catalogue[d].rd /\ Words(DeviceDib(s, d)) \cap Words(DeviceDib(s, e)) # {}
DevicesAnswer(s) ==
    /\ \A d \in OwnDevices(s) : \A w \in Words(DeviceDib(s, d)) :
           /\ w \in DOMAIN s.slot /\ s.slot[w].rd = Catalogue[d].rd
           /\ Overlaps(s, d) \/ s.slot[w] = DeviceDib(s, d)
    /\ \A i \in DOMAIN cnf_tab : s.model \in cnf_tab[i].models \/ cnf_tab[i].option \in s.opt =>
           \A w \in Words(cnf_tab[i].dib) :
               w \in DOMAIN s.slot /\ (cnf_tab[i].dib.rd = "SR" \/ s.slot[w] = cnf_tab[i].dib)
    /\ s.mbus # "none" => s.mbus \in Enabled(s) /\ "RHA" \in Enabled(s) /\ s.mbalnt = Catalogue[s.mbus].lnt

(* - nobody else answers;                                                  *)
NobodyElse(s) ==
    Range(s.slot) \subseteq
        {DeviceDib(s, d) : d \in OwnDevices(s)} \cup {row.dib : row \in Range(cnf_tab)}
            \cup {RomDib(s, u) : u \in {v \in 1 .. RomUnits : s.rom[v].attached}}

(* - an interrupt reaches the device it is from, through a vector of its   *)
(*   own;                                                                  *)
VectorsOwn(s) ==
    \A d \in OwnDevices(s) :
        /\ \A e \in OwnDevices(s) \ {d} : s.vec[d] # 0 => s.vec[e] # s.vec[d]
        /\ LET i == s.int[Catalogue[d].at]
           IN  IF Catalogue[d].ack = "none" THEN i = [ack |-> "none", vec |-> s.vec[d]] ELSE i.ack = Catalogue[d].ack

(* - memory lies below the I/O page and is all there.                      *)
MemoryThere(s) ==
    s.mem <= s.alloc /\ s.mem <= CpuTab[s.model].maxm - IoPage

(* No change of the configuration takes away memory that holds something;  *)
(* and in a configuration made automatically, to its end, no two devices   *)
(* meet, and the first controller of its kind that is there is where a     *)
(* bootstrap looks for it.                                                 *)
MemoryKept(s) == \A b \in s.used : b < s.alloc
FirstAtFixed(s) ==
    \A row \in Range(auto_tab) : \A j \in DOMAIN row.dnam :
        row.fixa # <<>> /\ {k \in 1 .. j : row.dnam[k] \in OwnDevices(s)} = {j} => s.ba[row.dnam[j]] = row.fixa[1]
AutomaticFits(s) ==
    s.auto /\ s.configured /\ ~s.running /\ (\A u \in 1 .. RomUnits : ~s.rom[u].attached) =>
        /\ build_dib_tab(s).built = "yes"
        /\ \A d \in OwnDevices(s) : ~Overlaps(s, d)
        /\ FirstAtFixed(s)

BusExact ==
    /\ io.running => DevicesAnswer(io) /\ NobodyElse(io) /\ VectorsOwn(io) /\ MemoryThere(io)
    /\ MemoryKept(io) /\ AutomaticFits(io)
=============================================================================
