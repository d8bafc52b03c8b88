----------------------------- MODULE Registers -----------------------------
(***************************************************************************)
(* The registers of the processor and of its board in the I/O page         *)
(* (pdp11_cpumod.c), which differ from model to model: the accesses of a   *)
(* program to them, by words and by bytes, with what else they set: the    *)
(* line clock, the program's interrupt requests, and the clock chip of the *)
(* 11/93, whose time is read one bit at a time.                            *)
(*                                                                         *)
(* A register, and what is written to it, is the set of its bits.          *)
(***************************************************************************)
EXTENDS Integers, Sequences, FiniteSets

LOCAL INSTANCE SequencesExt

CONSTANTS
    RegModels,       \* the models to look at
    JCSR_dflt,       \* initial values of the board register
    MemBlocks,       \* MEMSIZE / 64 - 1
    SwitchRegister,
    WrittenWords,         \* what a program writes, as words
    Lasts,           \* addresses the Unibus map may have seen
    ToyTimes,        \* moment |-> what time() says, as a sequence of numbers
    MaxAccesses

VARIABLES
    regs,            \* model, register bits, requests, clock settings, clock chip
    accs             \* the program: accesses made, the last, bits of the time heard

-----------------------------------------------------------------------------
Bits(n) == {b \in 0 .. 15 : (n \div 2^b) % 2 = 1}
All == 0 .. 15
Low == 0 .. 7

R == <<"R0", "R1", "R2", "R3", "R4", "R5", "SP", "PC">>
Names ==
    {"CCR", "HITMISS", "CPUERR", "MEMERR", "MAINT", "MBRK", "WCS", "JCSR", "JPCR", "JASR", "UDCR", "UDDR", "UCSR",
     "uba_last", "DR", "PIRQ", "STKLIM"} \cup {R[r] : r \in 1 .. 8}

(* A register: its place, the variable read and the one written, the bits  *)
(* that are read and how it is written.                                    *)
NXM == {99}
Reg(at, name, rd, how, wr) == [at |-> at, from |-> name, to |-> name, rd |-> rd, how |-> how, wr |-> wr]
Zero(at, how) == Reg(at, "zero", {}, how, {})
Config(at, rd, wr) == [Reg(at, "DR", rd, "shift", wr) EXCEPT !.from = "SR"]
Pirq(at) == Reg(at, "PIRQ", All, "shift", Bits(\o177000))
Stklim(at) == Reg(at, "STKLIM", Bits(\o177400), "shift", Bits(\o177400))
CPUE_IMP == Bits(\o374)
Cpuerr(at, rd) == Reg(at, "CPUERR", rd, "clear", {})
Hitmiss(at) == Reg(at, "HITMISS", All, "keep", {})

CPU24 == {Zero(\o13, "keep")}
CPU44 == {Reg(2, "MEMERR", All, "clear", {}), Reg(3, "CCR", Bits(\o33315), "merge", Bits(\o3315)),
          Reg(4, "MAINT", Bits(\o177437), "merge", Bits(\o37)), Hitmiss(5), Zero(6, "NXM"),
          Cpuerr(\o13, CPUE_IMP), Pirq(\o15)}
CPU45 == {Reg(\o14, "MBRK", All, "NXM", {}), Pirq(\o15), Stklim(\o16)}
CPU60 == {Reg(0, "WCS", Bits(\o161776), "plain", Bits(\o61676)), Reg(2, "MEMERR", Bits(\o100340), "clear", {}),
          Reg(3, "CCR", Bits(\o315), "even", Bits(\o115)), Hitmiss(5), Cpuerr(\o13, Bits(\o124)),
          Reg(\o14, "MBRK", NXM, "plain", Bits(\o7777)), Stklim(\o16)}
CPU70 == {Zero(0, "NXM"), Zero(1, "NXM"), Reg(2, "MEMERR", All, "bic", {}), Reg(3, "CCR", All, "merge", All),
          Zero(4, "keep"), Hitmiss(5), Reg(\o10, "size", All, "keep", {}), Zero(\o11, "keep"),
          Reg(\o12, "SYSID", All, "NXM", {}), Cpuerr(\o13, CPUE_IMP), Reg(\o14, "MBRK", All, "even", Bits(\o377)),
          Pirq(\o15), Stklim(\o16)}
CPUJ == {Reg(2, "MEMERR", All, "clear", {}), Reg(3, "CCR", All, "merge", All), Reg(4, "MAINT", All, "keep", {}),
         Hitmiss(5), Cpuerr(\o13, CPUE_IMP), Pirq(\o15)}
CTLFB == {Reg(0, "JPCR", Bits(\o37477), "merge", Bits(\o37477)), Reg(1, "MAINT", All, "merge", All),
          Config(2, Bits(\o377), Bits(\o17))}
CTLJB == {Reg(0, "JCSR", Bits(\o177767), "merge", Bits(\o37767)), Reg(1, "JPCR", Bits(\o77176), "merge", Bits(\o77176)),
          Config(2, Bits(\o377), Bits(\o377))}
CTLJD == {Reg(0, "JCSR", Bits(\o157777), "merge", Bits(\o377))}
CTLJE == {Reg(0, "JCSR", Bits(\o137360), "merge", Bits(\o37370)), Reg(1, "JPCR", Bits(\o177376), "merge", Bits(\o177376)),
          Config(2, Bits(\o377), Bits(\o77)), Reg(3, "JASR", Bits(\o30462), "merge", Bits(\o30462))}
UBA24 == {Reg(2, "uba_last", All, "NXM", {}), Reg(3, "uba_last", Bits(\o177), "high", Bits(\o100))}
UBAJ == {Reg(0, "UDCR", Bits(\o100616), "merge", Bits(\o416)), Reg(1, "UDDR", All, "merge", All),
         Reg(2, "UCSR", Bits(\o377), "merge", Bits(\o177))}
General == {Reg(r, R[r + 1], All, "general", All) : r \in 0 .. 7}
Switches == {[Reg(0, "DR", All, "plain", All) EXCEPT !.from = "SR"]}

(* cnf_tab: which of them a model has, block by block. *)
Blocks(model) ==
    CASE model = "11/24" -> {CPU24, UBA24, Switches}
      [] model = "11/44" -> {CPU44, Switches}
      [] model = "11/45" -> {CPU45, Switches}
      [] model = "11/60" -> {CPU60, Switches}
      [] model = "11/70" -> {CPU70, Switches}
      [] model = "11/05" -> {General, Switches}
      [] model = "11/23+" -> {CTLFB}
      [] model = "11/73" -> {CPUJ}
      [] model = "11/53" -> {CPUJ, CTLJD}
      [] model = "11/83" -> {CPUJ, CTLJB}
      [] model = "11/84" -> {CPUJ, CTLJB, UBAJ}
      [] model = "11/93" -> {CPUJ, CTLJE}

HasBoardClock(model) == model \in {"11/83", "11/84", "11/93"}

-----------------------------------------------------------------------------
(***************************************************************************)
(* Reading.                                                                *)
(***************************************************************************)
MAINT_wired(model) ==
    {0} \cup (IF model = "11/84" THEN {9} ELSE {})
    \cup (CASE model = "11/73" -> Bits(16) [] model = "11/53" -> Bits(64 + 2)
            [] model \in {"11/83", "11/84"} -> Bits(32 + 2) [] model = "11/93" -> Bits(80 + 2) [] OTHER -> {})
Wired(model, name) ==
    IF CPUJ \notin Blocks(model) THEN {}
    ELSE IF name = "MAINT" THEN MAINT_wired(model) ELSE IF name = "HITMISS" THEN {3} ELSE {}

Content(s, name) ==
    CASE name = "SR" -> SwitchRegister [] name = "zero" -> {} [] name = "size" -> MemBlocks
      [] name = "SYSID" -> Bits(4660) [] OTHER -> s.reg[name]

(* The error register of the 11/44 and the 11/60 takes another form when   *)
(* it is read.                                                             *)
RED == 2
YEL == 3
TMO == 4
NXMEM == 5
ODD == 6
Translated(model, e) ==
    LET stack == IF YEL \in e THEN (e \ {YEL}) \cup {RED} ELSE e
    IN  CASE model = "11/44" -> IF stack \cap {ODD, NXMEM, TMO} # {} THEN stack \cup {11} ELSE stack
          [] model = "11/60" -> IF NXMEM \in e THEN (e \ {NXMEM}) \cup {TMO} ELSE e
          [] OTHER -> e

(* toy_read: the time is taken when the first bit is read.  Mutant: with   *)
(* the first bit of each part of it.                                       *)
toy_set(val) == {b \in Low : ((16 * (val \div 10) + (val % 10)) \div 2^b) % 2 = 1}
TOY_LNT == Len(ToyTimes[1])
TakesTimeEachByte(toy) == toy.state % 8 = 0
TakesTime(toy) == toy.state = 0
ToyRead(toy) ==
    LET data == IF TakesTime(toy) THEN [k \in 1 .. TOY_LNT |-> toy_set(ToyTimes[toy.now][k])] ELSE toy.data
    IN  [toy EXCEPT !.data = data, !.state = (@ + 1) % (8 * TOY_LNT), 
                    !.bit = (toy.state % 8) \in data[toy.state \div 8 + 1]]

ASRJE_TOY == 8
AfterRead(s, r) ==
    CASE r.from = "CPUERR" -> [s EXCEPT !.reg.CPUERR = Translated(s.model, @)]
      [] r.from = "JASR" ->
            LET toy == ToyRead(s.toy)
            IN  [s EXCEPT !.toy = toy,
                          !.reg.JASR = IF toy.bit THEN @ \cup {ASRJE_TOY} ELSE @ \ {ASRJE_TOY}]
      [] OTHER -> s
Value(s, r) == (Content(s, r.from) \cap r.rd) \cup Wired(s.model, r.from)

-----------------------------------------------------------------------------
(***************************************************************************)
(* Writing.                                                                *)
(*                                                                         *)
(* In what is merged, a byte written to an odd address comes as the low    *)
(* byte of the data, where nobody looks for it.  Mutant: a byte at an even *)
(* address replaces the word.                                              *)
(***************************************************************************)
ODD_MRGWhole(old, w) ==
    IF w.part = "odd" THEN (old \cap Low) \cup (w.data \ Low) ELSE w.data
ODD_MRG(old, w) ==
    CASE w.part = "odd" -> (old \cap Low) \cup (w.data \ Low)
      [] w.part = "even" -> (old \ Low) \cup (w.data \cap Low)
      [] OTHER -> w.data
Shifted(w) == IF w.part = "odd" THEN {b + 8 : b \in w.data} ELSE w.data

(* REG_wr *)
GeneralWritten(old, w) ==
    CASE w.part = "odd" -> (old \cap Low) \cup Shifted(w)
      [] w.part = "even" -> (old \ Low) \cup w.data
      [] OTHER -> w.data

NewContent(r, old, w) ==
    CASE r.how = "merge" -> (old \ r.wr) \cup (ODD_MRG(old, w) \cap r.wr)
      [] r.how = "shift" -> Shifted(w) \cap r.wr
      [] r.how = "even" -> IF w.part = "odd" THEN old ELSE w.data \cap r.wr
      [] r.how = "plain" -> w.data \cap r.wr
      [] r.how = "bic" -> old \ Shifted(w)
      [] r.how = "high" -> IF w.part = "odd" THEN old ELSE (old \ r.wr) \cup {b + 16 : b \in w.data \cap r.wr}
      [] r.how = "general" -> GeneralWritten(old, w)
      [] r.how = "clear" -> {}
      [] OTHER -> old

(* put_PIRQ: the requests, and twice the priority of the highest of them.  *)
(* Mutant: of the lowest.                                                  *)
PIRQ_PIR(p) == p + 8
PriorityOfLowest(pending) == CHOOSE p \in pending : \A q \in pending : p <= q
Priority(pending) == CHOOSE p \in pending : \A q \in pending : q <= p
put_PIRQ(s, val) ==
    LET pending == {p \in 1 .. 7 : PIRQ_PIR(p) \in val}
        pl == IF pending = {} THEN {} ELSE Bits(34 * Priority(pending))
    IN  [s EXCEPT !.reg.PIRQ = {PIRQ_PIR(p) : p \in pending} \cup pl, !.int = pending]

(* What the board register asks of the line clock.  Mutant: what is        *)
(* written to it, where a byte at an even address asks for nothing.        *)
CSRJ_LTCI == 13
CSRJ_LTCD == 12
CSRJ_LTCSEL(jcsr) == (IF 10 \in jcsr THEN 1 ELSE 0) + (IF 11 \in jcsr THEN 2 ELSE 0)
clk_default == 60
clk_tps_map == <<60, 50, 800>>
Settings(jcsr) ==
    [fie |-> CSRJ_LTCI \in jcsr, fnxm |-> CSRJ_LTCD \in jcsr,
     tps |-> LET t == CSRJ_LTCSEL(jcsr) IN IF t = 0 THEN clk_default ELSE clk_tps_map[t]]
ClockFromData(jcsr, w) == Settings(w.data)
ClockFrom(jcsr, w) == Settings(jcsr)

(* toy_write: the time is read from its beginning again.                   *)
ToyWrite(toy, w) == [toy EXCEPT !.state = 0]

AfterWrite(s, r, w) ==
    LET t == IF r.how \in {"keep", "NXM"} THEN s ELSE [s EXCEPT !.reg[r.to] = NewContent(r, @, w)]
    IN  CASE r.to = "PIRQ" -> put_PIRQ(s, NewContent(r, {}, w))
          [] r.to = "JCSR" /\ HasBoardClock(s.model) -> [t EXCEPT !.clk = ClockFrom(t.reg.JCSR, w)]
          [] r.to = "JASR" -> [t EXCEPT !.toy = ToyWrite(@, w)]
          [] OTHER -> t

-----------------------------------------------------------------------------
(***************************************************************************)
(* The program and the world.                                              *)
(***************************************************************************)
Words == {[data |-> d, part |-> "word"] : d \in WrittenWords}
Bytes == {[data |-> d \cap Low, part |-> part] : d \in WrittenWords, part \in {"even", "odd"}}
(* While it listens to the time, below, the program makes one access less. *)
Room == accs.count + (IF accs.heard = <<>> THEN 0 ELSE 1) < MaxAccesses
Counted == Room /\ accs' = [accs EXCEPT !.count = @ + 1, !.last = <<>>]

Read ==
    \E block \in Blocks(regs.model) : \E r \in block :
        /\ r.rd # NXM /\ r.from # "JASR"
        /\ regs' = AfterRead(regs, r)
        /\ Counted

(* The time is heard bit by bit, each read of the status register giving   *)
(* the next; begun is when the first was read.                             *)
Hear ==
    \E block \in Blocks(regs.model) : \E r \in block :
        LET whole == Len(accs.heard) = 8 * TOY_LNT IN
        /\ r.from = "JASR" /\ accs.count < MaxAccesses
        /\ regs' = AfterRead(regs, r)
        /\ accs' = [accs EXCEPT !.heard = Append(IF whole THEN <<>> ELSE @, regs'.toy.bit),
                                !.begun = IF whole \/ accs.heard = <<>> THEN regs.toy.now ELSE @,
                                !.last = <<>>]

Write ==
    \E block \in Blocks(regs.model) : \E r \in block : \E w \in Words \cup Bytes :
        /\ r.how # "NXM"
        /\ r.how = "general" => (r.at % 2 = 1 <=> w.part = "odd")
        /\ regs' = AfterWrite(regs, r, w)
        /\ Room
        /\ accs' = [accs EXCEPT !.count = @ + 1,
                                !.last = [reg |-> r, w |-> w, before |-> IF r.to \in Names THEN regs.reg[r.to] ELSE {}],
                                !.asked = @ \/ r.to = "JCSR",
                                !.heard = IF r.to = "JASR" THEN <<>> ELSE @]

(* RESET leaves the board's registers and sets the clock to its default.   *)
Reset ==
    /\ regs' = [regs EXCEPT !.reg.PIRQ = {}, !.reg.STKLIM = {}, !.int = {},
                            !.clk = [fie |-> FALSE, fnxm |-> FALSE, tps |-> clk_default]]
    /\ Room
    /\ accs' = [accs EXCEPT !.count = @ + 1, !.asked = FALSE, !.last = <<>>]

(* setCPUERR *)
CpuError ==
    \E e \in {RED, YEL, TMO, NXMEM, ODD} : regs' = [regs EXCEPT !.reg.CPUERR = @ \cup {e}] /\ Counted

(* Map_Addr, for a device of the 11/24. *)
Mapped == regs.model = "11/24" /\ \E a \in Lasts : regs' = [regs EXCEPT !.reg.uba_last = a] /\ Counted

TimePasses ==
    /\ regs.model = "11/93" /\ regs.toy.now < Len(ToyTimes)
    /\ regs' = [regs EXCEPT !.toy.now = @ + 1]
    /\ UNCHANGED accs

(* sys_reset *)
RegistersInit ==
    /\ \E model \in RegModels, dflt \in JCSR_dflt :
         regs = [model |-> model, reg |-> [n \in Names |-> IF n = "JCSR" /\ HasBoardClock(model) THEN dflt ELSE {}],
                 int |-> {}, clk |-> [fie |-> FALSE, fnxm |-> FALSE, tps |-> clk_default],
                 toy |-> [now |-> 1, state |-> 0, data |-> [k \in 1 .. TOY_LNT |-> {}], bit |-> FALSE]]
    /\ accs = [count |-> 0, last |-> <<>>, asked |-> FALSE, heard |-> <<>>, begun |-> 1]

RegistersNext == Read \/ Hear \/ Write \/ Reset \/ CpuError \/ Mapped \/ TimePasses

-----------------------------------------------------------------------------
(***************************************************************************)
(* - The time read bit by bit is that of one moment, the one at which its  *)
(*   first bit was read, however long the reading takes and wherever a     *)
(*   reading before it was broken off;                                     *)
(***************************************************************************)
TimeWhole ==
    Len(accs.heard) = 8 * TOY_LNT =>
        accs.heard = [i \in 1 .. 8 * TOY_LNT |->
                         ((i - 1) % 8) \in toy_set(ToyTimes[accs.begun][(i - 1) \div 8 + 1])]

(* - the line clock runs as the whole of the board register says, also     *)
(*   when one byte of it is written (until RESET, which resets the clock   *)
(*   and not the register);                                                *)
ClockAsAsked == accs.asked /\ HasBoardClock(regs.model) => regs.clk = Settings(regs.reg.JCSR)

(* - the program's requests are those of the register, and its priority    *)
(*   bits tell the first that will be served;                              *)
RequestsTold ==
    LET pirq == regs.reg.PIRQ IN
    /\ regs.int = {p \in 1 .. 7 : PIRQ_PIR(p) \in pirq}
    /\ \A p \in regs.int : (\A q \in regs.int : q <= p) =>
           pirq \cap Low = Bits(34 * p)
    /\ regs.int = {} => pirq = {}

(* - a byte written to a register that is merged leaves the other half of  *)
(*   it alone, and of a word written, the bits that can be written and     *)
(*   read are read back.                                                   *)
BytesApart ==
    accs.last # <<>> =>
        LET r == accs.last.reg
            w == accs.last.w
            now == regs.reg[r.to]
            kept == IF w.part = "even" THEN All \ Low ELSE IF w.part = "odd" THEN Low ELSE {}
        IN  /\ r.how \in {"merge", "general"} => now \cap kept = accs.last.before \cap kept
            /\ r.how \in {"merge", "general", "even"} /\ w.part = "word" =>
                   now \cap r.wr = w.data \cap r.wr

RegistersExact == TimeWhole /\ ClockAsAsked /\ RequestsTold /\ BytesApart
=============================================================================
