-------------------------------- MODULE Cpu --------------------------------
(***************************************************************************)
(* The processor of pdp11_cpu.c as this firmware configures it: an 11/73   *)
(* (a J-11 without memory management traps, with a fixed stack limit) with *)
(* EIS and memory management.  One instruction, or one trap sequence, is   *)
(* one step; in between come interrupts (module Interrupts says when).     *)
(*                                                                         *)
(* The state is one record.  Every routine of the code that can ABORT is a *)
(* function from states to states; an abort (the longjmp of the code)      *)
(* stays in `abort` and what follows it is skipped, so the state keeps     *)
(* exactly what the code had changed before.  Routines leave results in    *)
(* `val` (data), `ea` (an effective address) and `pa`.                     *)
(*                                                                         *)
(* A word of memory is a number, or a decoded instruction: the big switch  *)
(* on IR is a choice on its operation.  Memory is sparse, 0 elsewhere.     *)
(***************************************************************************)
EXTENDS Alu, Sequences, SequencesExt, TLC

CONSTANT MemSize       \* bytes of memory (capac of the CPU unit)

ASSUME CpuAssumption == MemSize \in Nat /\ MemSize % 2 = 0 /\ MemSize <= \o17760000

VARIABLE cpu

KER == 0
SUP == 1
USR == 3
SP  == 6
PC  == 7

None == "none"

(* A virtual address: 16 bits and the space, as in va<18:16>. *)
Va(a, s) == [a |-> a % 65536, s |-> s]

calc_is(md) == <<md, FALSE>>
calc_ds(c, md) == <<md, md \in c.dspace>>

(* What follows an operation that may abort. *)
Then(c, Op(_)) == IF c.abort = None THEN Op(c) ELSE c

Abort(c, t) == [c EXCEPT !.abort = t]
SetTrap(c, t) == [c EXCEPT !.trap = @ \cup {t}]
SetR(c, reg, d) == [c EXCEPT !.r[reg] = d]

update_MM(c) == c.err = {}

-----------------------------------------------------------------------------
(* Relocation. *)

NoPage == [par |-> 0, acf |-> 0, ed |-> FALSE, plf |-> 0, w |-> FALSE]

(* <<mode, data space, page>>: the index into APRFILE. *)
Index(va) == <<va.s[1], va.s[2], va.a \div 8192>>
Apr(c, i) == IF i \in DOMAIN c.apr THEN c.apr[i] ELSE NoPage

PLF_test(va, apr) ==
    LET dbn == (va.a % 8192) \div 64
    IN IF apr.ed THEN dbn < apr.plf ELSE dbn > apr.plf

reloc_abort(c, err, i) ==
    Abort([c EXCEPT !.page = IF update_MM(c) THEN i ELSE @,
                    !.err = @ \cup err], "MME")

(* An address of 16 or 18 bits whose top 8 kB are the I/O page. *)
IoTop(pa, bits) ==
    IF pa >= 2^bits - 8192 THEN pa + \o20000000 - 2^bits ELSE pa

Physical(c, va, apr) ==
    LET pa == ((va.a % 8192) + 64 * apr.par) % \o20000000
    IN IF c.m22 THEN pa ELSE IoTop(pa % \o1000000, 18)

Reloc(c, va, denied) ==
    LET i   == Index(va)
        apr == Apr(c, i)
        err == denied[apr.acf] \cup (IF PLF_test(va, apr) THEN {"PL"} ELSE {})
    IN IF ~c.mme THEN [c EXCEPT !.pa = IoTop(va.a, 16)]
       ELSE IF err # {} THEN reloc_abort(c, err, i)
       ELSE [c EXCEPT !.pa = Physical(c, va, apr)]

relocR(c, va) == Reloc(c, va, [acf \in {0, 2, 4, 6} |-> IF acf \in {2, 6} THEN {} ELSE {"NR"}])

(* Mutant: the written flag is set only by an address that is not the     *)
(* first of its page. *)
relocWForgets(c, va) ==
    LET c1 == Reloc(c, va, [acf \in {0, 2, 4, 6} |->
                       CASE acf = 6 -> {} [] acf = 2 -> {"RO"} [] OTHER -> {"NR"}])
    IN IF c1.abort # None \/ ~c.mme \/ va.a % 8192 = 0 THEN c1
       ELSE [c1 EXCEPT !.apr[Index(va)].w = TRUE]

relocW(c, va) ==
    LET c1 == Reloc(c, va, [acf \in {0, 2, 4, 6} |->
                       CASE acf = 6 -> {} [] acf = 2 -> {"RO"} [] OTHER -> {"NR"}])
    IN IF c1.abort # None \/ ~c.mme THEN c1 ELSE [c1 EXCEPT !.apr[Index(va)].w = TRUE]

-----------------------------------------------------------------------------
(* The processor status word. *)

get_PSW(c) ==
    16384 * c.cm + 4096 * c.pm + 2048 * c.rs + 256 * Bit(c.fpd) + 32 * c.ipl + 16 * Bit(c.t)
        + 8 * Bit(c.cc.n) + 4 * Bit(c.cc.z) + 2 * Bit(c.cc.v) + Bit(c.cc.c)

Field(val, low, size) == (val \div 2^low) % 2^size
IsSet(val, b) == Field(val, b, 1) = 1
Or(a, b) == Number(Bits(a) \cup Bits(b))

CodesOf(val) == Codes(IsSet(val, 3), IsSet(val, 2), IsSet(val, 1), IsSet(val, 0))

(* With prot, as for RTI outside kernel mode, modes and register set can   *)
(* only be or'ed to, and the priority stays. *)
put_PSW(c, val, prot) ==
    [c EXCEPT !.cm = IF prot THEN Or(@, Field(val, 14, 2)) ELSE Field(val, 14, 2),
              !.pm = IF prot THEN Or(@, Field(val, 12, 2)) ELSE Field(val, 12, 2),
              !.rs = IF prot THEN Or(@, Field(val, 11, 1)) ELSE Field(val, 11, 1),
              !.ipl = IF prot THEN @ ELSE Field(val, 5, 3),
              !.fpd = IsSet(val, 8), !.t = IsSet(val, 4), !.cc = CodesOf(val)]

(* R0 to R5 are those of the set oldrs: exchange them if the set changed. *)
SwapSets(c, oldrs) ==
    IF c.rs = oldrs THEN c
    ELSE [c EXCEPT !.regfile[oldrs] = [i \in 0 .. 5 |-> c.r[i]],
                   !.r = [i \in 0 .. 7 |-> IF i < 6 THEN c.regfile[c.rs][i] ELSE c.r[i]]]

Spaces(c) == [c EXCEPT !.isenable = calc_is(c.cm), !.dsenable = calc_ds(c, c.cm)]

(* After a new PSW: register set, stack pointer and spaces of its mode. *)
Change(c, val, prot) ==
    LET c1 == SwapSets(put_PSW(c, val, prot), c.rs)
    IN Spaces(SetR(c1, SP, c1.stack[c1.cm]))

-----------------------------------------------------------------------------
(* The I/O page: the processor's own registers; any other address does not *)
(* answer.                                                                 *)

(* The record of register changes as a number: MMR1 is an int32 that is    *)
(* assigned from the int16 reg_mods.                                       *)
Change8(m) == 8 * (m.delta % 32) + m.reg
Mmr1(c) ==
    LET v == CASE Len(c.mmr1) = 0 -> 0
               [] Len(c.mmr1) = 1 -> Change8(c.mmr1[1])
               [] OTHER -> Change8(c.mmr1[1]) + 256 * Change8(c.mmr1[2])
    IN Signed(v, 16)

Mmr0(c) ==
    32768 * Bit("NR" \in c.err) + 16384 * Bit("PL" \in c.err) + 8192 * Bit("RO" \in c.err)
        + 32 * c.page[1] + 16 * Bit(c.page[2]) + 2 * c.page[3] + Bit(c.mme)

(* UDS, SDS and KDS, CSM and the 22 bit addresses. *)
Mmr3(c) == Bit(USR \in c.dspace) + 2 * Bit(SUP \in c.dspace) + 4 * Bit(KER \in c.dspace)
               + 8 * Bit(c.csm) + 16 * Bit(c.m22)

IsApr(pa) == \/ pa \in \o17772200 .. \o17772377
             \/ pa \in \o17777600 .. \o17777677
AprIndex(pa) ==
    <<IF (pa \div 64) % 2 = 1 THEN KER ELSE IF (pa \div 256) % 2 = 1 THEN USR ELSE SUP,
      (pa \div 16) % 2 = 1, (pa \div 2) % 8>>
IsPar(pa) == (pa \div 32) % 2 = 1

(* The answer of a register; none, when it does not exist. *)
IoRead(c, pa) ==
    CASE pa = \o17777776 -> {get_PSW(c)}
      [] pa = \o17777572 -> {Mmr0(c)}
      [] pa = \o17777574 -> {Mmr1(c)}
      [] pa = \o17777576 -> {c.mmr2}
      [] pa = \o17772516 -> {Mmr3(c)}
      [] IsApr(pa) -> LET a == Apr(c, AprIndex(pa))
                      IN {IF IsPar(pa) THEN a.par
                          ELSE 256 * a.plf + 64 * Bit(a.w) + 8 * Bit(a.ed) + a.acf}
      [] OTHER -> {}

(* The T bit cannot be written this way. *)
PSW_wr(c, data) ==
    Change([c EXCEPT !.stack[c.cm] = c.r[SP]],
           IF c.t THEN Or(data, 16) ELSE data - 16 * Bit(IsSet(data, 4)), FALSE)

MMR0_wr(c, data) ==
    [c EXCEPT !.err = (IF IsSet(data, 15) THEN {"NR"} ELSE {})
                          \cup (IF IsSet(data, 14) THEN {"PL"} ELSE {})
                          \cup (IF IsSet(data, 13) THEN {"RO"} ELSE {}),
              !.mme = IsSet(data, 0)]

(* Mutant: the space of data references is not looked up again. *)
MMR3_wrStale(c, data) ==
    [c EXCEPT !.dspace = {md \in {KER, SUP, USR} :
                             IsSet(data, CASE md = USR -> 0 [] md = SUP -> 1 [] md = KER -> 2)},
              !.csm = IsSet(data, 3), !.m22 = IsSet(data, 4)]

MMR3_wr(c, data) ==
    LET c1 == [c EXCEPT !.dspace = {md \in {KER, SUP, USR} :
                             IsSet(data, CASE md = USR -> 0 [] md = SUP -> 1 [] md = KER -> 2)},
                        !.csm = IsSet(data, 3), !.m22 = IsSet(data, 4)]
    IN [c1 EXCEPT !.dsenable = calc_ds(c1, c1.cm)]

(* Writing either half of an APR clears W. *)
APR_wr(c, pa, data) ==
    LET i == AprIndex(pa)
        new == IF IsPar(pa) THEN [Apr(c, i) EXCEPT !.par = data, !.w = FALSE]
               ELSE [par |-> Apr(c, i).par, acf |-> 2 * Field(data, 1, 2),
                     ed |-> IsSet(data, 3), plf |-> Field(data, 8, 7), w |-> FALSE]
    IN [c EXCEPT !.apr = (i :> new) @@ @]

IoWrite(c, pa, data) ==
    CASE pa = \o17777776 -> PSW_wr(c, data)
      [] pa = \o17777572 -> MMR0_wr(c, data)
      [] pa = \o17772516 -> MMR3_wr(c, data)
      [] pa \in {\o17777574, \o17777576} -> c
      [] IsApr(pa) -> APR_wr(c, pa, data)

-----------------------------------------------------------------------------
(* Memory.  w is the width of the access. *)

Memory(c, pa) == IF pa \div 2 \in DOMAIN c.mem THEN c.mem[pa \div 2] ELSE 0

Byte(word, pa) == IF pa % 2 = 1 THEN word \div 256 ELSE word % 256
WithByte(word, pa, d) == IF pa % 2 = 1 THEN (word % 256) + 256 * d ELSE word - (word % 256) + d

Missing(c, err) == Abort([c EXCEPT !.cpuerr = @ \cup {err}], "NXM")

Answered(c, answer, Use(_)) ==
    IF answer = {} THEN Missing(c, "TMO") ELSE Use(CHOOSE d \in answer : TRUE)

(* PReadW and PReadB. *)
PRead(c, w) ==
    LET pa == c.pa
    IN IF pa < MemSize
       THEN [c EXCEPT !.val = IF w = 16 THEN Memory(c, pa) ELSE Byte(Memory(c, pa), pa)]
       ELSE IF pa < \o17760000 THEN Missing(c, "NXM")
       ELSE Answered(c, IoRead(c, pa - (pa % 2)),
                     LAMBDA d : [c EXCEPT !.val = IF w = 16 THEN d ELSE Byte(d, pa)])

(* PWriteW and PWriteB; the registers merge a byte with their other half. *)
PWrite(c, d, pa, w) ==
    IF pa < MemSize
    THEN [c EXCEPT !.mem = (pa \div 2 :> IF w = 16 THEN d ELSE WithByte(Memory(c, pa), pa, d)) @@ @]
    ELSE IF pa < \o17760000 THEN Missing(c, "NXM")
    ELSE Answered(c, IoRead(c, pa - (pa % 2)),
                  LAMBDA x : IoWrite(c, pa - (pa % 2), IF w = 16 THEN d ELSE WithByte(x, pa, d)))

IsOdd(c, va, w) == w = 16 /\ va.a % 2 = 1
Odd(c) == Abort([c EXCEPT !.cpuerr = @ \cup {"ODD"}], "ODD")

(* Instructions do not come from the processor's own registers. *)
ReadE(c, va) ==
    IF IsOdd(c, va, 16) THEN Odd(c)
    ELSE Then(relocR(c, va),
              LAMBDA x : IF x.pa >= \o17777740 THEN Missing(x, "NXM") ELSE PRead(x, 16))

(* ReadW, ReadB and ReadCW. *)
Read(c, va, w) ==
    IF IsOdd(c, va, w) THEN Odd(c)
    ELSE Then(relocR(c, va), LAMBDA x : PRead(x, w))

(* ReadMW and ReadMB: checked for writing, and the address is kept. *)
ReadM(c, va, w) ==
    IF IsOdd(c, va, w) THEN Odd(c)
    ELSE Then(relocW(c, va), LAMBDA x : PRead([x EXCEPT !.last_pa = x.pa], w))

(* WriteW, WriteB and WriteCW. *)
Write(c, d, va, w) ==
    IF IsOdd(c, va, w) THEN Odd(c)
    ELSE Then(relocW(c, va), LAMBDA x : PWrite(x, d, x.pa, w))

-----------------------------------------------------------------------------
(* Effective addresses. *)

(* set_stack_trap with a fixed limit, for pushes in kernel mode. *)
CheckStack(c, adr) ==
    IF c.cm = KER /\ adr < \o400
    THEN SetTrap([c EXCEPT !.cpuerr = @ \cup {"YEL"}], "YEL") ELSE c

(* Mutant: the record of the first change is lost to the second. *)
RecordLast(c, reg, delta) ==
    LET m == <<[reg |-> reg, delta |-> delta]>>
    IN [c EXCEPT !.mods = m, !.mmr1 = IF update_MM(c) /\ reg # PC THEN m ELSE @]

(* calc_MMR1 and the copy to MMR1, which a change of the PC leaves out. *)
Record(c, reg, delta) ==
    LET m == Append(c.mods, [reg |-> reg, delta |-> delta])
    IN [c EXCEPT !.mods = m, !.mmr1 = IF update_MM(c) /\ reg # PC THEN m ELSE @]

(* Add delta to a register and take note of it. *)
Step(c, reg, delta) ==
    Record([c EXCEPT !.r[reg] = (@ + delta) % 65536], reg, delta)

Direct(spec) == spec < 8
DataSpace(c, reg) == IF reg = PC THEN c.isenable ELSE c.dsenable

(* The word that follows the instruction. *)
NextWord(c) ==
    Then(Read(c, Va(c.r[PC], c.isenable), 16),
         LAMBDA x : [x EXCEPT !.r[PC] = (@ + 2) % 65536])

(* Modes 3, 5 and 7: the word at the address is the address.               *)
Deferred(c, mode) ==
    IF mode \in {3, 5, 7}
      THEN Then(Read(c, c.ea, 16), LAMBDA x : [x EXCEPT !.ea = Va(x.val, x.dsenable)])
      ELSE c

Indexed(c, reg) ==
    Then(NextWord(c), LAMBDA x : [x EXCEPT !.ea = Va(x.r[reg] + x.val, x.dsenable)])

StackChecked(c, reg) == IF reg = SP THEN CheckStack(c, c.r[SP]) ELSE c

(* GeteaW and GeteaB. *)
Getea(c, spec, w) ==
    LET mode  == spec \div 8
        reg   == spec % 8
        delta == IF w = 8 /\ reg < 6 /\ mode \in {2, 4} THEN 1 ELSE 2
        At(x, a) == [x EXCEPT !.ea = Va(a, DataSpace(c, reg))]
    IN Then(CASE mode = 1 -> At(c, c.r[reg])
              [] mode \in {2, 3} -> At(Step(c, reg, delta), c.r[reg])
              [] mode \in {4, 5} -> At(StackChecked(Step(c, reg, -delta), reg), c.r[reg] - delta)
              [] OTHER -> Indexed(c, reg),
            LAMBDA x : Deferred(x, mode))

(* An operand, to be read or (m) to be read and then written. *)
Operand(c, spec, w, m) ==
    IF Direct(spec) THEN [c EXCEPT !.val = c.r[spec] % 2^w]
    ELSE Then(Getea(c, spec, w),
              LAMBDA x : IF m THEN ReadM(x, x.ea, w) ELSE Read(x, x.ea, w))

(* A result, to a register or to the place ReadM has checked. *)
PutReg(c, reg, d, w) == SetR(c, reg, IF w = 16 THEN d ELSE WithByte(c.r[reg], 0, d))
Store(c, spec, d, w) ==
    IF Direct(spec) THEN PutReg(c, spec, d, w) ELSE PWrite(c, d, c.last_pa, w)

(* A result to a place that was not read before. *)
StoreNew(c, spec, d, w) ==
    IF Direct(spec) THEN PutReg(c, spec, d, w)
    ELSE Then(Getea(c, spec, w), LAMBDA x : Write(x, d, x.ea, w))

SetCC(c, res) == [c EXCEPT !.cc = Codes(res.n, res.z, res.v, res.c)]

-----------------------------------------------------------------------------
(* Instructions. *)

SingleOp(c, ir) ==
    CASE ir.op \in {"CLR", "SXT"} ->
            LET res == Single(ir.op, 0, c.cc, ir.w)
            IN StoreNew(SetCC(c, res), ir.dst, res.val, ir.w)
      [] ir.op = "TST" ->
            Then(Operand(c, ir.dst, ir.w, FALSE),
                 LAMBDA x : SetCC(x, Single("TST", x.val, x.cc, ir.w)))
      [] OTHER ->
            Then(Operand(c, ir.dst, ir.w, TRUE),
                 LAMBDA x : LET res == IF ir.op = "SWAB" THEN Swab(x.val)
                                       ELSE Single(ir.op, x.val, x.cc, ir.w)
                            IN Store(SetCC(x, res), ir.dst, res.val, ir.w))

Source(c, ir) == Then(Operand(c, ir.src, ir.w, FALSE), LAMBDA x : [x EXCEPT !.src = x.val])

(* J-11: a source register is read after the destination is addressed. *)
RegisterLast(ir) == Direct(ir.src) /\ ~Direct(ir.dst)

(* MOV does not read its destination; a byte fills a register. *)
Move(c, ir) ==
    LET dest(x) == IF Direct(ir.dst) THEN x ELSE Getea(x, ir.dst, ir.w)
        both    == IF RegisterLast(ir) THEN Then(dest(c), LAMBDA x : Source(x, ir))
                   ELSE Then(Source(c, ir), dest)
    IN Then(both, LAMBDA x :
            LET y == SetCC(x, Double("MOV", x.src, 0, x.cc, ir.w))
            IN IF ~Direct(ir.dst) THEN Write(y, x.src, x.ea, ir.w)
               ELSE SetR(y, ir.dst, IF ir.w = 8 /\ Sign(x.src, 8) THEN x.src + 65280 ELSE x.src))

DoubleOp(c, ir) ==
    LET modifies == ir.op \notin {"CMP", "BIT"}
        dest(x)  == Operand(x, ir.dst, ir.w, modifies)
        first    == IF RegisterLast(ir)
                    THEN Then(dest(c), LAMBDA x : [x EXCEPT !.src = x.r[ir.src] % 2^ir.w])
                    ELSE Then(Source(c, ir), dest)
    IN Then(first, LAMBDA x :
            LET res == Double(ir.op, x.src, x.val, x.cc, ir.w)
            IN IF modifies THEN Store(SetCC(x, res), ir.dst, res.val, ir.w) ELSE SetCC(x, res))

(* MUL, DIV, ASH and ASHC on R and R|1. *)
ExtendedOp(c, ir) ==
    LET odd == IF ir.src % 2 = 1 THEN ir.src ELSE ir.src + 1
    IN Then(Operand(c, ir.dst, 16, FALSE), LAMBDA x :
        LET hi == x.r[ir.src]
            lo == x.r[odd]
            res == CASE ir.op = "MUL"  -> Mul(hi, x.val)
                     [] ir.op = "DIV"  -> Div(hi, lo, x.val)
                     [] ir.op = "ASHC" -> Ashc(hi, lo, x.val % 64)
                     [] ir.op = "ASH"  -> [hi |-> Ash(hi, x.val % 64).val, lo |-> lo,
                                           cc |-> Ash(hi, x.val % 64).cc]
            y == [x EXCEPT !.r[ir.src] = res.hi, !.cc = res.cc]
        IN IF ir.op = "ASH" THEN y ELSE SetR(y, odd, res.lo))

Jump(c, a) == SetR(c, PC, a)

(* JMP and JSR do not take a register. *)
Jmp(c, ir) ==
    IF Direct(ir.dst) THEN SetTrap(c, "ILL")
    ELSE Then(Getea(c, ir.dst, 16), LAMBDA x : Jump(x, x.ea.a))

(* SP goes down before the write, and MMR1 knows it. *)
Push(c, d) ==
    LET c1 == Step(c, SP, -2)
        c2 == Write(c1, d, Va(c1.r[SP], c1.dsenable), 16)
    IN Then(c2, LAMBDA x : CheckStack(x, x.r[SP]))

Jsr(c, ir) ==
    IF Direct(ir.dst) THEN SetTrap(c, "ILL")
    ELSE Then(Getea(c, ir.dst, 16), LAMBDA x :
            LET linked == IF ir.src = SP THEN (x.r[SP] - 2) % 65536 ELSE x.r[ir.src]
            IN Then(Push(x, linked), LAMBDA y : Jump(SetR(y, ir.src, y.r[PC]), x.ea.a)))

(* The PC is already changed when the read aborts: MMR2 has the old one. *)
Rts(c, ir) ==
    LET c1 == Jump(c, c.r[ir.dst])
    IN Then(Read(c1, Va(c1.r[SP], c1.dsenable), 16), LAMBDA x :
            LET y == SetR(x, ir.dst, x.val)
            IN IF ir.dst = SP THEN y ELSE [y EXCEPT !.r[SP] = (@ + 2) % 65536])

Mark(c, ir) ==
    LET i == (c.r[PC] + 2 * ir.dst) % 65536
    IN Then(Read(Jump(c, c.r[5]), Va(i, c.dsenable), 16), LAMBDA x :
            [x EXCEPT !.r[5] = x.val, !.r[SP] = (i + 2) % 65536])

(* RTI and RTT. *)
Return(c, ir) ==
    LET sp(n) == Va(c.r[SP] + n, c.dsenable)
    IN Then(Read(c, sp(0), 16), LAMBDA x :
         Then(Read(x, sp(2), 16), LAMBDA y :
            LET top == (c.r[SP] + 4) % 65536
                z   == Jump(Change([y EXCEPT !.stack[y.cm] = top, !.r[SP] = top],
                                   y.val, y.cm # KER), x.val)
            IN IF ir.op = "RTI" /\ z.t THEN SetTrap(z, "TRC") ELSE z))

(* MFPI and MFPD: push a word of the previous mode's space.  MFPI in user  *)
(* mode with previous mode user reads data space.                          *)
MoveFrom(c, ir) ==
    LET data  == ir.op = "MFPD" \/ (c.cm = c.pm /\ c.cm = USR)
        space == IF data THEN calc_ds(c, c.pm) ELSE calc_is(c.pm)
        fetched == IF Direct(ir.dst)
                   THEN [c EXCEPT !.val = IF ir.dst = SP /\ c.cm # c.pm
                                          THEN c.stack[c.pm] ELSE c.r[ir.dst]]
                   ELSE Then(Getea(c, ir.dst, 16), LAMBDA x : Read(x, Va(x.ea.a, space), 16))
    IN Then(fetched, LAMBDA x :
            Push(SetCC(x, Double("MOV", x.val, 0, x.cc, 16)), x.val))

(* MTPI and MTPD: pop a word into the previous mode's space. *)
MoveTo(c, ir) ==
    LET space == IF ir.op = "MTPD" THEN calc_ds(c, c.pm) ELSE calc_is(c.pm)
    IN Then(Read(c, Va(c.r[SP], c.dsenable), 16), LAMBDA x :
        LET d == x.val
            y == Step(SetCC(x, Double("MOV", d, 0, x.cc, 16)), SP, 2)
        IN IF Direct(ir.dst)
           THEN IF ir.dst = SP /\ y.cm # y.pm THEN [y EXCEPT !.stack[y.pm] = d]
                ELSE SetR(y, ir.dst, d)
           ELSE Then(Getea(y, ir.dst, 16), LAMBDA z : Write(z, d, Va(z.ea.a, space), 16)))

(* CSM: call supervisor mode. *)
Csm(c, ir) ==
    IF ~c.csm \/ c.cm = KER THEN SetTrap(c, "ILL")
    ELSE Then(Operand(c, ir.dst, 16, FALSE), LAMBDA x :
        LET psw  == get_PSW([x EXCEPT !.cc = Codes(FALSE, FALSE, FALSE, FALSE)])
            sp(n) == Va(x.r[SP] - n, calc_ds(x, SUP))
            old  == [x EXCEPT !.stack[x.cm] = x.r[SP]]
        IN Then(Write(old, psw, sp(2), 16), LAMBDA p :
            Then(Write(p, p.r[PC], sp(4), 16), LAMBDA q :
             Then(Write(q, x.val, sp(6), 16), LAMBDA s :
                LET new == Spaces([s EXCEPT !.r[SP] = (@ - 6) % 65536,
                                            !.pm = s.cm, !.cm = SUP, !.t = FALSE])
                IN Then(Read(new, Va(\o10, new.isenable), 16),
                        LAMBDA u : Jump(u, u.val))))))

(* TSTSET and WRTLCK. *)
Interlocked(c, ir) ==
    CASE Direct(ir.dst) -> SetTrap(c, "ILL")
      [] ir.op = "TSTSET" ->
            Then(Operand(c, ir.dst, 16, TRUE), LAMBDA x :
                 PWrite(SetR([x EXCEPT !.cc = Codes(Sign(x.val, 16), x.val = 0, FALSE,
                                                    x.val % 2 = 1)], 0, x.val),
                        Or(x.val, 1), x.last_pa, 16))
      [] OTHER -> StoreNew(SetCC(c, Double("MOV", c.r[0], 0, c.cc, 16)), ir.dst, c.r[0], 16)

(* MTPS and MFPS. *)
Status(c, ir) ==
    IF ir.op = "MTPS"
    THEN Then(Operand(c, ir.dst, 8, FALSE), LAMBDA x :
              [x EXCEPT !.ipl = IF x.cm = KER THEN Field(x.val, 5, 3) ELSE @,
                        !.cc = CodesOf(x.val)])
    ELSE LET d  == get_PSW(c) % 256
             c1 == SetCC(c, Double("MOV", d, 0, c.cc, 8))
         IN IF Direct(ir.dst) THEN SetR(c1, ir.dst, IF Sign(d, 8) THEN d + 65280 ELSE d)
            ELSE StoreNew(c1, ir.dst, d, 8)

(* The condition code operators: `bits` are those of IR<3:0>. *)
CodeOp(c, ir) ==
    LET set(b, old) == IF b \in ir.bits THEN ir.op = "SEC" ELSE old
    IN [c EXCEPT !.cc = Codes(set("n", @.n), set("z", @.z), set("v", @.v), set("c", @.c))]

Sob(c, ir) ==
    LET c1 == [c EXCEPT !.r[ir.src] = (@ - 1) % 65536]
    IN IF c1.r[ir.src] = 0 THEN c1 ELSE Jump(c1, (c1.r[PC] - 2 * ir.dst) % 65536)

(* HALT in kernel mode ends sim_instr, which is called again. *)
Control(c, ir) ==
    CASE ir.op = "HALT" -> IF c.cm = KER THEN c
                           ELSE SetTrap([c EXCEPT !.cpuerr = @ \cup {"HALT"}], "PRV")
      [] ir.op = "WAIT" -> [c EXCEPT !.wait = TRUE]
      [] ir.op \in {"BPT", "IOT", "EMT", "TRAP"} -> SetTrap(c, ir.op)
      [] ir.op = "RESET" ->
            IF c.cm # KER THEN c
            ELSE LET c1 == [c EXCEPT !.mme = FALSE, !.err = {}, !.page = <<KER, FALSE, 0>>,
                                     !.dspace = {}, !.csm = FALSE, !.m22 = FALSE]
                 IN [c1 EXCEPT !.dsenable = calc_ds(c1, c1.cm)]
      [] ir.op = "SPL" -> IF c.cm = KER THEN [c EXCEPT !.ipl = ir.dst] ELSE c
      [] ir.op = "MFPT" -> SetR(c, 0, 5)
      [] OTHER -> SetTrap(c, "ILL")

-----------------------------------------------------------------------------
(* Floating point: the operands of the instructions.  What they compute is *)
(* module Fp.  fr are the accumulators of four words, fps the bits of the  *)
(* status that are set, change the register change that is still to come.  *)

FD  == 7
FL  == 6
FIUV == 11
FID == 14
FER == 15
FpsRW == 0 .. 15 \ {4, 12, 13}
FpsCC == 0 .. 3

OpCode    == 2
Undefined == 12

fpnotrap(c, code) ==
    IF code = Undefined /\ FIUV \notin c.fps THEN c
    ELSE LET c1 == [c EXCEPT !.fps = @ \cup {FER}, !.fec = code, !.fea = (c.backup - 2) % 65536]
         IN IF FID \in c.fps THEN c1 ELSE SetTrap(c1, "FPE")

(* Mutant: registers change at once. *)
FPCHGAtOnce(c, reg, delta) ==
    [c EXCEPT !.r[reg] = (@ + IF reg = PC /\ delta > 0 THEN 2 ELSE delta) % 65536]

(* A register changes when the instruction is complete, so that an abort   *)
(* need not undo it; the PC changes at once, up by one word.               *)
FPCHG(c, reg, delta) ==
    IF reg = PC THEN [c EXCEPT !.r[PC] = (@ + IF delta > 0 THEN 2 ELSE delta) % 65536]
    ELSE [c EXCEPT !.change = [reg |-> reg, delta |-> delta]]

Commit(c) ==
    LET ch == c.change
    IN IF ch.delta = 0 THEN c ELSE [c EXCEPT !.r[ch.reg] = (@ + ch.delta) % 65536]

(* GeteaFW and GeteaFP, whose stack check of -(R) deferred is at `below`.  *)
GeteaF(c, spec, len, below) ==
    LET mode  == spec \div 8
        reg   == spec % 8
        delta == IF mode \in {3, 5} THEN 2 ELSE len
        adr   == (c.r[reg] - delta) % 65536
        moved == FPCHG(c, reg, -delta)
        down  == IF reg # SP THEN moved
                 ELSE CheckStack(moved, adr - IF mode = 5 THEN below ELSE 0)
        At(x, a) == [x EXCEPT !.ea = Va(a, DataSpace(c, reg))]
    IN Then(CASE mode = 1 -> At(c, c.r[reg])
              [] mode \in {2, 3} -> At(FPCHG(c, reg, delta), c.r[reg])
              [] mode \in {4, 5} -> At(down, adr)
              [] OTHER -> Indexed(c, reg),
            LAMBDA x : Deferred(x, mode))

GeteaFW(c, spec) == GeteaF(c, spec, 2, 0)

(* There are no accumulators 6 and 7: the instruction ends here. *)
GeteaFP(c, spec, len) ==
    IF ~Direct(spec) THEN GeteaF(c, spec, len, 2)
    ELSE IF spec < 6 THEN c ELSE Abort(fpnotrap(c, OpCode), "INT")

WordAt(c, k) == Va(c.ea.a + 2 * k, c.ea.s)

NextRead(c, k) ==
    Then(c, LAMBDA x : Then(Read(x, WordAt(x, k), 16),
                            LAMBDA y : [y EXCEPT !.words = Append(@, y.val)]))

(* One, two or four words of the operand. *)
ReadWords(c, n) ==
    LET one == NextRead([c EXCEPT !.words = <<>>], 0)
        two == IF n > 1 THEN NextRead(one, 1) ELSE one
    IN IF n > 2 THEN NextRead(NextRead(two, 2), 3) ELSE two

NextPlace(c, k) ==
    Then(c, LAMBDA x : Then(relocW(x, WordAt(x, k)),
                            LAMBDA y : [y EXCEPT !.words = Append(@, y.pa)]))
PutWord(c, data, k) == Then(c, LAMBDA x : PWrite(x, data[k], x.words[k], 16))

(* All words of the operand, two or four, are relocated before one is      *)
(* written.                                                                *)
WriteWords(c, data) ==
    LET four == Len(data) > 2
        half == NextPlace(NextPlace([c EXCEPT !.words = <<>>], 0), 1)
        placed == IF four THEN NextPlace(NextPlace(half, 2), 3) ELSE half
        put == PutWord(PutWord(placed, data, 1), data, 2)
    IN IF c.ea.a % 2 = 1 THEN Odd(c)
       ELSE IF four THEN PutWord(PutWord(put, data, 3), data, 4) ELSE put

(* An immediate operand is one word. *)
OperandWords(spec, len) == IF spec = \o27 THEN 1 ELSE len \div 2
Filled(words) == words \o [k \in 1 .. 4 - Len(words) |-> 0]

LenF(c) == IF FD \in c.fps THEN 8 ELSE 4

(* ReadFP: the operand is in words, unless a minus zero ends the           *)
(* instruction: then val is 1.                                             *)
IsMinusZero(words) == words[1] >= 32768 /\ (words[1] \div 128) % 256 = 0
ReadFP(c, spec, len) ==
    IF Direct(spec)
      THEN [c EXCEPT !.words = Filled(SubSeq(c.fr[spec], 1, len \div 2)), !.val = 0]
      ELSE Then(ReadWords(c, OperandWords(spec, len)), LAMBDA x :
             LET y == [x EXCEPT !.words = Filled(@)]
             IN IF IsMinusZero(y.words) /\ FIUV \in y.fps
                  THEN [fpnotrap(y, Undefined) EXCEPT !.val = 1] ELSE [y EXCEPT !.val = 0])

(* WriteFP, and WriteI for two words. *)
WriteFP(c, words, spec, len) ==
    CASE Direct(spec) -> [c EXCEPT !.fr[spec] = SubSeq(words, 1, len \div 2)
                                                   \o SubSeq(@, len \div 2 + 1, 4)]
      [] spec = \o27 -> Write(c, words[1], c.ea, 16)
      [] OTHER -> WriteWords(c, SubSeq(words, 1, len \div 2))

setfcc(c, words) ==
    [c EXCEPT !.fps = (@ \ FpsCC) \cup (IF words[1] >= 32768 THEN {3} ELSE {})
                          \cup (IF (words[1] \div 128) % 256 = 0 THEN {2} ELSE {})]

(* Words of integers: LDFPS reads one, STFPS and STEXP write one. *)
StoreFW(c, spec, d) ==
    IF Direct(spec) THEN SetR(c, spec, d)
    ELSE Then(GeteaFW(c, spec), LAMBDA x : Write(x, d, x.ea, 16))

(* STEXP *)
StoreExponent(c, spec, n) ==
    StoreFW([c EXCEPT !.fps = (@ \ FpsCC) \cup (IF n >= 32768 THEN {3} ELSE {})
                                  \cup (IF n = 0 THEN {2} ELSE {})], spec, n)

FpStatus(c, ir) ==
    CASE ir.op = "CFCC" -> [c EXCEPT !.cc = CodesOf(Number(c.fps \cap FpsCC))]
      [] ir.op = "SETF" -> [c EXCEPT !.fps = @ \ {FD}]
      [] ir.op = "SETD" -> [c EXCEPT !.fps = @ \cup {FD}]
      [] ir.op = "SETI" -> [c EXCEPT !.fps = @ \ {FL}]
      [] ir.op = "SETL" -> [c EXCEPT !.fps = @ \cup {FL}]
      [] ir.op = "LDFPS" ->
            Then(IF Direct(ir.dst) THEN [c EXCEPT !.val = c.r[ir.dst]]
                 ELSE Then(GeteaFW(c, ir.dst), LAMBDA x : Read(x, x.ea, 16)),
                 LAMBDA x : [x EXCEPT !.fps = Bits(x.val) \cap FpsRW])
      [] ir.op = "STFPS" -> StoreFW(c, ir.dst, Number(c.fps))
      [] ir.op = "STEXP" ->
            StoreExponent(c, ir.dst, (((c.fr[ir.src][1] \div 128) % 256) - 128) % 65536)
      [] ir.op = "STST" ->
            IF Direct(ir.dst) THEN SetR(c, ir.dst, c.fec)
            ELSE Then(GeteaFP(c, ir.dst, 4),
                      LAMBDA x : WriteFP(x, <<x.fec, x.fea>>, ir.dst, 4))
      [] ir.op = "FILL" -> fpnotrap(c, OpCode)

(* A new sign; a number with exponent 0 becomes 0. *)
Resigned(op, words) ==
    CASE (words[1] \div 128) % 256 = 0 -> <<0, 0, 0, 0>>
      [] (words[1] \div 128) % 256 # 0 /\ op = "ABSf" -> [words EXCEPT ![1] = @ % 32768]
      [] OTHER -> [words EXCEPT ![1] = (@ + 32768) % 65536]

(* What an instruction that reads its operand does with it. *)
Use(c, ir, len) ==
    CASE ir.op = "TSTf" -> setfcc(c, c.words)
      [] ir.op = "LDf" -> setfcc(WriteFP(c, c.words, ir.src, len), c.words)
      [] ir.op \in {"ABSf", "NEGf"} ->
            Then(WriteFP(c, Resigned(ir.op, c.words), ir.dst, len),
                 LAMBDA x : setfcc(x, Resigned(ir.op, c.words)))

ReadAndUse(c, ir, len) ==
    Then(ReadFP(c, ir.dst, len), LAMBDA x : IF x.val = 1 THEN x ELSE Use(x, ir, len))

FpOperand(c, ir, len) ==
    Then(GeteaFP(c, ir.dst, len), LAMBDA x :
        CASE ir.op = "CLRf" ->
                Then(WriteFP(x, <<0, 0, 0, 0>>, ir.dst, len),
                     LAMBDA y : [y EXCEPT !.fps = (@ \ FpsCC) \cup {2}])
          [] ir.op = "STf" -> WriteFP(x, Filled(SubSeq(x.fr[ir.src], 1, len \div 2)), ir.dst, len)
          [] OTHER -> ReadAndUse(x, ir, len))

FpStatusOps  == {"CFCC", "SETF", "SETD", "SETI", "SETL", "LDFPS", "STFPS", "STEXP", "STST", "FILL"}
FpOperandOps == {"CLRf", "TSTf", "ABSf", "NEGf", "LDf", "STf"}

(* fp11: the register change comes last. *)
fp11(c, ir) ==
    LET c1 == [c EXCEPT !.backup = c.r[PC], !.change = [reg |-> 0, delta |-> 0]]
    IN Then(IF ir.op \in FpStatusOps THEN FpStatus(c1, ir) ELSE FpOperand(c1, ir, LenF(c1)), Commit)

-----------------------------------------------------------------------------
(* The big switch. *)

SingleOps == {"CLR", "COM", "INC", "DEC", "NEG", "ADC", "SBC", "TST", "ROR", "ROL", "ASR", "ASL",
              "SWAB", "SXT"}
BranchesLow  == {"BR", "BNE", "BEQ", "BGE", "BLT", "BGT", "BLE"}
BranchesHigh == {"BPL", "BMI", "BHI", "BLOS", "BVC", "BVS", "BCC", "BCS"}
Branch(c, ir, taken) == IF taken THEN Jump(c, Target(c.r[PC], ir.dst)) ELSE c

Decode(c, ir) ==
    CASE ir.op \in SingleOps -> SingleOp(c, ir)
      [] ir.op = "MOV" -> Move(c, ir)
      [] ir.op \in {"CMP", "BIT", "BIC", "BIS", "ADD", "SUB", "XOR"} -> DoubleOp(c, ir)
      [] ir.op \in {"MUL", "DIV", "ASH", "ASHC"} -> ExtendedOp(c, ir)
      [] ir.op \in BranchesLow -> Branch(c, ir, TakenLow(ir.op, c.cc))
      [] ir.op \in BranchesHigh -> Branch(c, ir, TakenHigh(ir.op, c.cc))
      [] ir.op = "JMP" -> Jmp(c, ir)
      [] ir.op = "JSR" -> Jsr(c, ir)
      [] ir.op = "RTS" -> Rts(c, ir)
      [] ir.op = "MARK" -> Mark(c, ir)
      [] ir.op \in {"RTI", "RTT"} -> Return(c, ir)
      [] ir.op \in {"MFPI", "MFPD"} -> MoveFrom(c, ir)
      [] ir.op \in {"MTPI", "MTPD"} -> MoveTo(c, ir)
      [] ir.op = "CSM" -> Csm(c, ir)
      [] ir.op \in {"TSTSET", "WRTLCK"} -> Interlocked(c, ir)
      [] ir.op \in {"MTPS", "MFPS"} -> Status(c, ir)
      [] ir.op \in {"SEC", "CLC"} -> CodeOp(c, ir)
      [] ir.op = "SOB" -> Sob(c, ir)
      [] ir.op \in FpStatusOps \cup FpOperandOps -> fp11(c, ir)
      [] OTHER -> Control(c, ir)

(* An abort becomes a trap at the top of the loop; that of a floating      *)
(* point instruction without its accumulator only looks for interrupts.    *)
(* Nothing reads the results of this instruction again.                    *)
Land(c) == [c EXCEPT !.trap = IF c.abort \in {None, "INT"} THEN @ ELSE @ \cup {c.abort},
                     !.abort = None, !.words = <<>>, !.backup = 0,
                     !.change = [reg |-> 0, delta |-> 0], !.val = 0, !.src = 0, !.pa = 0, !.last_pa = 0,
                     !.ea = Va(0, c.isenable)]

Begin(c) ==
    [c EXCEPT !.trap = IF c.t THEN @ \cup {"TRC"} ELSE @,
              !.mods = <<>>,
              !.mmr1 = IF update_MM(c) THEN <<>> ELSE @,
              !.mmr2 = IF update_MM(c) THEN c.r[PC] ELSE @]

Executed(c) ==
    LET c1 == Begin(c)
    IN Land(Then(ReadE(c1, Va(c1.r[PC], c1.isenable)), LAMBDA x :
                 Decode([x EXCEPT !.r[PC] = (@ + 2) % 65536], x.val)))

-----------------------------------------------------------------------------
(* Traps. *)

Priority == <<"RED", "ODD", "MME", "NXM", "PAR", "PRV", "ILL", "BPT", "IOT", "EMT", "TRAP",
              "TRC", "YEL", "PWRFL", "FPE">>
Rank(t) == CHOOSE i \in DOMAIN Priority : Priority[i] = t

trap_vec(t) ==
    CASE t \in {"RED", "ODD", "NXM", "PRV", "YEL"} -> \o4
      [] t = "MME" -> \o250   [] t = "PAR" -> \o114   [] t = "ILL" -> \o10
      [] t \in {"BPT", "TRC"} -> \o14                 [] t = "IOT" -> \o20
      [] t = "EMT" -> \o30    [] t = "TRAP" -> \o34   [] t = "PWRFL" -> \o24
      [] t = "FPE" -> \o244

(* What a trap withdraws besides itself. *)
trap_clear(t) ==
    {t} \cup CASE t = "RED" -> {"PAR", "YEL", "TRC", "ODD", "NXM"}
               [] t \in {"ODD", "MME", "NXM"} -> {"PAR", "YEL", "TRC"}
               [] t \in {"PAR", "PRV", "ILL", "BPT", "IOT", "EMT", "TRAP"} -> {"TRC"}
               [] OTHER -> {}

(* Mutant: the running stack pointer is replaced in any mode. *)
PushAbortedAnyMode(c, md) ==
    IF c.abort = None \/ md # KER THEN c
    ELSE SetR([c EXCEPT !.trap = @ \cup {"RED"}, !.cpuerr = @ \cup {"RED"}, !.stack[KER] = 4],
              SP, 4)

(* An abort while PC and PSW are pushed on the kernel stack makes a new    *)
(* stack at 4.                                                             *)
PushAborted(c, md) ==
    IF c.abort = None \/ md # KER THEN c
    ELSE LET c1 == [c EXCEPT !.trap = @ \cup {"RED"}, !.cpuerr = @ \cup {"RED"},
                             !.stack[KER] = 4]
         IN IF c.cm = KER THEN SetR(c1, SP, 4) ELSE c1

(* The old PC and PSW, those of c, go on the stack of the new mode; the    *)
(* new ones are pc and psw.                                                *)
Enter(c, y, pc, psw, t) ==
    LET md == Field(psw, 14, 2)
        on(n) == Va(y.stack[md] - n, calc_ds(y, md))
        z  == PushAborted(Then(Write(y, get_PSW(c), on(2), 16),
                               LAMBDA p : Write(p, c.r[PC], on(4), 16)), md)
    IN Then(z, LAMBDA p :
         LET q == Change(p, psw - 4096 * Field(psw, 12, 2) + 4096 * c.cm, FALSE)
             s == Jump(SetR(q, SP, (q.stack[md] - 4) % 65536), pc)
         IN IF t \in {"RED", "YEL"} THEN s ELSE CheckStack(s, s.r[SP]))

(* The trap sequence through the vector vec. *)
Sequence(c, vec, t) ==
    LET c0 == [c EXCEPT !.wait = FALSE, !.stack[c.cm] = c.r[SP]]
        at(a) == Va(a, calc_ds(c, KER))
    IN Land(Then(Read(c0, at(vec), 16), LAMBDA x :
            Then(Read(x, at(vec + 2), 16), LAMBDA y : Enter(c, y, x.val, y.val, t))))

TakeTrap(c) ==
    LET t == CHOOSE t \in c.trap : \A s \in c.trap : Rank(t) <= Rank(s)
    IN Sequence([c EXCEPT !.trap = @ \ trap_clear(t)], trap_vec(t), t)

-----------------------------------------------------------------------------
Instruction == cpu.trap = {} /\ ~cpu.wait /\ cpu' = Executed(cpu)
Trap        == cpu.trap # {} /\ cpu' = TakeTrap(cpu)

(* A device interrupts through vec (Qbus: level 4). *)
Interrupt(vec) == cpu.trap = {} /\ cpu.ipl < 4 /\ cpu' = Sequence(cpu, vec, "INT")

-----------------------------------------------------------------------------
(* The spaces that references use are those of the current mode, whatever  *)
(* way the mode or MMR3 was changed.                                       *)
SpacesFresh ==
    cpu.isenable = calc_is(cpu.cm) /\ cpu.dsenable = calc_ds(cpu, cpu.cm)

(* What a program of the mode md, or with register set s, will find. *)
StackOf(c, md)   == IF md = c.cm THEN c.r[SP] ELSE c.stack[md]
RegisterOf(c, s) == IF s = c.rs THEN [i \in 0 .. 5 |-> c.r[i]] ELSE c.regfile[s]
=============================================================================
