------------------------------ MODULE CpuProofs ------------------------------
(***************************************************************************)
(* The spaces of the processor are those of its mode, for every content of *)
(* memory, every instruction and every state that it starts from: routine  *)
(* after routine keeps the relation, whether it ends or aborts.            *)
(***************************************************************************)
EXTENDS MCCpu, TLAPS

Shape == {"cm", "dspace", "isenable", "dsenable"}

Shaped(c) == Shape \subseteq DOMAIN c

(* A state whose spaces are those of its mode.                             *)
Fit(c) ==
    /\ Shaped(c)
    /\ c.isenable = calc_is(c.cm)
    /\ c.dsenable = calc_ds(c, c.cm)

-----------------------------------------------------------------------------
(* Relocation                                                              *)

LEMMA AbortFit ==
    ASSUME NEW c, Fit(c), NEW t
    PROVE  Fit(Abort(c, t))
BY DEF Fit, Shaped, Shape, Abort, calc_is, calc_ds

LEMMA SetTrapFit ==
    ASSUME NEW c, Fit(c), NEW t
    PROVE  Fit(SetTrap(c, t))
BY DEF Fit, Shaped, Shape, SetTrap, calc_is, calc_ds

LEMMA SetRFit ==
    ASSUME NEW c, Fit(c), NEW reg, NEW d
    PROVE  Fit(SetR(c, reg, d))
BY DEF Fit, Shaped, Shape, SetR, calc_is, calc_ds

LEMMA ResultFit ==
    ASSUME NEW c, Fit(c), NEW d
    PROVE  /\ Fit([c EXCEPT !.val = d]) /\ Fit([c EXCEPT !.src = d])
           /\ Fit([c EXCEPT !.ea = d]) /\ Fit([c EXCEPT !.last_pa = d])
           /\ Fit([c EXCEPT !.words = d])
BY DEF Fit, Shaped, Shape, calc_is, calc_ds

LEMMA RelocFit ==
    ASSUME NEW c, Fit(c), NEW va, NEW denied
    PROVE  Fit(Reloc(c, va, denied))
BY DEF Fit, Shaped, Shape, Reloc, reloc_abort, Abort, calc_is, calc_ds

LEMMA RelocRFit ==
    ASSUME NEW c, Fit(c), NEW va
    PROVE  Fit(relocR(c, va))
<1> DEFINE denied == [acf \in {0, 2, 4, 6} |-> IF acf \in {2, 6} THEN {} ELSE {"NR"}]
<1>1. relocR(c, va) = Reloc(c, va, denied)
    BY DEF relocR
<1> HIDE DEF denied
<1> QED BY <1>1, RelocFit

LEMMA RelocWFit ==
    ASSUME NEW c, Fit(c), NEW va
    PROVE  Fit(relocW(c, va))
<1> DEFINE denied == [acf \in {0, 2, 4, 6} |->
                          CASE acf = 6 -> {} [] acf = 2 -> {"RO"} [] OTHER -> {"NR"}]
           c1 == Reloc(c, va, denied)
<1>1. relocW(c, va) = IF c1.abort # None \/ ~c.mme THEN c1
                      ELSE [c1 EXCEPT !.apr[Index(va)].w = TRUE]
    BY DEF relocW
<1> HIDE DEF denied
<1>2. Fit(c1)
    BY RelocFit
<1> HIDE DEF c1
<1>3. Fit([c1 EXCEPT !.apr[Index(va)].w = TRUE])
    BY <1>2 DEF Fit, Shaped, Shape, calc_is, calc_ds
<1> QED BY <1>1, <1>2, <1>3

-----------------------------------------------------------------------------
(* The status word, the registers of the I/O page and memory               *)

LEMMA SpacesFit ==
    ASSUME NEW c, Shaped(c)
    PROVE  Fit(Spaces(c))
BY DEF Fit, Shaped, Shape, Spaces, calc_is, calc_ds

LEMMA ChangeFit ==
    ASSUME NEW c, Shaped(c), NEW val, NEW prot
    PROVE  Fit(Change(c, val, prot))
<1> DEFINE c0 == put_PSW(c, val, prot)
           c1 == SwapSets(c0, c.rs)
           c2 == SetR(c1, SP, c1.stack[c1.cm])
<1>1. Shaped(c0)
    BY DEF put_PSW, Shaped, Shape
<1> HIDE DEF c0
<1>2. Shaped(c1)
    <2> DEFINE files == [c0.regfile EXCEPT ![c.rs] = [i \in 0 .. 5 |-> c0.r[i]]]
               regs == [i \in 0 .. 7 |-> IF i < 6 THEN c0.regfile[c0.rs][i] ELSE c0.r[i]]
    <2>1. c1 = IF c0.rs = c.rs THEN c0 ELSE [c0 EXCEPT !.regfile = files, !.r = regs]
        BY DEF SwapSets
    <2> HIDE DEF c1, files, regs
    <2> QED BY <1>1, <2>1 DEF Shaped, Shape
<1>3. Change(c, val, prot) = Spaces(c2)
    BY DEF Change, c0
<1> HIDE DEF c1
<1>4. Shaped(c2)
    BY <1>2 DEF SetR, Shaped, Shape
<1> HIDE DEF c2
<1> QED BY <1>3, <1>4, SpacesFit

LEMMA PSWFit ==
    ASSUME NEW c, Fit(c), NEW data
    PROVE  Fit(PSW_wr(c, data))
<1> DEFINE c1 == [c EXCEPT !.stack[c.cm] = c.r[SP]]
           d == IF c.t THEN Or(data, 16) ELSE data - 16 * Bit(IsSet(data, 4))
<1>1. Shaped(c1)
    <2> DEFINE stacks == [c.stack EXCEPT ![c.cm] = c.r[SP]]
    <2>1. c1 = [c EXCEPT !.stack = stacks]
        OBVIOUS
    <2> HIDE DEF c1, stacks
    <2> QED BY <2>1 DEF Fit, Shaped, Shape
<1>2. PSW_wr(c, data) = Change(c1, d, FALSE)
    BY DEF PSW_wr
<1> HIDE DEF c1, d
<1> QED BY <1>1, <1>2, ChangeFit

LEMMA MMR0Fit ==
    ASSUME NEW c, Fit(c), NEW data
    PROVE  Fit(MMR0_wr(c, data))
BY DEF Fit, Shaped, Shape, MMR0_wr, calc_is, calc_ds

LEMMA MMR3Fit ==
    ASSUME NEW c, Fit(c), NEW data
    PROVE  Fit(MMR3_wr(c, data))
<1> DEFINE ds == {md \in {KER, SUP, USR} :
                     IsSet(data, CASE md = USR -> 0 [] md = SUP -> 1 [] md = KER -> 2)}
           c1 == [c EXCEPT !.dspace = ds, !.csm = IsSet(data, 3), !.m22 = IsSet(data, 4)]
<1>1. MMR3_wr(c, data) = [c1 EXCEPT !.dsenable = calc_ds(c1, c1.cm)]
    BY DEF MMR3_wr
<1> HIDE DEF ds
<1>2. Shaped(c1) /\ c1.cm = c.cm /\ c1.isenable = c.isenable
    BY DEF Fit, Shaped, Shape
<1>3. c1.isenable = calc_is(c1.cm)
    BY <1>2 DEF Fit
<1> HIDE DEF c1
<1> QED BY <1>1, <1>2, <1>3 DEF Fit, Shaped, Shape, calc_is, calc_ds

LEMMA AprFit ==
    ASSUME NEW c, Fit(c), NEW pa, NEW data
    PROVE  Fit(APR_wr(c, pa, data))
<1> DEFINE i == AprIndex(pa)
           new == IF IsPar(pa) THEN [Apr(c, i) EXCEPT !.par = data, !.w = FALSE]
                  ELSE [par |-> Apr(c, i).par, acf |-> 2 * Field(data, 1, 2),
                        ed |-> IsSet(data, 3), plf |-> Field(data, 8, 7), w |-> FALSE]
           table == (i :> new) @@ c.apr
<1>1. APR_wr(c, pa, data) = [c EXCEPT !.apr = table]
    BY DEF APR_wr
<1> HIDE DEF table
<1> QED BY <1>1 DEF Fit, Shaped, Shape, calc_is, calc_ds

(* A register that answers is one of those that can be written.            *)
LEMMA IoWriteFit ==
    ASSUME NEW c, Fit(c), NEW pa, NEW data, IoRead(c, pa) # {}
    PROVE  Fit(IoWrite(c, pa, data))
<1>1. \/ pa = \o17777776
      \/ pa = \o17777572
      \/ pa = \o17772516
      \/ pa \in {\o17777574, \o17777576}
      \/ IsApr(pa)
    BY DEF IoRead
<1> QED BY <1>1, PSWFit, MMR0Fit, MMR3Fit, AprFit DEF IoWrite, IsApr

LEMMA MissingFit ==
    ASSUME NEW c, Fit(c), NEW err
    PROVE  Fit(Missing(c, err))
BY DEF Fit, Shaped, Shape, Missing, Abort, calc_is, calc_ds

LEMMA OddFit ==
    ASSUME NEW c, Fit(c)
    PROVE  Fit(Odd(c))
BY DEF Fit, Shaped, Shape, Odd, Abort, calc_is, calc_ds

LEMMA PReadFit ==
    ASSUME NEW c, Fit(c), NEW w
    PROVE  Fit(PRead(c, w))
<1> DEFINE pa == c.pa
           p == pa - (pa % 2)
           x == CHOOSE a \in IoRead(c, p) : TRUE
           word == IF w = 16 THEN Memory(c, pa) ELSE Byte(Memory(c, pa), pa)
           part == IF w = 16 THEN x ELSE Byte(x, pa)
<1>1. PRead(c, w) =
          IF pa < MemSize THEN [c EXCEPT !.val = word]
          ELSE IF pa < \o17760000 THEN Missing(c, "NXM")
          ELSE IF IoRead(c, p) = {} THEN Missing(c, "TMO")
          ELSE [c EXCEPT !.val = part]
    BY DEF PRead, Answered
<1> HIDE DEF pa, word, p, part
<1>2. Fit([c EXCEPT !.val = word]) /\ Fit([c EXCEPT !.val = part])
    BY ResultFit
<1> QED BY <1>1, <1>2, MissingFit

LEMMA PWriteFit ==
    ASSUME NEW c, Fit(c), NEW d, NEW pa, NEW w
    PROVE  Fit(PWrite(c, d, pa, w))
<1> DEFINE table == (pa \div 2 :> IF w = 16 THEN d ELSE WithByte(Memory(c, pa), pa, d)) @@ c.mem
           p == pa - (pa % 2)
           x == CHOOSE a \in IoRead(c, p) : TRUE
           both == IF w = 16 THEN d ELSE WithByte(x, pa, d)
<1>1. PWrite(c, d, pa, w) =
          IF pa < MemSize THEN [c EXCEPT !.mem = table]
          ELSE IF pa < \o17760000 THEN Missing(c, "NXM")
          ELSE IF IoRead(c, p) = {} THEN Missing(c, "TMO")
          ELSE IoWrite(c, p, both)
    BY DEF PWrite, Answered
<1> HIDE DEF table, p, both
<1>2. Fit([c EXCEPT !.mem = table])
    BY DEF Fit, Shaped, Shape, calc_is, calc_ds
<1> QED BY <1>1, <1>2, MissingFit, IoWriteFit

LEMMA ReadEFit ==
    ASSUME NEW c, Fit(c), NEW va
    PROVE  Fit(ReadE(c, va))
BY OddFit, RelocRFit, MissingFit, PReadFit DEF ReadE, Then

LEMMA ReadFit ==
    ASSUME NEW c, Fit(c), NEW va, NEW w
    PROVE  Fit(Read(c, va, w))
BY OddFit, RelocRFit, PReadFit DEF Read, Then

LEMMA ReadMFit ==
    ASSUME NEW c, Fit(c), NEW va, NEW w
    PROVE  Fit(ReadM(c, va, w))
<1> DEFINE x == relocW(c, va)
           y == [x EXCEPT !.last_pa = x.pa]
<1>1. ReadM(c, va, w) = IF IsOdd(c, va, w) THEN Odd(c)
                        ELSE IF x.abort = None THEN PRead(y, w) ELSE x
    BY DEF ReadM, Then
<1>2. Fit(x)
    BY RelocWFit
<1> HIDE DEF x
<1>3. Fit(y)
    BY <1>2, ResultFit
<1> HIDE DEF y
<1> QED BY <1>1, <1>2, <1>3, OddFit, PReadFit

LEMMA WriteFit ==
    ASSUME NEW c, Fit(c), NEW d, NEW va, NEW w
    PROVE  Fit(Write(c, d, va, w))
BY OddFit, RelocWFit, PWriteFit DEF Write, Then

-----------------------------------------------------------------------------
(* Effective addresses and operands                                        *)

(* What changes registers, codes and the record of register changes.       *)
LEMMA RegistersFit ==
    ASSUME NEW c, Fit(c), NEW d
    PROVE  /\ Fit([c EXCEPT !.r = d]) /\ Fit([c EXCEPT !.cc = d])
           /\ Fit([c EXCEPT !.stack = d]) /\ Fit([c EXCEPT !.ipl = d])
           /\ Fit([c EXCEPT !.fps = d]) /\ Fit([c EXCEPT !.fr = d])
           /\ Fit([c EXCEPT !.change = d])
BY DEF Fit, Shaped, Shape, calc_is, calc_ds

LEMMA CheckStackFit ==
    ASSUME NEW c, Fit(c), NEW adr
    PROVE  Fit(CheckStack(c, adr))
BY DEF Fit, Shaped, Shape, CheckStack, SetTrap, calc_is, calc_ds

LEMMA StepFit ==
    ASSUME NEW c, Fit(c), NEW reg, NEW delta
    PROVE  Fit(Step(c, reg, delta))
<1> DEFINE regs == [c.r EXCEPT ![reg] = (@ + delta) % 65536]
           x == [c EXCEPT !.r = regs]
           m == Append(x.mods, [reg |-> reg, delta |-> delta])
           n == IF update_MM(x) /\ reg # PC THEN m ELSE x.mmr1
<1>1. Step(c, reg, delta) = [x EXCEPT !.mods = m, !.mmr1 = n]
    BY DEF Step, Record
<1> HIDE DEF regs
<1>2. Fit(x)
    BY RegistersFit
<1> HIDE DEF x, m, n
<1> QED BY <1>1, <1>2 DEF Fit, Shaped, Shape, calc_is, calc_ds

LEMMA NextWordFit ==
    ASSUME NEW c, Fit(c)
    PROVE  Fit(NextWord(c))
<1> DEFINE x == Read(c, Va(c.r[PC], c.isenable), 16)
           regs == [x.r EXCEPT ![PC] = (@ + 2) % 65536]
<1>1. NextWord(c) = IF x.abort = None THEN [x EXCEPT !.r = regs] ELSE x
    BY DEF NextWord, Then
<1>2. Fit(x)
    BY ReadFit
<1> HIDE DEF x, regs
<1>3. Fit([x EXCEPT !.r = regs])
    BY <1>2, RegistersFit
<1> QED BY <1>1, <1>2, <1>3

LEMMA DeferredFit ==
    ASSUME NEW c, Fit(c), NEW mode
    PROVE  Fit(Deferred(c, mode))
<1> DEFINE x == Read(c, c.ea, 16)
           ea == Va(x.val, x.dsenable)
<1>1. Deferred(c, mode) = IF mode \in {3, 5, 7}
                          THEN IF x.abort = None THEN [x EXCEPT !.ea = ea] ELSE x
                          ELSE c
    BY DEF Deferred, Then
<1>2. Fit(x)
    BY ReadFit
<1> HIDE DEF x, ea
<1>3. Fit([x EXCEPT !.ea = ea])
    BY <1>2, ResultFit
<1> QED BY <1>1, <1>2, <1>3

LEMMA IndexedFit ==
    ASSUME NEW c, Fit(c), NEW reg
    PROVE  Fit(Indexed(c, reg))
<1> DEFINE x == NextWord(c)
           ea == Va(x.r[reg] + x.val, x.dsenable)
<1>1. Indexed(c, reg) = IF x.abort = None THEN [x EXCEPT !.ea = ea] ELSE x
    BY DEF Indexed, Then
<1>2. Fit(x)
    BY NextWordFit
<1> HIDE DEF x, ea
<1>3. Fit([x EXCEPT !.ea = ea])
    BY <1>2, ResultFit
<1> QED BY <1>1, <1>2, <1>3

LEMMA AddressFit ==
    ASSUME NEW c, Fit(c), NEW x, Fit(x), NEW a, NEW reg
    PROVE  Fit([x EXCEPT !.ea = Va(a, DataSpace(c, reg))])
<1> DEFINE ea == Va(a, DataSpace(c, reg))
<1> HIDE DEF ea
<1>1. Fit([x EXCEPT !.ea = ea])
    BY ResultFit
<1> QED BY <1>1 DEF ea

LEMMA GeteaFit ==
    ASSUME NEW c, Fit(c), NEW spec, NEW w
    PROVE  Fit(Getea(c, spec, w))
<1> DEFINE mode  == spec \div 8
           reg   == spec % 8
           delta == IF w = 8 /\ reg < 6 /\ mode \in {2, 4} THEN 1 ELSE 2
           up == Step(c, reg, delta)
           down == StackChecked(Step(c, reg, -delta), reg)
           At(x, a) == [x EXCEPT !.ea = Va(a, DataSpace(c, reg))]
           x1 == CASE mode = 1 -> At(c, c.r[reg])
                   [] mode \in {2, 3} -> At(up, c.r[reg])
                   [] mode \in {4, 5} -> At(down, c.r[reg] - delta)
                   [] OTHER -> Indexed(c, reg)
<1>1. Getea(c, spec, w) = IF x1.abort = None THEN Deferred(x1, mode) ELSE x1
    BY DEF Getea, Then
<1>2. Fit(up)
    BY StepFit
<1>3. Fit(down)
    BY StepFit, CheckStackFit DEF StackChecked
<1> HIDE DEF up, down, mode, reg, delta
<1>4. Fit(At(c, c.r[reg])) /\ Fit(At(up, c.r[reg])) /\ Fit(At(down, c.r[reg] - delta))
    BY <1>2, <1>3, AddressFit
<1>5. Fit(Indexed(c, reg))
    BY IndexedFit
<1> HIDE DEF At
<1>6. Fit(x1)
    BY <1>4, <1>5
<1> HIDE DEF x1
<1> QED BY <1>1, <1>6, DeferredFit

LEMMA OperandFit ==
    ASSUME NEW c, Fit(c), NEW spec, NEW w, NEW m
    PROVE  Fit(Operand(c, spec, w, m))
<1> DEFINE x == Getea(c, spec, w)
           d == c.r[spec] % 2^w
<1>1. Operand(c, spec, w, m) =
          IF Direct(spec) THEN [c EXCEPT !.val = d]
          ELSE IF x.abort = None THEN IF m THEN ReadM(x, x.ea, w) ELSE Read(x, x.ea, w)
          ELSE x
    BY DEF Operand, Then
<1>2. Fit(x)
    BY GeteaFit
<1> HIDE DEF x, d
<1>3. Fit([c EXCEPT !.val = d])
    BY ResultFit
<1>4. Fit(ReadM(x, x.ea, w)) /\ Fit(Read(x, x.ea, w))
    BY <1>2, ReadMFit, ReadFit
<1> QED BY <1>1, <1>2, <1>3, <1>4

LEMMA StoreFit ==
    ASSUME NEW c, Fit(c), NEW spec, NEW d, NEW w
    PROVE  Fit(Store(c, spec, d, w))
BY SetRFit, PWriteFit DEF Store, PutReg

LEMMA StoreNewFit ==
    ASSUME NEW c, Fit(c), NEW spec, NEW d, NEW w
    PROVE  Fit(StoreNew(c, spec, d, w))
<1> DEFINE x == Getea(c, spec, w)
<1>1. StoreNew(c, spec, d, w) =
          IF Direct(spec) THEN PutReg(c, spec, d, w)
          ELSE IF x.abort = None THEN Write(x, d, x.ea, w) ELSE x
    BY DEF StoreNew, Then
<1>2. Fit(x)
    BY GeteaFit
<1> HIDE DEF x
<1>3. Fit(PutReg(c, spec, d, w))
    BY SetRFit DEF PutReg
<1>4. Fit(Write(x, d, x.ea, w))
    BY <1>2, WriteFit
<1> QED BY <1>1, <1>2, <1>3, <1>4

LEMMA SetCCFit ==
    ASSUME NEW c, Fit(c), NEW res
    PROVE  Fit(SetCC(c, res))
<1> DEFINE cc == Codes(res.n, res.z, res.v, res.c)
<1>1. SetCC(c, res) = [c EXCEPT !.cc = cc]
    BY DEF SetCC
<1> HIDE DEF cc
<1>2. Fit([c EXCEPT !.cc = cc])
    BY RegistersFit
<1> QED BY <1>1, <1>2

-----------------------------------------------------------------------------
(* Instructions                                                            *)

LEMMA SingleOpFit ==
    ASSUME NEW c, Fit(c), NEW i
    PROVE  Fit(SingleOp(c, i))
<1> DEFINE clear == Single(i.op, 0, c.cc, i.w)
           t == Operand(c, i.dst, i.w, FALSE)
           x == Operand(c, i.dst, i.w, TRUE)
           test == Single("TST", t.val, t.cc, i.w)
           res == IF i.op = "SWAB" THEN Swab(x.val) ELSE Single(i.op, x.val, x.cc, i.w)
           cleared == StoreNew(SetCC(c, clear), i.dst, clear.val, i.w)
           tested == IF t.abort = None THEN SetCC(t, test) ELSE t
           done == IF x.abort = None THEN Store(SetCC(x, res), i.dst, res.val, i.w) ELSE x
<1>1. SingleOp(c, i) = CASE i.op \in {"CLR", "SXT"} -> cleared
                         [] i.op = "TST" -> tested
                         [] OTHER -> done
    BY DEF SingleOp, Then
<1>2. Fit(t) /\ Fit(x)
    BY OperandFit
<1> HIDE DEF t, x, clear, test, res
<1>3. Fit(cleared) /\ Fit(tested) /\ Fit(done)
    BY <1>2, SetCCFit, StoreNewFit, StoreFit
<1> HIDE DEF cleared, tested, done
<1> QED BY <1>1, <1>3

LEMMA SourceFit ==
    ASSUME NEW c, Fit(c), NEW i
    PROVE  Fit(Source(c, i))
<1> DEFINE x == Operand(c, i.src, i.w, FALSE)
           d == x.val
<1>1. Source(c, i) = IF x.abort = None THEN [x EXCEPT !.src = d] ELSE x
    BY DEF Source, Then
<1>2. Fit(x)
    BY OperandFit
<1> HIDE DEF x, d
<1>3. Fit([x EXCEPT !.src = d])
    BY <1>2, ResultFit
<1> QED BY <1>1, <1>2, <1>3

LEMMA MoveFit ==
    ASSUME NEW c, Fit(c), NEW i
    PROVE  Fit(Move(c, i))
<1> DEFINE dest(x) == IF Direct(i.dst) THEN x ELSE Getea(x, i.dst, i.w)
           s == Source(c, i)
           both == IF RegisterLast(i)
                   THEN IF dest(c).abort = None THEN Source(dest(c), i) ELSE dest(c)
                   ELSE IF s.abort = None THEN dest(s) ELSE s
           res == Double("MOV", both.src, 0, both.cc, i.w)
           y == SetCC(both, res)
           d == IF i.w = 8 /\ Sign(both.src, 8) THEN both.src + 65280 ELSE both.src
<1>1. Move(c, i) = IF both.abort = None
                   THEN IF ~Direct(i.dst) THEN Write(y, both.src, both.ea, i.w)
                        ELSE SetR(y, i.dst, d)
                   ELSE both
    <2>1. y.ea = both.ea /\ y.src = both.src
        BY DEF SetCC
    <2> QED BY <2>1 DEF Move, Then
<1>2. ASSUME NEW x, Fit(x) PROVE Fit(dest(x))
    BY <1>2, GeteaFit
<1>3. Fit(s)
    BY SourceFit
<1> HIDE DEF dest, s
<1>4. Fit(both)
    BY <1>2, <1>3, SourceFit
<1> HIDE DEF both, res, d
<1>5. Fit(y)
    BY <1>4, SetCCFit
<1> HIDE DEF y
<1> QED BY <1>1, <1>4, <1>5, WriteFit, SetRFit

LEMMA DoubleOpFit ==
    ASSUME NEW c, Fit(c), NEW i
    PROVE  Fit(DoubleOp(c, i))
<1> DEFINE modifies == i.op \notin {"CMP", "BIT"}
           dest(x) == Operand(x, i.dst, i.w, modifies)
           t == dest(c)
           d == t.r[i.src] % 2^i.w
           s == Source(c, i)
           x == IF RegisterLast(i) THEN IF t.abort = None THEN [t EXCEPT !.src = d] ELSE t
                ELSE IF s.abort = None THEN dest(s) ELSE s
           res == Double(i.op, x.src, x.val, x.cc, i.w)
           y == SetCC(x, res)
<1>1. DoubleOp(c, i) = IF x.abort = None
                       THEN IF modifies THEN Store(y, i.dst, res.val, i.w) ELSE y
                       ELSE x
    BY DEF DoubleOp, Then
<1>2. Fit(t)
    BY OperandFit
<1>3. Fit(s)
    BY SourceFit
<1> HIDE DEF s, t, d, modifies
<1>4. Fit(dest(s)) /\ Fit([t EXCEPT !.src = d])
    BY <1>2, <1>3, OperandFit, ResultFit
<1> HIDE DEF dest
<1>5. Fit(x)
    BY <1>2, <1>3, <1>4
<1> HIDE DEF x, res
<1>6. Fit(y)
    BY <1>5, SetCCFit
<1> HIDE DEF y
<1> QED BY <1>1, <1>5, <1>6, StoreFit

LEMMA ExtendedOpFit ==
    ASSUME NEW c, Fit(c), NEW i
    PROVE  Fit(ExtendedOp(c, i))
<1> DEFINE odd == IF i.src % 2 = 1 THEN i.src ELSE i.src + 1
           x == Operand(c, i.dst, 16, FALSE)
           hi == x.r[i.src]
           lo == x.r[odd]
           res == CASE i.op = "MUL"  -> Mul(hi, x.val)
                    [] i.op = "DIV"  -> Div(hi, lo, x.val)
                    [] i.op = "ASHC" -> Ashc(hi, lo, x.val % 64)
                    [] i.op = "ASH"  -> [hi |-> Ash(hi, x.val % 64).val, lo |-> lo,
                                         cc |-> Ash(hi, x.val % 64).cc]
           regs == [x.r EXCEPT ![i.src] = res.hi]
           cc == res.cc
           y == [x EXCEPT !.r = regs, !.cc = cc]
<1>1. ExtendedOp(c, i) = IF x.abort = None
                         THEN IF i.op = "ASH" THEN y ELSE SetR(y, odd, res.lo)
                         ELSE x
    BY DEF ExtendedOp, Then
<1>2. Fit(x)
    BY OperandFit
<1> HIDE DEF x, odd, hi, lo, res, regs, cc
<1>3. Fit(y)
    BY <1>2 DEF Fit, Shaped, Shape, calc_is, calc_ds
<1> HIDE DEF y
<1> QED BY <1>1, <1>2, <1>3, SetRFit

LEMMA JumpFit ==
    ASSUME NEW c, Fit(c), NEW a
    PROVE  Fit(Jump(c, a))
BY SetRFit DEF Jump

LEMMA JmpFit ==
    ASSUME NEW c, Fit(c), NEW i
    PROVE  Fit(Jmp(c, i))
<1> DEFINE x == Getea(c, i.dst, 16)
<1>1. Jmp(c, i) = IF Direct(i.dst) THEN SetTrap(c, "ILL")
                  ELSE IF x.abort = None THEN Jump(x, x.ea.a) ELSE x
    BY DEF Jmp, Then
<1>2. Fit(x)
    BY GeteaFit
<1> HIDE DEF x
<1> QED BY <1>1, <1>2, SetTrapFit, JumpFit

LEMMA PushFit ==
    ASSUME NEW c, Fit(c), NEW d
    PROVE  Fit(Push(c, d))
<1> DEFINE c1 == Step(c, SP, -2)
           c2 == Write(c1, d, Va(c1.r[SP], c1.dsenable), 16)
<1>1. Push(c, d) = IF c2.abort = None THEN CheckStack(c2, c2.r[SP]) ELSE c2
    BY DEF Push, Then
<1>2. Fit(c1)
    BY StepFit
<1> HIDE DEF c1
<1>3. Fit(c2)
    BY <1>2, WriteFit
<1> HIDE DEF c2
<1> QED BY <1>1, <1>3, CheckStackFit

LEMMA JsrFit ==
    ASSUME NEW c, Fit(c), NEW i
    PROVE  Fit(Jsr(c, i))
<1> DEFINE x == Getea(c, i.dst, 16)
           linked == IF i.src = SP THEN (x.r[SP] - 2) % 65536 ELSE x.r[i.src]
           y == Push(x, linked)
           z == SetR(y, i.src, y.r[PC])
<1>1. Jsr(c, i) = IF Direct(i.dst) THEN SetTrap(c, "ILL")
                  ELSE IF x.abort = None THEN IF y.abort = None THEN Jump(z, x.ea.a) ELSE y
                  ELSE x
    BY DEF Jsr, Then
<1>2. Fit(x)
    BY GeteaFit
<1> HIDE DEF x, linked
<1>3. Fit(y)
    BY <1>2, PushFit
<1> HIDE DEF y
<1>4. Fit(z)
    BY <1>3, SetRFit
<1> HIDE DEF z
<1> QED BY <1>1, <1>2, <1>3, <1>4, SetTrapFit, JumpFit

LEMMA RtsFit ==
    ASSUME NEW c, Fit(c), NEW i
    PROVE  Fit(Rts(c, i))
<1> DEFINE c1 == Jump(c, c.r[i.dst])
           x == Read(c1, Va(c1.r[SP], c1.dsenable), 16)
           y == SetR(x, i.dst, x.val)
           regs == [y.r EXCEPT ![SP] = (@ + 2) % 65536]
<1>1. Rts(c, i) = IF x.abort = None THEN IF i.dst = SP THEN y ELSE [y EXCEPT !.r = regs]
                  ELSE x
    BY DEF Rts, Then
<1>2. Fit(c1)
    BY JumpFit
<1> HIDE DEF c1
<1>3. Fit(x)
    BY <1>2, ReadFit
<1> HIDE DEF x
<1>4. Fit(y)
    BY <1>3, SetRFit
<1> HIDE DEF y, regs
<1>5. Fit([y EXCEPT !.r = regs])
    BY <1>4, RegistersFit
<1> QED BY <1>1, <1>3, <1>4, <1>5

LEMMA MarkFit ==
    ASSUME NEW c, Fit(c), NEW i
    PROVE  Fit(Mark(c, i))
<1> DEFINE a == (c.r[PC] + 2 * i.dst) % 65536
           c1 == Jump(c, c.r[5])
           x == Read(c1, Va(a, c.dsenable), 16)
           regs == [[x.r EXCEPT ![5] = x.val] EXCEPT ![SP] = (a + 2) % 65536]
           y == [x EXCEPT !.r[5] = x.val, !.r[SP] = (a + 2) % 65536]
<1>1. Mark(c, i) = IF x.abort = None THEN y ELSE x
    BY DEF Mark, Then
<1>2. Fit(c1)
    BY JumpFit
<1> HIDE DEF c1
<1>3. Fit(x)
    BY <1>2, ReadFit
<1> HIDE DEF x, a
<1>4. Fit(y)
    <2> DEFINE one == [x.r EXCEPT ![5] = x.val]
               z == [x EXCEPT !.r = one]
               two == [z.r EXCEPT ![SP] = (a + 2) % 65536]
    <2>1. y = [z EXCEPT !.r = two]
        OBVIOUS
    <2> HIDE DEF one
    <2>2. Fit(z)
        BY <1>3, RegistersFit
    <2> HIDE DEF z, two, y
    <2>3. Fit([z EXCEPT !.r = two])
        BY <2>2, RegistersFit
    <2> QED BY <2>1, <2>3
<1> HIDE DEF y
<1> QED BY <1>1, <1>3, <1>4

LEMMA ReturnFit ==
    ASSUME NEW c, Fit(c), NEW i
    PROVE  Fit(Return(c, i))
<1> DEFINE sp(n) == Va(c.r[SP] + n, c.dsenable)
           x == Read(c, sp(0), 16)
           y == Read(x, sp(2), 16)
           top == (c.r[SP] + 4) % 65536
           popped == [y EXCEPT !.stack[y.cm] = top, !.r[SP] = top]
           w == Change(popped, y.val, y.cm # KER)
           z == Jump(w, x.val)
<1>1. Return(c, i) =
          IF x.abort = None
          THEN IF y.abort = None THEN IF i.op = "RTI" /\ z.t THEN SetTrap(z, "TRC") ELSE z
               ELSE y
          ELSE x
    BY DEF Return, Then
<1> HIDE DEF sp
<1>2. Fit(x)
    BY ReadFit
<1> HIDE DEF x
<1>3. Fit(y)
    BY <1>2, ReadFit
<1> HIDE DEF y
<1>4. Shaped(popped)
    <2> DEFINE stacks == [y.stack EXCEPT ![y.cm] = top]
               regs == [y.r EXCEPT ![SP] = top]
    <2>1. popped = [y EXCEPT !.stack = stacks, !.r = regs]
        BY <1>3 DEF Fit, Shaped, Shape
    <2> HIDE DEF popped, stacks, regs
    <2> QED BY <1>3, <2>1 DEF Fit, Shaped, Shape
<1> HIDE DEF popped
<1>5. Fit(w)
    <2> DEFINE prot == y.cm # KER
    <2>1. w = Change(popped, y.val, prot)
        OBVIOUS
    <2> HIDE DEF w, prot
    <2> QED BY <1>4, <2>1, ChangeFit
<1> HIDE DEF w
<1>6. Fit(z)
    BY <1>5, JumpFit
<1> HIDE DEF z
<1> QED BY <1>1, <1>2, <1>3, <1>6, SetTrapFit

LEMMA MoveFromFit ==
    ASSUME NEW c, Fit(c), NEW i
    PROVE  Fit(MoveFrom(c, i))
<1> DEFINE data == i.op = "MFPD" \/ (c.cm = c.pm /\ c.cm = USR)
           space == IF data THEN calc_ds(c, c.pm) ELSE calc_is(c.pm)
           d == IF i.dst = SP /\ c.cm # c.pm THEN c.stack[c.pm] ELSE c.r[i.dst]
           t == Getea(c, i.dst, 16)
           x == IF Direct(i.dst) THEN [c EXCEPT !.val = d]
                ELSE IF t.abort = None THEN Read(t, Va(t.ea.a, space), 16) ELSE t
           res == Double("MOV", x.val, 0, x.cc, 16)
           y == SetCC(x, res)
<1>1. MoveFrom(c, i) = IF x.abort = None THEN Push(y, x.val) ELSE x
    BY DEF MoveFrom, Then
<1>2. Fit(t)
    BY GeteaFit
<1> HIDE DEF t, d, space
<1>3. Fit([c EXCEPT !.val = d])
    BY ResultFit
<1>4. Fit(x)
    BY <1>2, <1>3, ReadFit
<1> HIDE DEF x, res
<1>5. Fit(y)
    BY <1>4, SetCCFit
<1> HIDE DEF y
<1> QED BY <1>1, <1>4, <1>5, PushFit

LEMMA MoveToFit ==
    ASSUME NEW c, Fit(c), NEW i
    PROVE  Fit(MoveTo(c, i))
<1> DEFINE space == IF i.op = "MTPD" THEN calc_ds(c, c.pm) ELSE calc_is(c.pm)
           x == Read(c, Va(c.r[SP], c.dsenable), 16)
           d == x.val
           res == Double("MOV", d, 0, x.cc, 16)
           u == SetCC(x, res)
           y == Step(u, SP, 2)
           stacks == [y.stack EXCEPT ![y.pm] = d]
           z == Getea(y, i.dst, 16)
<1>1. MoveTo(c, i) =
          IF x.abort = None
          THEN IF Direct(i.dst)
               THEN IF i.dst = SP /\ y.cm # y.pm THEN [y EXCEPT !.stack = stacks]
                    ELSE SetR(y, i.dst, d)
               ELSE IF z.abort = None THEN Write(z, d, Va(z.ea.a, space), 16) ELSE z
          ELSE x
    BY DEF MoveTo, Then
<1>2. Fit(x)
    BY ReadFit
<1> HIDE DEF x, d, res, space
<1>3. Fit(u)
    BY <1>2, SetCCFit
<1> HIDE DEF u
<1>4. Fit(y)
    BY <1>3, StepFit
<1> HIDE DEF y, stacks
<1>5. Fit(z)
    BY <1>4, GeteaFit
<1> HIDE DEF z
<1>6. Fit([y EXCEPT !.stack = stacks])
    BY <1>4, RegistersFit
<1> QED BY <1>1, <1>2, <1>4, <1>5, <1>6, SetRFit, WriteFit

LEMMA CsmFit ==
    ASSUME NEW c, Fit(c), NEW i
    PROVE  Fit(Csm(c, i))
<1> DEFINE x == Operand(c, i.dst, 16, FALSE)
           psw == get_PSW([x EXCEPT !.cc = Codes(FALSE, FALSE, FALSE, FALSE)])
           sp(n) == Va(x.r[SP] - n, calc_ds(x, SUP))
           stacks == [x.stack EXCEPT ![x.cm] = x.r[SP]]
           old == [x EXCEPT !.stack = stacks]
           p == Write(old, psw, sp(2), 16)
           q == Write(p, p.r[PC], sp(4), 16)
           s == Write(q, x.val, sp(6), 16)
           lower == [s EXCEPT !.r[SP] = (@ - 6) % 65536, !.pm = s.cm, !.cm = SUP, !.t = FALSE]
           new == Spaces(lower)
           u == Read(new, Va(\o10, new.isenable), 16)
<1>1. Csm(c, i) =
          IF ~c.csm \/ c.cm = KER THEN SetTrap(c, "ILL")
          ELSE IF x.abort = None
               THEN IF p.abort = None
                    THEN IF q.abort = None
                         THEN IF s.abort = None
                              THEN IF u.abort = None THEN Jump(u, u.val) ELSE u
                              ELSE s
                         ELSE q
                    ELSE p
               ELSE x
    BY DEF Csm, Then
<1>2. Fit(x)
    BY OperandFit
<1> HIDE DEF x, psw, sp, stacks
<1>3. Fit(old)
    BY <1>2, RegistersFit
<1> HIDE DEF old
<1>4. Fit(p)
    BY <1>3, WriteFit
<1> HIDE DEF p
<1>5. Fit(q)
    BY <1>4, WriteFit
<1> HIDE DEF q
<1>6. Fit(s)
    BY <1>5, WriteFit
<1> HIDE DEF s
<1>7. Shaped(lower)
    <2> DEFINE regs == [s.r EXCEPT ![SP] = (@ - 6) % 65536]
    <2>1. lower = [s EXCEPT !.r = regs, !.pm = s.cm, !.cm = SUP, !.t = FALSE]
        OBVIOUS
    <2> HIDE DEF lower, regs
    <2> QED BY <1>6, <2>1 DEF Fit, Shaped, Shape
<1> HIDE DEF lower
<1>8. Fit(new)
    BY <1>7, SpacesFit
<1> HIDE DEF new
<1>9. Fit(u)
    BY <1>8, ReadFit
<1> HIDE DEF u
<1> QED BY <1>1, <1>2, <1>4, <1>5, <1>6, <1>9, SetTrapFit, JumpFit

LEMMA InterlockedFit ==
    ASSUME NEW c, Fit(c), NEW i
    PROVE  Fit(Interlocked(c, i))
<1> DEFINE x == Operand(c, i.dst, 16, TRUE)
           cc == Codes(Sign(x.val, 16), x.val = 0, FALSE, x.val % 2 = 1)
           y == [x EXCEPT !.cc = cc]
           z == SetR(y, 0, x.val)
           d == Or(x.val, 1)
           res == Double("MOV", c.r[0], 0, c.cc, 16)
           tested == IF x.abort = None THEN PWrite(z, d, x.last_pa, 16) ELSE x
           locked == StoreNew(SetCC(c, res), i.dst, c.r[0], 16)
<1>1. Interlocked(c, i) = CASE Direct(i.dst) -> SetTrap(c, "ILL")
                            [] i.op = "TSTSET" -> tested
                            [] OTHER -> locked
    BY DEF Interlocked, Then
<1>2. Fit(x)
    BY OperandFit
<1> HIDE DEF x, cc, d, res
<1>3. Fit(y)
    BY <1>2, RegistersFit
<1> HIDE DEF y
<1>4. Fit(tested)
    BY <1>2, <1>3, SetRFit, PWriteFit
<1>5. Fit(locked)
    BY SetCCFit, StoreNewFit
<1> HIDE DEF tested, locked
<1> QED BY <1>1, <1>4, <1>5, SetTrapFit

LEMMA StatusFit ==
    ASSUME NEW c, Fit(c), NEW i
    PROVE  Fit(Status(c, i))
<1> DEFINE x == Operand(c, i.dst, 8, FALSE)
           ipl == IF x.cm = KER THEN Field(x.val, 5, 3) ELSE x.ipl
           cc == CodesOf(x.val)
           d == get_PSW(c) % 256
           res == Double("MOV", d, 0, c.cc, 8)
           c1 == SetCC(c, res)
           wide == IF Sign(d, 8) THEN d + 65280 ELSE d
<1>1. Status(c, i) =
          IF i.op = "MTPS" THEN IF x.abort = None THEN [x EXCEPT !.ipl = ipl, !.cc = cc] ELSE x
          ELSE IF Direct(i.dst) THEN SetR(c1, i.dst, wide)
          ELSE StoreNew(c1, i.dst, d, 8)
    BY DEF Status, Then
<1>2. Fit(x)
    BY OperandFit
<1> HIDE DEF x, ipl, cc, d, res, wide
<1>3. Fit([x EXCEPT !.ipl = ipl, !.cc = cc])
    BY <1>2 DEF Fit, Shaped, Shape, calc_is, calc_ds
<1>4. Fit(c1)
    BY SetCCFit
<1> HIDE DEF c1
<1> QED BY <1>1, <1>2, <1>3, <1>4, SetRFit, StoreNewFit

LEMMA CodeOpFit ==
    ASSUME NEW c, Fit(c), NEW i
    PROVE  Fit(CodeOp(c, i))
<1> DEFINE set(b, old) == IF b \in i.bits THEN i.op = "SEC" ELSE old
           cc == Codes(set("n", c.cc.n), set("z", c.cc.z), set("v", c.cc.v), set("c", c.cc.c))
<1>1. CodeOp(c, i) = [c EXCEPT !.cc = cc]
    BY DEF CodeOp
<1> HIDE DEF cc
<1>2. Fit([c EXCEPT !.cc = cc])
    BY RegistersFit
<1> QED BY <1>1, <1>2

LEMMA SobFit ==
    ASSUME NEW c, Fit(c), NEW i
    PROVE  Fit(Sob(c, i))
<1> DEFINE regs == [c.r EXCEPT ![i.src] = (@ - 1) % 65536]
           c1 == [c EXCEPT !.r = regs]
           a == (c1.r[PC] - 2 * i.dst) % 65536
<1>1. Sob(c, i) = IF c1.r[i.src] = 0 THEN c1 ELSE Jump(c1, a)
    BY DEF Sob
<1> HIDE DEF regs
<1>2. Fit(c1)
    BY RegistersFit
<1> HIDE DEF c1, a
<1> QED BY <1>1, <1>2, JumpFit

LEMMA ControlFit ==
    ASSUME NEW c, Fit(c), NEW i
    PROVE  Fit(Control(c, i))
<1> DEFINE user == SetTrap([c EXCEPT !.cpuerr = @ \cup {"HALT"}], "PRV")
           waits == [c EXCEPT !.wait = TRUE]
           c1 == [c EXCEPT !.mme = FALSE, !.err = {}, !.page = <<KER, FALSE, 0>>,
                           !.dspace = {}, !.csm = FALSE, !.m22 = FALSE]
           reset == [c1 EXCEPT !.dsenable = calc_ds(c1, c1.cm)]
           spl == [c EXCEPT !.ipl = i.dst]
<1>1. Control(c, i) =
          CASE i.op = "HALT" -> IF c.cm = KER THEN c ELSE user
            [] i.op = "WAIT" -> waits
            [] i.op \in {"BPT", "IOT", "EMT", "TRAP"} -> SetTrap(c, i.op)
            [] i.op = "RESET" -> IF c.cm # KER THEN c ELSE reset
            [] i.op = "SPL" -> IF c.cm = KER THEN spl ELSE c
            [] i.op = "MFPT" -> SetR(c, 0, 5)
            [] OTHER -> SetTrap(c, "ILL")
    BY DEF Control
<1>2. Fit(user)
    BY DEF Fit, Shaped, Shape, SetTrap, calc_is, calc_ds
<1>3. Fit(waits)
    BY DEF Fit, Shaped, Shape, calc_is, calc_ds
<1>4. Shaped(c1) /\ c1.cm = c.cm /\ c1.isenable = c.isenable
    BY DEF Fit, Shaped, Shape
<1>5. Fit(reset)
    <2>1. c1.isenable = calc_is(c1.cm)
        BY <1>4 DEF Fit
    <2> HIDE DEF c1
    <2> QED BY <1>4, <2>1 DEF Fit, Shaped, Shape, calc_is, calc_ds
<1>6. Fit(spl)
    BY RegistersFit
<1>7. Fit(SetTrap(c, i.op)) /\ Fit(SetTrap(c, "ILL")) /\ Fit(SetR(c, 0, 5))
    BY SetTrapFit, SetRFit
<1> HIDE DEF user, waits, reset, spl
<1> QED BY <1>1, <1>2, <1>3, <1>5, <1>6, <1>7

-----------------------------------------------------------------------------
(* Floating point                                                          *)

LEMMA NoTrapFit ==
    ASSUME NEW c, Fit(c), NEW code
    PROVE  Fit(fpnotrap(c, code))
<1> DEFINE fps == c.fps \cup {FER}
           fea == (c.backup - 2) % 65536
           c1 == [c EXCEPT !.fps = fps, !.fec = code, !.fea = fea]
<1>1. fpnotrap(c, code) = IF code = Undefined /\ FIUV \notin c.fps THEN c
                          ELSE IF FID \in c.fps THEN c1 ELSE SetTrap(c1, "FPE")
    BY DEF fpnotrap
<1> HIDE DEF fps, fea
<1>2. Fit(c1)
    BY DEF Fit, Shaped, Shape, calc_is, calc_ds
<1> HIDE DEF c1
<1> QED BY <1>1, <1>2, SetTrapFit

LEMMA ChangedLaterFit ==
    ASSUME NEW c, Fit(c), NEW reg, NEW delta
    PROVE  Fit(FPCHG(c, reg, delta))
<1> DEFINE regs == [c.r EXCEPT ![PC] = (@ + IF delta > 0 THEN 2 ELSE delta) % 65536]
           later == [reg |-> reg, delta |-> delta]
<1>1. FPCHG(c, reg, delta) = IF reg = PC THEN [c EXCEPT !.r = regs]
                             ELSE [c EXCEPT !.change = later]
    BY DEF FPCHG
<1> HIDE DEF regs, later
<1>2. Fit([c EXCEPT !.r = regs]) /\ Fit([c EXCEPT !.change = later])
    BY RegistersFit
<1> QED BY <1>1, <1>2

LEMMA CommitFit ==
    ASSUME NEW c, Fit(c)
    PROVE  Fit(Commit(c))
<1> DEFINE ch == c.change
           regs == [c.r EXCEPT ![ch.reg] = (@ + ch.delta) % 65536]
<1>1. Commit(c) = IF ch.delta = 0 THEN c ELSE [c EXCEPT !.r = regs]
    BY DEF Commit
<1> HIDE DEF ch, regs
<1>2. Fit([c EXCEPT !.r = regs])
    BY RegistersFit
<1> QED BY <1>1, <1>2

LEMMA GeteaFFit ==
    ASSUME NEW c, Fit(c), NEW spec, NEW len, NEW below
    PROVE  Fit(GeteaF(c, spec, len, below))
<1> DEFINE mode  == spec \div 8
           reg   == spec % 8
           delta == IF mode \in {3, 5} THEN 2 ELSE len
           adr   == (c.r[reg] - delta) % 65536
           moved == FPCHG(c, reg, -delta)
           down  == IF reg # SP THEN moved
                    ELSE CheckStack(moved, adr - IF mode = 5 THEN below ELSE 0)
           up    == FPCHG(c, reg, delta)
           At(x, a) == [x EXCEPT !.ea = Va(a, DataSpace(c, reg))]
           x1 == CASE mode = 1 -> At(c, c.r[reg])
                   [] mode \in {2, 3} -> At(up, c.r[reg])
                   [] mode \in {4, 5} -> At(down, adr)
                   [] OTHER -> Indexed(c, reg)
<1>1. GeteaF(c, spec, len, below) = IF x1.abort = None THEN Deferred(x1, mode) ELSE x1
    BY DEF GeteaF, Then
<1>2. Fit(up) /\ Fit(moved)
    BY ChangedLaterFit
<1> HIDE DEF moved
<1>3. Fit(down)
    BY <1>2, CheckStackFit
<1> HIDE DEF up, down, mode, reg, delta, adr
<1>4. Fit(At(c, c.r[reg])) /\ Fit(At(up, c.r[reg])) /\ Fit(At(down, adr))
    BY <1>2, <1>3, AddressFit
<1>5. Fit(Indexed(c, reg))
    BY IndexedFit
<1> HIDE DEF At
<1>6. Fit(x1)
    BY <1>4, <1>5
<1> HIDE DEF x1
<1> QED BY <1>1, <1>6, DeferredFit

LEMMA GeteaFPFit ==
    ASSUME NEW c, Fit(c), NEW spec, NEW len
    PROVE  Fit(GeteaFP(c, spec, len))
BY GeteaFFit, NoTrapFit, AbortFit DEF GeteaFP

LEMMA NextReadFit ==
    ASSUME NEW c, Fit(c), NEW k
    PROVE  Fit(NextRead(c, k))
<1> DEFINE x == Read(c, WordAt(c, k), 16)
           words == Append(x.words, x.val)
<1>1. NextRead(c, k) = IF c.abort = None
                       THEN IF x.abort = None THEN [x EXCEPT !.words = words] ELSE x
                       ELSE c
    BY DEF NextRead, Then
<1>2. Fit(x)
    BY ReadFit
<1> HIDE DEF x, words
<1>3. Fit([x EXCEPT !.words = words])
    BY <1>2, ResultFit
<1> QED BY <1>1, <1>2, <1>3

LEMMA ReadWordsFit ==
    ASSUME NEW c, Fit(c), NEW n
    PROVE  Fit(ReadWords(c, n))
<1> DEFINE c1 == [c EXCEPT !.words = <<>>]
           one == NextRead(c1, 0)
           two == IF n > 1 THEN NextRead(one, 1) ELSE one
<1>1. ReadWords(c, n) = IF n > 2 THEN NextRead(NextRead(two, 2), 3) ELSE two
    BY DEF ReadWords
<1>2. Fit(c1)
    BY ResultFit
<1> HIDE DEF c1
<1>3. Fit(one)
    BY <1>2, NextReadFit
<1> HIDE DEF one
<1>4. Fit(two)
    BY <1>3, NextReadFit
<1> HIDE DEF two
<1>5. Fit(NextRead(NextRead(two, 2), 3))
    BY <1>4, NextReadFit
<1> QED BY <1>1, <1>4, <1>5

LEMMA NextPlaceFit ==
    ASSUME NEW c, Fit(c), NEW k
    PROVE  Fit(NextPlace(c, k))
<1> DEFINE x == relocW(c, WordAt(c, k))
           words == Append(x.words, x.pa)
<1>1. NextPlace(c, k) = IF c.abort = None
                        THEN IF x.abort = None THEN [x EXCEPT !.words = words] ELSE x
                        ELSE c
    BY DEF NextPlace, Then
<1>2. Fit(x)
    BY RelocWFit
<1> HIDE DEF x, words
<1>3. Fit([x EXCEPT !.words = words])
    BY <1>2, ResultFit
<1> QED BY <1>1, <1>2, <1>3

LEMMA PutWordFit ==
    ASSUME NEW c, Fit(c), NEW data, NEW k
    PROVE  Fit(PutWord(c, data, k))
<1>1. PutWord(c, data, k) = IF c.abort = None THEN PWrite(c, data[k], c.words[k], 16) ELSE c
    BY DEF PutWord, Then
<1> QED BY <1>1, PWriteFit

LEMMA WriteWordsFit ==
    ASSUME NEW c, Fit(c), NEW data
    PROVE  Fit(WriteWords(c, data))
<1> DEFINE four == Len(data) > 2
           c1 == [c EXCEPT !.words = <<>>]
           half == NextPlace(NextPlace(c1, 0), 1)
           placed == IF four THEN NextPlace(NextPlace(half, 2), 3) ELSE half
           put == PutWord(PutWord(placed, data, 1), data, 2)
<1>1. WriteWords(c, data) = IF c.ea.a % 2 = 1 THEN Odd(c)
                            ELSE IF four THEN PutWord(PutWord(put, data, 3), data, 4) ELSE put
    BY DEF WriteWords
<1> HIDE DEF four
<1>2. Fit(c1)
    BY ResultFit
<1> HIDE DEF c1
<1>3. Fit(half)
    BY <1>2, NextPlaceFit
<1> HIDE DEF half
<1>4. Fit(placed)
    BY <1>3, NextPlaceFit
<1> HIDE DEF placed
<1>5. Fit(put)
    BY <1>4, PutWordFit
<1> HIDE DEF put
<1>6. Fit(PutWord(PutWord(put, data, 3), data, 4))
    BY <1>5, PutWordFit
<1> QED BY <1>1, <1>5, <1>6, OddFit

LEMMA ReadFPFit ==
    ASSUME NEW c, Fit(c), NEW spec, NEW len
    PROVE  Fit(ReadFP(c, spec, len))
<1> DEFINE acc == Filled(SubSeq(c.fr[spec], 1, len \div 2))
           reg == [c EXCEPT !.words = acc, !.val = 0]
           x == ReadWords(c, OperandWords(spec, len))
           words == Filled(x.words)
           y == [x EXCEPT !.words = words]
           u == fpnotrap(y, Undefined)
           minus == [u EXCEPT !.val = 1]
           plus == [y EXCEPT !.val = 0]
<1>1. ReadFP(c, spec, len) =
          IF Direct(spec) THEN reg
          ELSE IF x.abort = None
               THEN IF IsMinusZero(y.words) /\ FIUV \in y.fps THEN minus ELSE plus
               ELSE x
    BY DEF ReadFP, Then
<1> HIDE DEF acc
<1>2. Fit(reg)
    BY DEF Fit, Shaped, Shape, calc_is, calc_ds
<1>3. Fit(x)
    BY ReadWordsFit
<1> HIDE DEF x, words
<1>4. Fit(y)
    BY <1>3, ResultFit
<1> HIDE DEF y
<1>5. Fit(u)
    BY <1>4, NoTrapFit
<1> HIDE DEF u
<1>6. Fit(minus) /\ Fit(plus)
    BY <1>4, <1>5, ResultFit
<1> HIDE DEF reg, minus, plus
<1> QED BY <1>1, <1>2, <1>3, <1>6

LEMMA WriteFPFit ==
    ASSUME NEW c, Fit(c), NEW words, NEW spec, NEW len
    PROVE  Fit(WriteFP(c, words, spec, len))
<1> DEFINE acc == [c.fr EXCEPT ![spec] = SubSeq(words, 1, len \div 2) \o SubSeq(@, len \div 2 + 1, 4)]
           data == SubSeq(words, 1, len \div 2)
           reg == [c EXCEPT !.fr = acc]
<1>1. WriteFP(c, words, spec, len) =
          CASE Direct(spec) -> reg
            [] spec = \o27 -> Write(c, words[1], c.ea, 16)
            [] OTHER -> WriteWords(c, data)
    BY DEF WriteFP
<1> HIDE DEF acc, data
<1>2. Fit(reg)
    BY RegistersFit
<1> HIDE DEF reg
<1>3. Fit(Write(c, words[1], c.ea, 16)) /\ Fit(WriteWords(c, data))
    BY WriteFit, WriteWordsFit
<1> QED BY <1>1, <1>2, <1>3

LEMMA SetFccFit ==
    ASSUME NEW c, Fit(c), NEW words
    PROVE  Fit(setfcc(c, words))
<1> DEFINE fps == (c.fps \ FpsCC) \cup (IF words[1] >= 32768 THEN {3} ELSE {})
                      \cup (IF (words[1] \div 128) % 256 = 0 THEN {2} ELSE {})
<1>1. setfcc(c, words) = [c EXCEPT !.fps = fps]
    BY DEF setfcc
<1> HIDE DEF fps
<1>2. Fit([c EXCEPT !.fps = fps])
    BY RegistersFit
<1> QED BY <1>1, <1>2

LEMMA StoreFWFit ==
    ASSUME NEW c, Fit(c), NEW spec, NEW d
    PROVE  Fit(StoreFW(c, spec, d))
<1> DEFINE x == GeteaFW(c, spec)
<1>1. StoreFW(c, spec, d) = IF Direct(spec) THEN SetR(c, spec, d)
                            ELSE IF x.abort = None THEN Write(x, d, x.ea, 16) ELSE x
    BY DEF StoreFW, Then
<1>2. Fit(x)
    BY GeteaFFit DEF GeteaFW
<1> HIDE DEF x
<1> QED BY <1>1, <1>2, SetRFit, WriteFit

LEMMA StoreExponentFit ==
    ASSUME NEW c, Fit(c), NEW spec, NEW n
    PROVE  Fit(StoreExponent(c, spec, n))
<1> DEFINE fps == (c.fps \ FpsCC) \cup (IF n >= 32768 THEN {3} ELSE {})
                      \cup (IF n = 0 THEN {2} ELSE {})
           c1 == [c EXCEPT !.fps = fps]
<1>1. StoreExponent(c, spec, n) = StoreFW(c1, spec, n)
    BY DEF StoreExponent
<1> HIDE DEF fps
<1>2. Fit(c1)
    BY RegistersFit
<1> HIDE DEF c1
<1> QED BY <1>1, <1>2, StoreFWFit

LEMMA FpStatusFit ==
    ASSUME NEW c, Fit(c), NEW i, i.op \in FpStatusOps
    PROVE  Fit(FpStatus(c, i))
<1> DEFINE cc == CodesOf(Number(c.fps \cap FpsCC))
           setf == c.fps \ {FD}
           setd == c.fps \cup {FD}
           seti == c.fps \ {FL}
           setl == c.fps \cup {FL}
           d == c.r[i.dst]
           t == GeteaFW(c, i.dst)
           x == IF Direct(i.dst) THEN [c EXCEPT !.val = d]
                ELSE IF t.abort = None THEN Read(t, t.ea, 16) ELSE t
           bits == Bits(x.val) \cap FpsRW
           loaded == IF x.abort = None THEN [x EXCEPT !.fps = bits] ELSE x
           e == (((c.fr[i.src][1] \div 128) % 256) - 128) % 65536
           u == GeteaFP(c, i.dst, 4)
           stst == IF Direct(i.dst) THEN SetR(c, i.dst, c.fec)
                   ELSE IF u.abort = None THEN WriteFP(u, <<u.fec, u.fea>>, i.dst, 4) ELSE u
<1>1. /\ i.op = "CFCC" => FpStatus(c, i) = [c EXCEPT !.cc = cc]
      /\ i.op = "SETF" => FpStatus(c, i) = [c EXCEPT !.fps = setf]
      /\ i.op = "SETD" => FpStatus(c, i) = [c EXCEPT !.fps = setd]
      /\ i.op = "SETI" => FpStatus(c, i) = [c EXCEPT !.fps = seti]
      /\ i.op = "SETL" => FpStatus(c, i) = [c EXCEPT !.fps = setl]
      /\ i.op = "LDFPS" => FpStatus(c, i) = loaded
      /\ i.op = "STFPS" => FpStatus(c, i) = StoreFW(c, i.dst, Number(c.fps))
      /\ i.op = "STEXP" => FpStatus(c, i) = StoreExponent(c, i.dst, e)
      /\ i.op = "STST" => FpStatus(c, i) = stst
      /\ i.op = "FILL" => FpStatus(c, i) = fpnotrap(c, OpCode)
    BY DEF FpStatus, Then
<1>2. Fit(t) /\ Fit(u)
    BY GeteaFFit, GeteaFPFit DEF GeteaFW
<1> HIDE DEF cc, setf, setd, seti, setl, d, t, bits, e, u
<1>3. /\ Fit([c EXCEPT !.cc = cc]) /\ Fit([c EXCEPT !.fps = setf]) /\ Fit([c EXCEPT !.fps = setd])
      /\ Fit([c EXCEPT !.fps = seti]) /\ Fit([c EXCEPT !.fps = setl]) /\ Fit([c EXCEPT !.val = d])
    BY RegistersFit, ResultFit
<1>4. Fit(x)
    BY <1>2, <1>3, ReadFit
<1> HIDE DEF x
<1>5. Fit([x EXCEPT !.fps = bits])
    BY <1>4, RegistersFit
<1>6. Fit(loaded)
    BY <1>4, <1>5
<1>7. Fit(stst)
    <2> DEFINE status == <<u.fec, u.fea>>
    <2>1. stst = IF Direct(i.dst) THEN SetR(c, i.dst, c.fec)
                 ELSE IF u.abort = None THEN WriteFP(u, status, i.dst, 4) ELSE u
        OBVIOUS
    <2> HIDE DEF status, stst
    <2> QED BY <1>2, <2>1, SetRFit, WriteFPFit
<1>8. /\ Fit(StoreFW(c, i.dst, Number(c.fps))) /\ Fit(StoreExponent(c, i.dst, e))
      /\ Fit(fpnotrap(c, OpCode))
    BY StoreFWFit, StoreExponentFit, NoTrapFit
<1> HIDE DEF loaded, stst
<1> QED BY <1>1, <1>3, <1>6, <1>7, <1>8 DEF FpStatusOps

LEMMA UseFit ==
    ASSUME NEW c, Fit(c), NEW i, NEW len, i.op \in {"TSTf", "LDf", "ABSf", "NEGf"}
    PROVE  Fit(Use(c, i, len))
<1> DEFINE x == WriteFP(c, Resigned(i.op, c.words), i.dst, len)
           y == WriteFP(c, c.words, i.src, len)
           signed == IF x.abort = None THEN setfcc(x, Resigned(i.op, c.words)) ELSE x
<1>1. /\ i.op = "TSTf" => Use(c, i, len) = setfcc(c, c.words)
      /\ i.op = "LDf" => Use(c, i, len) = setfcc(y, c.words)
      /\ i.op \in {"ABSf", "NEGf"} => Use(c, i, len) = signed
    BY DEF Use, Then
<1>2. Fit(x) /\ Fit(y)
    BY WriteFPFit
<1> HIDE DEF x, y
<1>3. Fit(setfcc(c, c.words)) /\ Fit(setfcc(y, c.words)) /\ Fit(signed)
    BY <1>2, SetFccFit
<1> HIDE DEF signed
<1> QED BY <1>1, <1>3

LEMMA ReadAndUseFit ==
    ASSUME NEW c, Fit(c), NEW i, NEW len, i.op \in {"TSTf", "LDf", "ABSf", "NEGf"}
    PROVE  Fit(ReadAndUse(c, i, len))
<1> DEFINE x == ReadFP(c, i.dst, len)
<1>1. ReadAndUse(c, i, len) = IF x.abort = None THEN IF x.val = 1 THEN x ELSE Use(x, i, len)
                              ELSE x
    BY DEF ReadAndUse, Then
<1>2. Fit(x)
    BY ReadFPFit
<1> HIDE DEF x
<1>3. Fit(Use(x, i, len))
    BY <1>2, UseFit
<1> QED BY <1>1, <1>2, <1>3

LEMMA FpOperandFit ==
    ASSUME NEW c, Fit(c), NEW i, NEW len, i.op \in FpOperandOps
    PROVE  Fit(FpOperand(c, i, len))
<1> DEFINE x == GeteaFP(c, i.dst, len)
           zero == <<0, 0, 0, 0>>
           y == WriteFP(x, zero, i.dst, len)
           fps == (y.fps \ FpsCC) \cup {2}
           cleared == IF y.abort = None THEN [y EXCEPT !.fps = fps] ELSE y
           words == Filled(SubSeq(x.fr[i.src], 1, len \div 2))
           stored == WriteFP(x, words, i.dst, len)
<1>1. FpOperand(c, i, len) =
          IF x.abort = None
          THEN CASE i.op = "CLRf" -> cleared
                 [] i.op = "STf" -> stored
                 [] OTHER -> ReadAndUse(x, i, len)
          ELSE x
    BY DEF FpOperand, Then
<1>2. Fit(x)
    BY GeteaFPFit
<1> HIDE DEF x, zero, words
<1>3. Fit(y) /\ Fit(stored)
    BY <1>2, WriteFPFit
<1> HIDE DEF y, fps
<1>4. Fit([y EXCEPT !.fps = fps])
    BY <1>3, RegistersFit
<1>5. Fit(cleared)
    BY <1>3, <1>4
<1>6. i.op \notin {"CLRf", "STf"} => Fit(ReadAndUse(x, i, len))
    BY <1>2, ReadAndUseFit DEF FpOperandOps
<1> HIDE DEF cleared, stored
<1> QED BY <1>1, <1>2, <1>3, <1>5, <1>6

LEMMA FloatFit ==
    ASSUME NEW c, Fit(c), NEW i, i.op \in FpStatusOps \cup FpOperandOps
    PROVE  Fit(fp11(c, i))
<1> DEFINE none == [reg |-> 0, delta |-> 0]
           c1 == [c EXCEPT !.backup = c.r[PC], !.change = none]
           x == IF i.op \in FpStatusOps THEN FpStatus(c1, i) ELSE FpOperand(c1, i, LenF(c1))
<1>1. fp11(c, i) = IF x.abort = None THEN Commit(x) ELSE x
    BY DEF fp11, Then
<1> HIDE DEF none
<1>2. Fit(c1)
    BY DEF Fit, Shaped, Shape, calc_is, calc_ds
<1> HIDE DEF c1
<1>3. Fit(x)
    BY <1>2, FpStatusFit, FpOperandFit
<1> HIDE DEF x
<1> QED BY <1>1, <1>3, CommitFit

-----------------------------------------------------------------------------
(* The instruction, the trap and the interrupt                             *)

LEMMA DecodeFit ==
    ASSUME NEW c, Fit(c), NEW i
    PROVE  Fit(Decode(c, i))
<1>1. \A taken : Fit(Branch(c, i, taken))
    BY JumpFit DEF Branch
<1>2. Fit(SingleOp(c, i)) /\ Fit(Move(c, i)) /\ Fit(DoubleOp(c, i)) /\ Fit(ExtendedOp(c, i))
    BY SingleOpFit, MoveFit, DoubleOpFit, ExtendedOpFit
<1>3. Fit(Jmp(c, i)) /\ Fit(Jsr(c, i)) /\ Fit(Rts(c, i)) /\ Fit(Mark(c, i)) /\ Fit(Return(c, i))
    BY JmpFit, JsrFit, RtsFit, MarkFit, ReturnFit
<1>4. Fit(MoveFrom(c, i)) /\ Fit(MoveTo(c, i)) /\ Fit(Csm(c, i)) /\ Fit(Interlocked(c, i))
    BY MoveFromFit, MoveToFit, CsmFit, InterlockedFit
<1>5. Fit(Status(c, i)) /\ Fit(CodeOp(c, i)) /\ Fit(Sob(c, i)) /\ Fit(Control(c, i))
    BY StatusFit, CodeOpFit, SobFit, ControlFit
<1>6. i.op \in FpStatusOps \cup FpOperandOps => Fit(fp11(c, i))
    BY FloatFit
<1>7. Fit(Branch(c, i, TakenLow(i.op, c.cc))) /\ Fit(Branch(c, i, TakenHigh(i.op, c.cc)))
    BY <1>1
<1> QED BY <1>2, <1>3, <1>4, <1>5, <1>6, <1>7 DEF Decode

LEMMA LandFit ==
    ASSUME NEW c, Fit(c)
    PROVE  Fit(Land(c))
<1> DEFINE traps == IF c.abort \in {None, "INT"} THEN c.trap ELSE c.trap \cup {c.abort}
           none == [reg |-> 0, delta |-> 0]
           ea == Va(0, c.isenable)
<1>1. Land(c) = [c EXCEPT !.trap = traps, !.abort = None, !.words = <<>>, !.backup = 0,
                          !.change = none, !.val = 0, !.src = 0, !.pa = 0, !.last_pa = 0,
                          !.ea = ea]
    BY DEF Land
<1> HIDE DEF traps, none, ea
<1> QED BY <1>1 DEF Fit, Shaped, Shape, calc_is, calc_ds

LEMMA ExecutedFit ==
    ASSUME NEW c, Fit(c)
    PROVE  Fit(Executed(c))
<1> DEFINE traps == IF c.t THEN c.trap \cup {"TRC"} ELSE c.trap
           m == IF update_MM(c) THEN <<>> ELSE c.mmr1
           n == IF update_MM(c) THEN c.r[PC] ELSE c.mmr2
           c1 == Begin(c)
           x == ReadE(c1, Va(c1.r[PC], c1.isenable))
           regs == [x.r EXCEPT ![PC] = (@ + 2) % 65536]
           y == [x EXCEPT !.r = regs]
           z == IF x.abort = None THEN Decode(y, x.val) ELSE x
<1>1. Executed(c) = Land(z)
    BY DEF Executed, Then
<1>2. c1 = [c EXCEPT !.trap = traps, !.mods = <<>>, !.mmr1 = m, !.mmr2 = n]
    BY DEF Begin
<1> HIDE DEF traps, m, n
<1>3. Fit(c1)
    BY <1>2 DEF Fit, Shaped, Shape, calc_is, calc_ds
<1> HIDE DEF c1
<1>4. Fit(x)
    BY <1>3, ReadEFit
<1> HIDE DEF x, regs
<1>5. Fit(y)
    BY <1>4, RegistersFit
<1> HIDE DEF y
<1>6. Fit(z)
    BY <1>4, <1>5, DecodeFit
<1> HIDE DEF z
<1> QED BY <1>1, <1>6, LandFit

LEMMA PushAbortedFit ==
    ASSUME NEW c, Fit(c), NEW md
    PROVE  Fit(PushAborted(c, md))
<1> DEFINE traps == c.trap \cup {"RED"}
           errs == c.cpuerr \cup {"RED"}
           stacks == [c.stack EXCEPT ![KER] = 4]
           c1 == [c EXCEPT !.trap = traps, !.cpuerr = errs, !.stack = stacks]
<1>1. PushAborted(c, md) = IF c.abort = None \/ md # KER THEN c
                           ELSE IF c.cm = KER THEN SetR(c1, SP, 4) ELSE c1
    BY DEF PushAborted
<1> HIDE DEF traps, errs, stacks
<1>2. Fit(c1)
    BY DEF Fit, Shaped, Shape, calc_is, calc_ds
<1> HIDE DEF c1
<1> QED BY <1>1, <1>2, SetRFit

LEMMA EnterFit ==
    ASSUME NEW c, NEW y, Fit(y), NEW pc, NEW psw, NEW t
    PROVE  Fit(Enter(c, y, pc, psw, t))
<1> DEFINE md == Field(psw, 14, 2)
           on(n) == Va(y.stack[md] - n, calc_ds(y, md))
           p == Write(y, get_PSW(c), on(2), 16)
           o == IF p.abort = None THEN Write(p, c.r[PC], on(4), 16) ELSE p
           z == PushAborted(o, md)
           new == psw - 4096 * Field(psw, 12, 2) + 4096 * c.cm
           q == Change(z, new, FALSE)
           lower == SetR(q, SP, (q.stack[md] - 4) % 65536)
           s == Jump(lower, pc)
<1>1. Enter(c, y, pc, psw, t) =
          IF z.abort = None
          THEN IF t \in {"RED", "YEL"} THEN s ELSE CheckStack(s, s.r[SP])
          ELSE z
    BY DEF Enter, Then
<1> HIDE DEF md, on
<1>2. Fit(p)
    BY WriteFit
<1> HIDE DEF p
<1>3. Fit(o)
    BY <1>2, WriteFit
<1> HIDE DEF o
<1>4. Fit(z)
    BY <1>3, PushAbortedFit
<1> HIDE DEF z, new
<1>5. Fit(q)
    BY <1>4, ChangeFit DEF Fit
<1> HIDE DEF q
<1>6. Fit(lower)
    BY <1>5, SetRFit
<1> HIDE DEF lower
<1>7. Fit(s)
    BY <1>6, JumpFit
<1> HIDE DEF s
<1> QED BY <1>1, <1>4, <1>7, CheckStackFit

LEMMA SequenceFit ==
    ASSUME NEW c, Fit(c), NEW vec, NEW t
    PROVE  Fit(Sequence(c, vec, t))
<1> DEFINE stacks == [c.stack EXCEPT ![c.cm] = c.r[SP]]
           c0 == [c EXCEPT !.wait = FALSE, !.stack = stacks]
           at(a) == Va(a, calc_ds(c, KER))
           x == Read(c0, at(vec), 16)
           y == Read(x, at(vec + 2), 16)
           z == IF x.abort = None
                THEN IF y.abort = None THEN Enter(c, y, x.val, y.val, t) ELSE y
                ELSE x
<1>1. Sequence(c, vec, t) = Land(z)
    BY DEF Sequence, Then
<1> HIDE DEF stacks, at
<1>2. Fit(c0)
    BY DEF Fit, Shaped, Shape, calc_is, calc_ds
<1> HIDE DEF c0
<1>3. Fit(x)
    BY <1>2, ReadFit
<1> HIDE DEF x
<1>4. Fit(y)
    BY <1>3, ReadFit
<1> HIDE DEF y
<1>5. Fit(z)
    BY <1>3, <1>4, EnterFit
<1> HIDE DEF z
<1> QED BY <1>1, <1>5, LandFit

LEMMA TakeTrapFit ==
    ASSUME NEW c, Fit(c)
    PROVE  Fit(TakeTrap(c))
<1> DEFINE t == CHOOSE t \in c.trap : \A s \in c.trap : Rank(t) <= Rank(s)
           traps == c.trap \ trap_clear(t)
           c1 == [c EXCEPT !.trap = traps]
<1>1. TakeTrap(c) = Sequence(c1, trap_vec(t), t)
    BY DEF TakeTrap
<1> HIDE DEF t, traps
<1>2. Fit(c1)
    BY DEF Fit, Shaped, Shape, calc_is, calc_ds
<1> HIDE DEF c1
<1> QED BY <1>1, <1>2, SequenceFit

-----------------------------------------------------------------------------
(* The machine                                                             *)

LEMMA MachineFit ==
    ASSUME NEW p, NEW k, NEW ksp, NEW old, NEW bad
    PROVE  Fit(Machine(p, k, ksp, old, bad))
<1> DEFINE c == Machine(p, k, ksp, old, bad)
<1>1. Shape \subseteq DOMAIN c
    BY DEF Machine, Shape
<1>2. c.cm = k[1] /\ c.dspace = k[4]
    BY DEF Machine
<1>3. c.isenable = calc_is(k[1]) /\ c.dsenable = <<k[1], k[1] \in k[4]>>
    BY DEF Machine
<1> HIDE DEF c
<1>4. Fit(c)
    BY <1>1, <1>2, <1>3 DEF Fit, Shaped, calc_ds
<1> QED BY <1>4 DEF c

(* The relation holds of the machine.                                      *)
CpuFit == Fit(cpu)

LEMMA InitFit == Init => CpuFit
BY MachineFit DEF Init, CpuFit

LEMMA NextFit == CpuFit /\ [Next]_vars => CpuFit'
<1> SUFFICES ASSUME Fit(cpu), [Next]_vars PROVE Fit(cpu')
    BY DEF CpuFit
<1>1. CASE Repair
    BY <1>1 DEF Repair, Fit, Shaped, Shape, calc_is, calc_ds
<1>2. CASE Run
    BY <1>2, ExecutedFit DEF Run, Instruction
<1>3. CASE Trapped
    BY <1>3, TakeTrapFit DEF Trapped, Trap
<1>4. CASE Interrupted
    BY <1>4, SequenceFit DEF Interrupted, Interrupt
<1>5. CASE UNCHANGED vars
    BY <1>5 DEF vars
<1> QED BY <1>1, <1>2, <1>3, <1>4, <1>5 DEF Next

(* calc_is, calc_ds, put_PSW, MMR3_wr, trap: whatever an instruction does, *)
(* and wherever it aborts, the spaces through which the processor refers   *)
(* to instructions and data are those of the mode and of MMR3 that hold    *)
(* now.                                                                    *)
THEOREM SpacesKept == Spec => []SpacesFresh
<1>1. CpuFit => SpacesFresh
    BY DEF CpuFit, Fit, SpacesFresh
<1> QED BY <1>1, InitFit, NextFit, PTL DEF Spec
=============================================================================
