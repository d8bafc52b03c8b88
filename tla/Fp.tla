--------------------------------- MODULE Fp ---------------------------------
(***************************************************************************)
(* The floating point processor of pdp11_fp.c: its accumulators, its       *)
(* status FPS and what its instructions compute.  A number is sign,        *)
(* exponent and fraction; the fraction has DBits bits with the leading one *)
(* that is not stored, of which single precision uses the first FBits.     *)
(* The code has 56 and 24, and integers of 32 and 16 bits.                 *)
(*                                                                         *)
(* u is the processor: ac and mem are the accumulators and the operand in  *)
(* memory, int the integer operand, fps the bits of FPS that are set, fec  *)
(* the exception code, trap the request for an interrupt.  An operand o is *)
(* the number of an accumulator or "mem".                                  *)
(***************************************************************************)
EXTENDS Integers, Sequences, SequencesExt, TLC

CONSTANTS FBits, DBits, WordBits, LongBits

ASSUME FpAssumption ==
    /\ {FBits, DBits, WordBits, LongBits} \subseteq Nat
    /\ 1 < WordBits /\ WordBits < FBits /\ FBits < LongBits /\ LongBits < DBits

Bias == 128
Guard == 3
LowBits == DBits - FBits            \* the second longword of a number

OpCode == 2
DivZero == 4
Conversion == 6
Overflow == 8
Underflow == 10
Undefined == 12

(* The bit of FPS that lets an exception through; the others always pass.  *)
Enable == Conversion :> "IC" @@ Overflow :> "IV" @@ Underflow :> "IU" @@ Undefined :> "IUV"

CodeBits == {"N", "Z", "V", "C"}

Zero == [s |-> 0, e |-> 0, f |-> 0]

-----------------------------------------------------------------------------
(* Exceptions and condition codes. *)

(* fpnotrap returns the opposite of this. *)
Enabled(u, code) == code \in DOMAIN Enable => Enable[code] \in u.fps

fpnotrap(u, code) ==
    IF Enabled(u, code)
      THEN [u EXCEPT !.fps = @ \cup {"ER"}, !.fec = code, !.trap = @ \/ "ID" \notin u.fps]
      ELSE u

Status(u, n, z, v, c) ==
    [u EXCEPT !.fps = (@ \ CodeBits) \cup {b \in CodeBits :
        \/ b = "N" /\ n
        \/ b = "Z" /\ z
        \/ b = "V" /\ v
        \/ b = "C" /\ c}]

setfcc(u, x, over) == Status(u, x.s = 1, x.e = 0, over, FALSE)

DoubleMode(u) == "D" \in u.fps
Truncates(u) == "T" \in u.fps

-----------------------------------------------------------------------------
(* Numbers in and out of accumulators: single precision neither reads nor  *)
(* changes the second longword.                                            *)

Low(x) == x.f % 2^LowBits

F_LOAD(q, x) == IF q THEN x ELSE [x EXCEPT !.f = @ - Low(x)]

F_STORE(q, x, old) == IF q THEN x ELSE [x EXCEPT !.f = @ - Low(x) + Low(old)]

F_GET_FRAC(x) == 2^(DBits - 1) + x.f

Mag(x) == x.e * 2^(DBits - 1) + x.f

(* Left until the leading one is in its place above the guard bits. *)
Shift(frac) == CHOOSE k \in 0 .. DBits + Guard :
    2^(DBits + Guard - 1) <= frac * 2^k /\ frac * 2^k < 2^(DBits + Guard)

(* A result [v, u, over]: the number, the processor with the exception.    *)
Done(u, x) == [v |-> x, u |-> u, over |-> FALSE]

(* Mutant: a carry out of the rounding leaves the exponent.                *)
round_and_packNoCarry(u, sign, exp, frac, r) ==
    LET half == IF DoubleMode(u) THEN 2^(Guard - 1) ELSE 2^(LowBits + Guard - 1)
        sum == IF r /\ ~Truncates(u) THEN frac + half ELSE frac
        packed == [s |-> sign, e |-> exp % 256, f |-> (sum \div 2^Guard) % 2^(DBits - 1)]
    IN  CASE exp > 255 -> [v |-> IF Enabled(u, Overflow) THEN packed ELSE Zero,
                           u |-> fpnotrap(u, Overflow), over |-> TRUE]
          [] exp <= 0  -> Done(fpnotrap(u, Underflow), IF Enabled(u, Underflow) THEN packed ELSE Zero)
          [] OTHER     -> Done(u, packed)

(* Round or cut off at the precision in force; an exponent out of range is *)
(* kept to 8 bits if its exception is enabled.                             *)
round_and_pack(u, sign, exp, frac, r) ==
    LET half == IF DoubleMode(u) THEN 2^(Guard - 1) ELSE 2^(LowBits + Guard - 1)
        sum == IF r /\ ~Truncates(u) THEN frac + half ELSE frac
        carry == IF sum >= 2^(DBits + Guard) THEN 1 ELSE 0
        e == exp + carry
        packed == [s |-> sign, e |-> e % 256, f |-> (sum \div 2^(Guard + carry)) % 2^(DBits - 1)]
    IN  CASE e > 255 -> [v |-> IF Enabled(u, Overflow) THEN packed ELSE Zero,
                         u |-> fpnotrap(u, Overflow), over |-> TRUE]
          [] e <= 0  -> Done(fpnotrap(u, Underflow), IF Enabled(u, Underflow) THEN packed ELSE Zero)
          [] OTHER   -> Done(u, packed)

(* A double in place to the nearest single; a fraction that overflows into *)
(* the exponent, and the exponent into the sign, has the sign put back.    *)
roundfp11(u, x) ==
    LET m == Mag(x) + 2^(LowBits - 1)
        y == [x EXCEPT !.e = (m \div 2^(DBits - 1)) % 256, !.f = m % 2^(DBits - 1)]
    IN  IF m < 256 * 2^(DBits - 1) THEN Done(u, y)
        ELSE [v |-> IF Enabled(u, Overflow) THEN y ELSE Zero,
              u |-> fpnotrap(u, Overflow), over |-> TRUE]

-----------------------------------------------------------------------------
(* Arithmetic: a is the accumulator, b the operand. *)

addfp11(u, a, b) ==
    LET x == IF Mag(a) < Mag(b) THEN b ELSE a
        y == IF Mag(a) < Mag(b) THEN a ELSE b
        ediff == x.e - y.e
        fx == F_GET_FRAC(x) * 2^Guard
        fy == (F_GET_FRAC(y) * 2^Guard) \div 2^ediff
        carry == IF fx + fy >= 2^(DBits + Guard) THEN 1 ELSE 0
    IN  CASE x.e = 0 -> Done(u, Zero)
          [] x.e # 0 /\ (y.e = 0 \/ ediff > DBits + Guard) -> Done(u, x)
          [] y.e # 0 /\ ediff <= DBits + Guard /\ x.s = y.s ->
                round_and_pack(u, x.s, x.e + carry, (fx + fy) \div 2^carry, TRUE)
          [] y.e # 0 /\ ediff <= DBits + Guard /\ x.s # y.s ->
                IF fx = fy THEN Done(u, Zero)
                ELSE LET k == Shift(fx - fy)
                     IN  round_and_pack(u, x.s, x.e - k, (fx - fy) * 2^k, TRUE)

(* Shift and add, from the lowest bit of f1; what is shifted out is lost.  *)
frac_mulfp11(f1, f2) ==
    LET Add(sum, k) == (sum + ((f1 \div 2^k) % 2) * f2 * 2^Guard) \div 2
    IN  FoldLeft(Add, 0, [i \in 1 .. DBits |-> i - 1])

(* The sign, exponent and normalised fraction of a product not zero.       *)
Product(a, b) ==
    LET frac == frac_mulfp11(F_GET_FRAC(a), F_GET_FRAC(b))
        k == IF frac < 2^(DBits + Guard - 1) THEN 1 ELSE 0
    IN  [s |-> (a.s + b.s) % 2, e |-> a.e + b.e - Bias - k, frac |-> frac * 2^k]

mulfp11(u, a, b) ==
    IF a.e = 0 \/ b.e = 0 THEN Done(u, Zero)
    ELSE LET p == Product(a, b) IN round_and_pack(u, p.s, p.e, p.frac, TRUE)

(* Integer and fraction of a product: [int, frac, u, over].  Only one of   *)
(* the roundings can raise an exception.                                   *)
modfp11(u, a, b) ==
    LET p == Product(a, b)
        n == p.e - Bias
        rest == p.frac % 2^(DBits + Guard - n)
        k == Shift(rest)
        part == IF rest = 0 THEN Zero ELSE round_and_pack(u, p.s, Bias - (k - n), rest * 2^k, TRUE).v
        whole == round_and_pack(u, p.s, p.e, p.frac - rest, FALSE)
        fraction == round_and_pack(u, p.s, p.e, p.frac, TRUE)
        integer == round_and_pack(u, p.s, p.e, p.frac, FALSE)
    IN  CASE a.e = 0 \/ b.e = 0 -> [int |-> Zero, frac |-> Zero, u |-> u, over |-> FALSE]
          [] a.e # 0 /\ b.e # 0 /\ n <= 0 ->
                [int |-> Zero, frac |-> fraction.v, u |-> fraction.u, over |-> fraction.over]
          [] a.e # 0 /\ b.e # 0 /\ n > (IF DoubleMode(u) THEN DBits ELSE FBits) ->
                [int |-> integer.v, frac |-> Zero, u |-> integer.u, over |-> integer.over]
          [] OTHER -> [int |-> whole.v, frac |-> part, u |-> u, over |-> FALSE]

(* Mutant: no quotient bits for the guard. *)
FracQuotientShort(u, n, d) ==
    LET bits == IF DoubleMode(u) THEN DBits ELSE FBits
        Step(st, i) == IF st.r >= d THEN [q |-> 2 * st.q + 1, r |-> 2 * (st.r - d)]
                                    ELSE [q |-> 2 * st.q, r |-> 2 * st.r]
    IN  FoldLeft(Step, [q |-> 0, r |-> n], [i \in 1 .. bits |-> i]).q * 2^(DBits + Guard - bits)

(* One bit of the quotient at a time, as many as the precision and its     *)
(* guard bits have.                                                        *)
FracQuotient(u, n, d) ==
    LET bits == (IF DoubleMode(u) THEN DBits ELSE FBits) + Guard
        Step(st, i) == IF st.r >= d THEN [q |-> 2 * st.q + 1, r |-> 2 * (st.r - d)]
                                    ELSE [q |-> 2 * st.q, r |-> 2 * st.r]
    IN  FoldLeft(Step, [q |-> 0, r |-> n], [i \in 1 .. bits |-> i]).q * 2^(DBits + Guard - bits)

divfp11(u, a, b) ==
    LET q == FracQuotient(u, F_GET_FRAC(a), F_GET_FRAC(b))
        k == IF q < 2^(DBits + Guard - 1) THEN 1 ELSE 0
    IN  IF a.e = 0 THEN Done(u, Zero)
        ELSE round_and_pack(u, (a.s + b.s) % 2, a.e - b.e + Bias + 1 - k, q * 2^k, TRUE)

-----------------------------------------------------------------------------
(* Operands. *)

Operand(u, o, q) == F_LOAD(q, IF o = "mem" THEN u.mem ELSE u.ac[o])

(* ReadFP: a minus zero in memory may end the instruction.                 *)
MinusZero(u, o, x) == o = "mem" /\ x.s = 1 /\ x.e = 0 /\ Enabled(u, Undefined)

ReadFP(u, o, q, Use(_)) ==
    LET x == Operand(u, o, q)
    IN  IF MinusZero(u, o, x) THEN fpnotrap(u, Undefined) ELSE Use(x)

WriteFP(u, o, q, x) ==
    IF o = "mem" THEN [u EXCEPT !.mem = F_LOAD(q, x)]
                 ELSE [u EXCEPT !.ac[o] = F_STORE(q, x, @)]

(* The result goes to an accumulator and to the condition codes.           *)
Into(ac, r) ==
    setfcc([r.u EXCEPT !.ac[ac] = F_STORE(DoubleMode(r.u), r.v, @)], r.v, r.over)

CleanZero(x) == IF x.e = 0 THEN Zero ELSE x
Negated(x) == [x EXCEPT !.s = 1 - @]

-----------------------------------------------------------------------------
(* Instructions. *)

SingleOp(op, u, o) ==
    LET q == DoubleMode(u)
        Use(x) == LET y == IF op = "TSTf" THEN x
                           ELSE IF x.e = 0 THEN Zero
                           ELSE IF op = "ABSf" THEN [x EXCEPT !.s = 0] ELSE Negated(x)
                  IN  setfcc(IF op = "TSTf" THEN u ELSE WriteFP(u, o, q, y), y, FALSE)
    IN  IF op = "CLRf" THEN Status(WriteFP(u, o, q, Zero), FALSE, TRUE, FALSE, FALSE)
        ELSE ReadFP(u, o, q, Use)

AccumulatorOp(op, u, ac, o) ==
    LET q == DoubleMode(u)
        a == F_LOAD(q, u.ac[ac])
        Use(b) ==
            CASE op = "LDf"  -> Into(ac, Done(u, b))
              [] op = "MULf" -> Into(ac, mulfp11(u, a, b))
              [] op = "ADDf" -> Into(ac, addfp11(u, a, b))
              [] op = "SUBf" -> Into(ac, addfp11(u, a, IF b.e # 0 THEN Negated(b) ELSE b))
              [] op = "DIVf" -> IF b.e = 0 THEN fpnotrap(u, DivZero) ELSE Into(ac, divfp11(u, a, b))
              [] op = "MODf" ->
                    LET r == modfp11(u, a, b)
                        odd == IF ac % 2 = 1 THEN ac ELSE ac + 1
                    IN  Into(ac, [v |-> r.frac, over |-> r.over,
                                  u |-> [r.u EXCEPT !.ac[odd] = F_STORE(q, r.int, @)]])
    IN  ReadFP(u, o, q, Use)

STf(u, ac, o) == WriteFP(u, o, DoubleMode(u), F_LOAD(DoubleMode(u), u.ac[ac]))

(* Mutant: two negative numbers are compared like positive ones. *)
LessUnsigned(b, a) == IF a.s = b.s THEN Mag(b) < Mag(a) ELSE b.s = 1

(* N of a comparison: the operand is below the accumulator. *)
Less(b, a) ==
    IF a.s = b.s /\ a # Zero THEN (b.s = 1) # (Mag(b) < Mag(a)) ELSE b.s = 1

CMPf(u, ac, o) ==
    LET q == DoubleMode(u)
        a == CleanZero(F_LOAD(q, u.ac[ac]))
        Use(x) ==
            LET b == CleanZero(x)
                w == IF a = b /\ b = Zero THEN [u EXCEPT !.ac[ac] = F_STORE(q, Zero, @)] ELSE u
            IN  Status(w, a # b /\ Less(b, a), a = b, FALSE, FALSE)
    IN  ReadFP(u, o, q, Use)

(* Between the precisions: LDCff' reads the one that is not in force,      *)
(* STCff' writes it.                                                       *)
LDCff(u, ac, o) ==
    LET Use(x) == Into(ac, IF DoubleMode(u) \/ Truncates(u) THEN Done(u, CleanZero(x))
                           ELSE roundfp11(u, CleanZero(x)))
    IN  ReadFP(u, o, ~DoubleMode(u), Use)

STCff(u, ac, o) ==
    LET a == CleanZero(F_LOAD(DoubleMode(u), u.ac[ac]))
        r == IF DoubleMode(u) /\ ~Truncates(u) THEN roundfp11(u, a) ELSE Done(u, a)
    IN  setfcc(WriteFP(r.u, o, ~DoubleMode(u), r.v), r.v, r.over)

(* The exponent from and to an integer of 16 bits. *)
LDEXP(u, ac) ==
    LET n == u.int
        code == IF n < 32768 THEN Overflow ELSE Underflow
        out == n > 127 /\ n <= 65408
        x == IF out /\ ~Enabled(u, code) THEN Zero
             ELSE [F_LOAD(DoubleMode(u), u.ac[ac]) EXCEPT !.e = (n + Bias) % 256]
    IN  Into(ac, [v |-> x, u |-> IF out THEN fpnotrap(u, code) ELSE u, over |-> out /\ n < 32768])

STEXP(u, ac) ==
    LET n == (u.ac[ac].e - Bias) % 65536
    IN  Status([u EXCEPT !.int = n], n >= 32768, n = 0, FALSE, FALSE)

IntBits(u) == IF "L" \in u.fps THEN LongBits ELSE WordBits

(* An integer as a normalised number, rounded to single if need be. *)
LDCif(u, ac) ==
    LET m == IF u.int < 0 THEN -u.int ELSE u.int
        i == CHOOSE k \in 0 .. LongBits : 2^(LongBits - 1) <= m * 2^k /\ m * 2^k < 2^LongBits
        x == IF m = 0 THEN Zero
             ELSE [s |-> IF u.int < 0 THEN 1 ELSE 0, e |-> Bias + LongBits - i,
                   f |-> (m * 2^i - 2^(LongBits - 1)) * 2^(DBits - LongBits)]
    IN  Into(ac, [v |-> IF m = 0 \/ DoubleMode(u) \/ Truncates(u) THEN x ELSE roundfp11(u, x).v,
                  u |-> u, over |-> FALSE])

(* Mutant: the most negative integer is taken for an overflow. *)
ExceedsNegative(m, s, bits) == m >= 2^(bits - 1)

(* i_limit *)
Exceeds(m, s, bits) == m >= 2^(bits - 1) + s

(* The integer part; C and the value 0 if there is no room for it.         *)
STCfi(u, ac) ==
    LET x == u.ac[ac]
        bits == IntBits(u)
        m == (F_GET_FRAC(F_LOAD(DoubleMode(u), x)) * 2^(x.e - Bias)) \div 2^DBits
        small == x.e <= Bias
        large == x.e > Bias + bits \/ (~small /\ Exceeds(m, x.s, bits))
        n == IF small \/ large THEN 0 ELSE IF x.s = 1 THEN -m ELSE m
        w == [u EXCEPT !.int = n]
    IN  Status(IF large THEN fpnotrap(w, Conversion) ELSE w, n < 0, n = 0, FALSE, large)

(* Instructions on the status itself; LDFPS keeps the bits that exist. *)
Specials == {"SETF", "SETD", "SETI", "SETL"}

Special(op, u) ==
    CASE op = "SETF" -> [u EXCEPT !.fps = @ \ {"D"}]
      [] op = "SETD" -> [u EXCEPT !.fps = @ \cup {"D"}]
      [] op = "SETI" -> [u EXCEPT !.fps = @ \ {"L"}]
      [] op = "SETL" -> [u EXCEPT !.fps = @ \cup {"L"}]
      [] OTHER -> fpnotrap(u, OpCode)

fp11(op, u, ac, o) ==
    CASE op \in {"CLRf", "TSTf", "ABSf", "NEGf"} -> SingleOp(op, u, o)
      [] op \in {"LDf", "MULf", "ADDf", "SUBf", "DIVf", "MODf"} -> AccumulatorOp(op, u, ac, o)
      [] op = "STf" -> STf(u, ac, o)
      [] op = "CMPf" -> CMPf(u, ac, o)
      [] op = "LDCff" -> LDCff(u, ac, o)
      [] op = "STCff" -> STCff(u, ac, o)
      [] op = "LDEXP" -> LDEXP(u, ac)
      [] op = "STEXP" -> STEXP(u, ac)
      [] op = "LDCif" -> LDCif(u, ac)
      [] op = "STCfi" -> STCfi(u, ac)
      [] OTHER -> Special(op, u)
=============================================================================
