------------------------------- MODULE MCAlu -------------------------------
(***************************************************************************)
(* Alu, Fp and Cis against arithmetic: every operation with its operands   *)
(* is one state.                                                           *)
(***************************************************************************)
EXTENDS Alu, Fp, FiniteSets

CONSTANTS DSTRLNT, Nibbles, CisLong

VARIABLE done      \* the operation computed last

CIS == INSTANCE Cis

(***************************************************************************)
(* Floating point, in a small format: an instruction with its operands,    *)
(* modes and enabled exceptions.  Exponents are taken where they leave     *)
(* their range and as far apart as alignment matters, fractions where      *)
(* carries and ties happen.                                                *)
(***************************************************************************)
Floats(E, F) == {[s |-> s, e |-> e, f |-> f] : s \in {0, 1}, e \in E, f \in F}
Positive(E, F) == {x \in Floats(E, F) : x.s = 0}

SingleF == {k * 2^LowBits : k \in 0 .. 2^(FBits - 1) - 1}
DoubleF ==
    LET high == {0, (2^(FBits - 1) - 1) * 2^LowBits}
        low == {0, 1, 2^(LowBits - 1) - 1, 2^(LowBits - 1), 2^LowBits - 1}
    IN  {h + l : h \in high, l \in low}
Fractions(fps) == IF "D" \in fps THEN DoubleF ELSE SingleF

Modes == {m \cup t : m \in SUBSET {"D", "T"}, t \in {{}, {"IC", "IV", "IU", "IUV"}}}

(* An instruction on accumulator 0 with an operand in memory. *)
Request(op, fps, a, b, n) == [kind |-> "fp", op |-> op, fps |-> fps, a |-> a, b |-> b, int |-> n]

FloatSums(fps) ==
    {Request(op, fps, a, b, 0) : op \in {"ADDf", "SUBf"}, a \in Positive({1, 2, 255}, Fractions(fps)),
                                 b \in Floats({0, 1, 2, 3, 253, 254, 255}, Fractions(fps))}

FloatAlignments(fps) ==
    {Request(op, fps, a, b, 0) : op \in {"ADDf", "SUBf"}, a \in Positive({20}, Fractions(fps)),
                                 b \in Positive(7 .. 20, Fractions(fps))}

FloatComparisons(fps) ==
    {Request("CMPf", fps, a, b, 0) : a, b \in Floats({0, 1, 255}, Fractions(fps))}

FloatProducts(fps) ==
    {Request(op, fps, a, b, 0) : op \in {"MULf", "DIVf", "MODf"},
                                 a \in Floats({0, 1, 130, 135}, Fractions(fps)),
                                 b \in Positive({0, 1, 127, 130, 255}, Fractions(fps))}

FloatConversions(fps) ==
    {Request(op, fps \cup l, a, a, 0) : op \in {"STCff", "LDCff", "STCfi"}, l \in SUBSET {"L"},
                                        a \in Floats({0, 1, 255} \cup 127 .. 135, SingleF \cup DoubleF)}

IntegerConversions(fps) ==
    {Request("LDCif", fps \cup {"L"}, Zero, Zero, n) : n \in -(2^(LongBits - 1)) .. 2^(LongBits - 1) - 1}
        \cup {Request("LDCif", fps, Zero, Zero, n) : n \in -(2^(WordBits - 1)) .. 2^(WordBits - 1) - 1}

FloatMoves(fps) ==
    {Request(op, fps, a, a, 0) : op \in {"STEXP", "STf", "LDf", "ABSf", "NEGf", "TSTf", "CLRf"},
                                 a \in Floats({0, 1, 255}, SingleF)}
        \cup {Request("LDEXP", fps, a, Zero, n) : a \in Positive({0, 1}, DoubleF),
                    n \in {0, 1, 127, 128, 32767, 32768, 65407, 65408, 65409, 65535}}
        \cup {Request(op, fps, Zero, Zero, 0) : op \in Specials \cup {"bad"}}

Processor(r) == [ac |-> (0 :> r.a @@ 1 :> Zero), mem |-> r.b, int |-> r.int,
                 fps |-> r.fps, fec |-> 0, trap |-> FALSE]

Float ==
    \E fps \in Modes :
    \E S \in {FloatSums(fps), FloatAlignments(fps), FloatComparisons(fps), FloatProducts(fps),
              FloatConversions(fps), IntegerConversions(fps), FloatMoves(fps)} :
    \E r \in S : done' = [out |-> fp11(r.op, Processor(r), 0, "mem")] @@ r

-----------------------------------------------------------------------------
(* The reference.  An exact magnitude is num / den * 2^z, a number has the *)
(* magnitude F_GET_FRAC * 2^e.                                             *)

(* 4 * num / den * 2^d >= bound, for bound > 0. *)
AtLeast(num, den, d, bound) ==
    CASE d > 18       -> TRUE
      [] d < -18      -> FALSE
      [] d \in 0 .. 18  -> 4 * num * 2^d >= bound * den
      [] d \in -18 .. -1 -> 4 * num >= bound * den * 2^(-d)

(* With p bits and exponent e, x is what num / den * 2^z is rounded to, or *)
(* cut off to, if the value that is rounded may be off by v.more quarters  *)
(* of a unit in the last place upwards and v.less downwards.               *)
Rounds(v, p, e, cut, x) ==
    LET r == F_GET_FRAC(x) \div 2^(DBits - p)
        d == v.z - (e + DBits - p)
        below == IF cut THEN 0 ELSE IF r = 2^(p - 1) THEN 1 ELSE 2
    IN  /\ AtLeast(v.num, v.den, d, 4 * r - below - v.more)
        /\ ~AtLeast(v.num, v.den, d, 4 * r + (IF cut THEN 4 ELSE 2) + v.less)

(* The result x of an instruction whose exact value is v: rounded; or out  *)
(* of range, then 0, or with its exponent wrapped if that is to be trapped.*)
Correct(v, p, x, cut) ==
    LET out == done.out
        y == F_LOAD(p = DBits, x)
        Is(e) == y.s = v.s /\ Rounds(v, p, e, cut, y)
        quiet == out.fec = 0 /\ ~out.trap /\ "ER" \notin out.fps
        raised(code) == out.fec = code /\ out.trap /\ "ER" \in out.fps
        huge == AtLeast(v.num, v.den, v.z - (255 + DBits - p), 4 * 2^p - (IF cut THEN 0 ELSE 2))
        tiny == ~AtLeast(v.num, v.den, v.z - (1 + DBits - p),
                         4 * 2^(p - 1) - (IF cut THEN 0 ELSE 1))
    IN  IF v.num = 0 THEN y = Zero /\ quiet
        ELSE CASE "V" \in out.fps ->
                    IF "IV" \in out.fps THEN raised(Overflow) /\ Is(y.e + 256)
                    ELSE quiet /\ y = Zero /\ huge
               [] "V" \notin out.fps /\ tiny ->
                    IF "IU" \in out.fps
                      THEN raised(Underflow) /\ Is(IF y.e = 0 THEN 0 ELSE y.e - 256)
                      ELSE quiet /\ y = Zero
               [] OTHER -> quiet /\ ~huge /\ y.e # 0 /\ Is(y.e)

Precision == IF "D" \in done.fps THEN DBits ELSE FBits
Other == DBits + FBits - Precision
Cut == "T" \in done.fps

Mantissa(x) == IF x.e = 0 THEN 0 ELSE F_GET_FRAC(x)
Exactly(s, num, den, z) == [s |-> s, num |-> num, den |-> den, z |-> z, more |-> 0, less |-> 0]

(* Only a subtraction loses something: what alignment shifts out of the    *)
(* bits behind the precision in force.                                     *)
ExactSum(a, b) ==
    LET z == IF a.e = 0 \/ (b.e # 0 /\ b.e < a.e) THEN b.e ELSE a.e
        low == IF b.e = 0 THEN a.e ELSE z
        Term(x) == IF x.e = 0 THEN 0
                   ELSE (IF x.s = 1 THEN -1 ELSE 1) * F_GET_FRAC(x) * 2^(x.e - low)
        sum == Term(a) + Term(b)
        spare == Guard + DBits - Precision
        far == a.e > b.e + spare \/ b.e > a.e + spare
    IN  [Exactly(IF sum < 0 THEN 1 ELSE 0, IF sum < 0 THEN -sum ELSE sum, 1, low)
            EXCEPT !.more = IF far /\ a.s # b.s THEN 1 ELSE 0]

Near(a, b) == a.e = 0 \/ b.e = 0 \/ (a.e - b.e < 15 /\ b.e - a.e < 15)

SumsRounded ==
    done.op \in {"ADDf", "SUBf"} /\ Near(done.a, done.b) =>
        LET b == IF done.op = "SUBf" THEN Negated(done.b) ELSE done.b
        IN  Correct(ExactSum(done.a, b), Precision, done.out.ac[0], Cut)

ExactProduct ==
    Exactly((done.a.s + done.b.s) % 2, Mantissa(done.a) * Mantissa(done.b), 1,
            done.a.e + done.b.e - Bias - DBits)

ProductsRounded ==
    done.op = "MULf" => Correct(ExactProduct, Precision, done.out.ac[0], Cut)

QuotientsRounded ==
    done.op = "DIVf" =>
        IF done.b.e = 0
          THEN done.out.ac[0] = done.a /\ done.out.fec = DivZero /\ done.out.trap
          ELSE Correct(Exactly((done.a.s + done.b.s) % 2, Mantissa(done.a), F_GET_FRAC(done.b),
                               done.a.e - done.b.e + Bias + DBits),
                       Precision, done.out.ac[0], Cut)

(* MODf splits the product: accumulator 1 gets its integer part, 0 the     *)
(* fraction, short of what the product has beyond the guard bits.          *)
ProductsSplit ==
    LET v == ExactProduct
        whole == F_LOAD(Precision = DBits, done.out.ac[1])
        part == F_LOAD(Precision = DBits, done.out.ac[0])
        one == Bias + DBits - v.z          \* v.num counts units of 2^-one
        n == 2 * DBits - one - (IF v.num < 2^(2 * DBits - 1) THEN 1 ELSE 0)
        rest == [v EXCEPT !.num = @ % 2^one,
                          !.less = IF Precision = DBits /\ part # Zero THEN 2^(n + Bias - part.e) ELSE 0]
    IN  done.op = "MODf" =>
        CASE v.num = 0 -> whole = Zero /\ part = Zero
          [] v.num # 0 /\ n <= 0 -> whole = Zero /\ Correct(v, Precision, part, Cut)
          [] v.num # 0 /\ n > Precision -> part = Zero /\ Correct(v, Precision, whole, TRUE)
          [] OTHER ->
                /\ Correct([v EXCEPT !.num = @ \div 2^one, !.z = Bias + DBits],
                           Precision, whole, TRUE)
                /\ IF part = Zero THEN rest.num < 2^(one + n - DBits - 2)
                                  ELSE Correct(rest, Precision, part, Cut)

(* Conversions: integers to numbers, numbers to the other precision, and   *)
(* numbers to integers, which say C when the integer part has no room.     *)
ConversionsRounded ==
    LET a == F_LOAD(Precision = DBits, done.a)
        b == F_LOAD(Other = DBits, done.b)
        bits == IF "L" \in done.fps THEN LongBits ELSE WordBits
        far == a.e > Bias + LongBits + 1
        whole == IF far THEN 2^LongBits ELSE (Mantissa(a) * 2^(a.e - Bias)) \div 2^DBits
        signed == IF a.s = 1 THEN -whole ELSE whole
        fits == -(2^(bits - 1)) <= signed /\ signed < 2^(bits - 1)
    IN  CASE done.op = "LDCif" ->
                Correct(Exactly(IF done.int < 0 THEN 1 ELSE 0,
                                IF done.int < 0 THEN -done.int ELSE done.int, 1, Bias + DBits),
                        Precision, done.out.ac[0], Cut)
          [] done.op = "LDCff" ->
                Correct(Exactly(b.s, Mantissa(b), 1, b.e), Precision, done.out.ac[0], Cut)
          [] done.op = "STCff" ->
                Correct(Exactly(a.s, Mantissa(a), 1, a.e), Other, done.out.mem, Cut)
          [] done.op = "STCfi" ->
                /\ done.out.int = IF a.e <= Bias \/ ~fits THEN 0 ELSE signed
                /\ ("C" \in done.out.fps) = (a.e > Bias /\ ~fits)
          [] OTHER -> TRUE

ComparesInOrder ==
    done.op = "CMPf" =>
        LET Place(x) == IF x.e = 0 THEN 0 ELSE (IF x.s = 1 THEN -1 ELSE 1) * Mag(x)
        IN  /\ ("N" \in done.out.fps) = (Place(done.b) < Place(done.a))
            /\ ("Z" \in done.out.fps) = (Place(done.b) = Place(done.a))

Stores == {"CLRf", "STf", "STCff", "STCfi", "STEXP", "LDEXP", "LDCif"}

(* A minus zero in memory, where that is to be trapped, ends the           *)
(* instruction.                                                            *)
Refused == done.b.s = 1 /\ done.b.e = 0 /\ "IUV" \in done.fps /\ done.op \notin Stores

(* The floating point instructions: a result is the exact one rounded or   *)
(* cut off, condition codes and exceptions say so when it is out of range, *)
(* and a comparison is that of the numbers (addfp11 to roundfp11).         *)
FloatsRounded ==
    done.kind = "fp" =>
        IF Refused THEN [done.out EXCEPT !.fps = {}, !.fec = 0, !.trap = FALSE]
                        = [ac |-> (0 :> done.a @@ 1 :> Zero), mem |-> done.b, int |-> done.int,
                           fps |-> {}, fec |-> 0, trap |-> FALSE]
        ELSE /\ SumsRounded
             /\ ProductsRounded
             /\ QuotientsRounded
             /\ ProductsSplit
             /\ ComparesInOrder
             /\ ConversionsRounded

(***************************************************************************)
(* Decimal strings, with numbers of at most three digits in two words: an  *)
(* instruction with its operands and its destination.                      *)
(***************************************************************************)
Types == {"XZ", "UZ", "TO", "LO", "TS", "LS", "XP", "UP"}

(* A string of lnt digits in memory. *)
DecimalField(type, lnt, n, neg) ==
    LET digit(k) == (n \div 10^(k - 1)) % 10
        zone(k) == CASE type = "XZ" /\ k = 1 /\ neg -> "7"
                     [] (type = "TO" /\ k = 1) \/ (type = "LO" /\ k = lnt) -> IF neg THEN "-" ELSE "+"
                     [] OTHER -> "3"
    IN [type |-> type, lnt |-> lnt,
        digits |-> [k \in 1 .. lnt |-> IF type \in {"XP", "UP"} THEN digit(k) ELSE <<zone(k), digit(k)>>],
        sign |-> CASE type = "UP" -> 15
                   [] type = "XP" -> IF neg THEN 13 ELSE 12
                   [] type \in {"TS", "LS"} -> IF neg THEN "-" ELSE "+"
                   [] OTHER -> "none"]

Digits == {0, 1, 9}
Numbers == {100 * i + 10 * j + k : i, j, k \in Digits} \cup {5, 28, 44, 55, 128, 250, 256, 259, 495}
Decimals(N) == {[n |-> n, neg |-> neg] : n \in N, neg \in BOOLEAN}

Decimal(op, a, b, from, type, lnt, count, round) ==
    [kind |-> "cis", op |-> op, a |-> a, b |-> b, from |-> from, type |-> type, lnt |-> lnt,
     count |-> count, round |-> round]
Nothing == [n |-> 0, neg |-> FALSE]

Pairs == {Decimal(op, a, b, "XP", "XP", lnt, 0, 0) : op \in {"ADD", "SUB", "MUL", "DIV", "CMP"},
              a, b \in Decimals({100 * i + 10 * j + k : i, j, k \in Digits}), lnt \in {2, 3}}
Shifts10 == {Decimal("ASH", a, Nothing, "XP", type, lnt, count, round) :
                a \in Decimals(Numbers), type \in {"XP", "TO"}, lnt \in {2, 3}, count \in -4 .. 4, round \in {0, 5}}
Conversions ==
    {Decimal("CVT", a, Nothing, from, type, lnt, 0, 0) : a \in Decimals(Numbers), from, type \in Types, lnt \in 0 .. 3}
    \cup {Decimal("TOLONG", a, Nothing, "XP", "XP", 3, 0, 0) : a \in Decimals(Numbers)}
    \cup {Decimal("FROMLONG", Nothing, Nothing, "XP", type, lnt, n, 0) : n \in 0 .. 255, type \in {"XP", "TS"}, lnt \in {2, 3}}

(* The value of a string: an unsigned one has no sign.                     *)
Value(x, type) == IF x.neg /\ type \notin {"UZ", "UP"} THEN -x.n ELSE x.n

Computed(r) ==
    LET a == CIS!ReadDstr(DecimalField(r.from, 3, r.a.n, r.a.neg))
        b == CIS!ReadDstr(DecimalField(r.from, 3, r.b.n, r.b.neg))
    IN CASE r.op \in {"ADD", "SUB"} -> CIS!AddSub(r.op = "SUB", a, b, r.type, r.lnt)
         [] r.op = "MUL" -> CIS!Mulp(a, b, r.type, r.lnt)
         [] r.op = "DIV" -> CIS!Divp(a, b, r.type, r.lnt)
         [] r.op = "CMP" -> CIS!CmpDecimal(a, b)
         [] r.op = "ASH" -> CIS!Ash(a, r.count, r.round, r.type, r.lnt)
         [] r.op = "CVT" -> CIS!WriteDstr(r.type, r.lnt, a, FALSE)
         [] r.op = "TOLONG" -> CIS!ToLong(a)
         [] r.op = "FROMLONG" -> CIS!FromLong(r.count, r.type, r.lnt)

DecimalStep ==
    \E S \in {Pairs, Shifts10, Conversions} : \E r \in S :
        /\ r.op = "DIV" => r.a.n # 0
        /\ done' = r @@ [out |-> Computed(r)]

-----------------------------------------------------------------------------
(* The reference: integers.                                                *)

Abs(x) == IF x < 0 THEN -x ELSE x
WithSign(x, neg) == IF neg THEN -x ELSE x
Truncated(x, y) == WithSign(Abs(x) \div Abs(y), (x < 0) # (y < 0))

(* Shifted to the right, with a digit of the fraction to round by.         *)
Rounded(x, n, round) ==
    WithSign((Abs(x) \div 10^n) + (IF ((Abs(x) \div 10^(n - 1)) % 10) + round > 9 THEN 1 ELSE 0), x < 0)

ExactDecimal(r) ==
    LET a == Value(r.a, r.from)
        b == Value(r.b, r.from)
    IN CASE r.op = "ADD" -> b + a
         [] r.op = "SUB" -> b - a
         [] r.op = "MUL" -> a * b
         [] r.op = "DIV" -> Truncated(b, a)
         [] r.op = "ASH" -> IF r.count >= 0 THEN a * 10^r.count ELSE Rounded(a, -r.count, r.round)
         [] r.op = "CVT" -> a
         [] r.op = "FROMLONG" -> IF r.count >= 128 THEN r.count - 256 ELSE r.count

StoredExactly ==
    LET x    == ExactDecimal(done)
        kept == Abs(x) % 10^done.lnt
        over == Abs(x) >= 10^done.lnt
        neg  == x < 0 /\ done.type \notin {"UZ", "UP"}
    IN /\ done.out.field = DecimalField(done.type, done.lnt, kept, neg /\ (kept # 0 \/ over))
       /\ done.out.n = (neg /\ kept # 0) /\ done.out.z = (kept = 0)
       /\ done.out.v = over /\ ~done.out.c

(* Decimal instructions compute what integers do.  A result that does not  *)
(* fit its string loses its upper digits and sets V, the sign stays; a     *)
(* long wraps and sets V; N and Z describe what is stored.                 *)
DecimalExact ==
    done.kind = "cis" =>
        LET a == Value(done.a, done.from)
            b == Value(done.b, done.from)
        IN CASE done.op = "CMP" -> done.out.n = (a < b) /\ done.out.z = (a = b)
             [] done.op = "TOLONG" ->
                  /\ done.out.result = a % 256
                  /\ done.out.v = ~(a >= -128 /\ a < 128)
                  /\ done.out.n = (a % 256 >= 128) /\ done.out.z = (a % 256 = 0)
             [] OTHER -> StoredExactly

(***************************************************************************)
(* Integers: bytes are taken whole for one operand; for two and for the    *)
(* extended instructions the values are those where signs, carries and     *)
(* lengths change.                                                         *)
(***************************************************************************)
None == [kind |-> "none"]

CC(c) == [n |-> FALSE, z |-> FALSE, v |-> FALSE, c |-> c]

Edge8  == {0, 1, 2, 126, 127, 128, 129, 170, 254, 255}
Edge16 == {0, 1, 2, 3, 255, 256, 32766, 32767, 32768, 32769, 43690, 65534, 65535}
Edge(w) == IF w = 8 THEN Edge8 ELSE Edge16

Arithmetic == {"INC", "DEC", "NEG", "ADC", "SBC"}
Moves      == {"ROR", "ROL", "ASR", "ASL"}

One(w, D) ==
    \E op \in Arithmetic \cup Moves, d \in D, c \in BOOLEAN :
        done' = [kind |-> "one", op |-> op, w |-> w, d |-> d, c |-> c,
                 out |-> Single(op, d, CC(c), w)]

Two(w) ==
    \E op \in {"CMP", "BIT", "BIC", "BIS"} \cup (IF w = 16 THEN {"ADD", "SUB", "XOR"} ELSE {}),
       s, d \in Edge(w) :
        done' = [kind |-> "two", op |-> op, w |-> w, s |-> s, d |-> d,
                 out |-> Double(op, s, d, CC(FALSE), w)]

Extended ==
    \E hi, lo, s \in Edge16 :
        \/ done' = [kind |-> "mul", r |-> hi, s |-> s, out |-> Mul(hi, s)]
        \/ done' = [kind |-> "div", hi |-> hi, lo |-> lo, s |-> s, out |-> Div(hi, lo, s)]

Shifts ==
    \E hi, lo \in Edge16, n \in 0 .. 63 :
        \/ done' = [kind |-> "ash", hi |-> hi, n |-> n, out |-> Ash(hi, n)]
        \/ done' = [kind |-> "ashc", hi |-> hi, lo |-> lo, n |-> n, out |-> Ashc(hi, lo, n)]

Init == done = None
Next ==
    /\ done = None
    /\ \/ One(8, 0 .. 255)
       \/ One(16, Edge16)
       \/ Two(8)
       \/ Two(16)
       \/ Extended
       \/ Shifts
       \/ Float
       \/ DecimalStep
Spec == Init /\ [][Next]_done

-----------------------------------------------------------------------------
(* The reference: numbers without a width. *)

Fits(x, w) == x >= -(2^(w - 1)) /\ x < 2^(w - 1)

(* The exact result of an operation on two's complement numbers, and       *)
(* whether its carry or borrow leaves the unsigned word.                   *)
Exact(op, s, d, c) ==
    CASE op = "INC" -> d + 1       [] op = "DEC" -> d - 1
      [] op = "NEG" -> -d
      [] op = "ADC" -> d + Bit(c)  [] op = "SBC" -> d - Bit(c)
      [] op = "ADD" -> d + s       [] op = "SUB" -> d - s
      [] op = "CMP" -> s - d

Leaves(x, w) == x < 0 \/ x >= 2^w

(* Integer instructions: the result is the exact one in w bits, V tells    *)
(* that the signed result does not fit, C that the unsigned one does not   *)
(* (INC and DEC leave C alone), N and Z describe the result.  MUL: the two *)
(* registers are the product, C tells that one would not have been enough. *)
ResultsAreExact ==
    /\ done.kind = "mul" =>
            LET p == Signed(done.r, 16) * Signed(done.s, 16)
            IN /\ Signed(done.out.hi, 16) * 65536 + done.out.lo = p
               /\ done.out.cc = Codes(p < 0, p = 0, FALSE, ~Fits(p, 16))
    /\ done.kind \in {"one", "two"}
        /\ done.op \in Arithmetic \cup {"ADD", "SUB", "CMP"} =>
            LET w  == done.w
                s  == IF done.kind = "two" THEN done.s ELSE 0
                c  == IF done.kind = "one" THEN done.c ELSE FALSE
                signed   == Exact(done.op, Signed(s, w), Signed(done.d, w), c)
                unsigned == Exact(done.op, s, done.d, c)
            IN /\ done.out.val = unsigned % 2^w
               /\ done.out.n = (Signed(done.out.val, w) < 0)
               /\ done.out.z = (done.out.val = 0)
               /\ done.out.v = ~Fits(signed, w)
               /\ done.out.c = IF done.op \in {"INC", "DEC"} THEN c ELSE Leaves(unsigned, w)

(* A program compares with CMP and branches: the signed branches follow    *)
(* the order of the numbers, the unsigned ones that of the words.          *)
BranchesCompare ==
    done.kind = "two" /\ done.op = "CMP" =>
        LET s == Signed(done.s, done.w)
            d == Signed(done.d, done.w)
        IN /\ TakenLow("BGT", done.out) = (s > d) /\ TakenLow("BLE", done.out) = (s <= d)
           /\ TakenLow("BGE", done.out) = (s >= d) /\ TakenLow("BLT", done.out) = (s < d)
           /\ TakenLow("BEQ", done.out) = (s = d) /\ TakenLow("BNE", done.out) = (s # d)
           /\ TakenHigh("BHI", done.out) = (done.s > done.d)
           /\ TakenHigh("BLOS", done.out) = (done.s <= done.d)
           /\ TakenHigh("BCS", done.out) = (done.s < done.d)

(* One step of a shift register of w bits, and how often it changed sign. *)
Left(st, w)  == [v |-> (2 * st.v) % 2^w, c |-> Sign(st.v, w),
                 turned |-> st.turned \/ Sign(st.v, w) # Sign((2 * st.v) % 2^w, w)]
Right(st, w) == [v |-> (st.v \div 2) + Bit(Sign(st.v, w)) * 2^(w - 1), c |-> st.v % 2 = 1,
                 turned |-> FALSE]

Shifted(v, n, w) ==
    LET start == [v |-> v, c |-> FALSE, turned |-> FALSE]
        left[k \in 0 .. 31]  == IF k = 0 THEN start ELSE Left(left[k - 1], w)
        right[k \in 0 .. 32] == IF k = 0 THEN start ELSE Right(right[k - 1], w)
    IN IF n < 32 THEN left[n] ELSE right[64 - n]

(* ASH is as many single shifts as the count says: same word, same last    *)
(* bit, and V if the sign changed on the way.                              *)
AshIsShifts ==
    done.kind = "ash" =>
        LET st == Shifted(done.hi, done.n, 16)
        IN done.out = [val |-> st.v, cc |-> Codes(Sign(st.v, 16), st.v = 0, st.turned, st.c)]

(* A double word, high and low, the same way. *)
LeftPair(st) ==
    LET h == (2 * st.hi + Bit(Sign(st.lo, 16))) % 65536
    IN [hi |-> h, lo |-> (2 * st.lo) % 65536, c |-> Sign(st.hi, 16),
        turned |-> st.turned \/ Sign(st.hi, 16) # Sign(h, 16)]
RightPair(st) ==
    [hi |-> (st.hi \div 2) + Bit(Sign(st.hi, 16)) * 32768,
     lo |-> (st.lo \div 2) + (st.hi % 2) * 32768, c |-> st.lo % 2 = 1, turned |-> FALSE]

(* ASHC likewise, on the two registers. *)
AshcIsShifts ==
    done.kind = "ashc" =>
        LET start == [hi |-> done.hi, lo |-> done.lo, c |-> FALSE, turned |-> FALSE]
            left[k \in 0 .. 31]  == IF k = 0 THEN start ELSE LeftPair(left[k - 1])
            right[k \in 0 .. 32] == IF k = 0 THEN start ELSE RightPair(right[k - 1])
            st == IF done.n < 32 THEN left[done.n] ELSE right[64 - done.n]
        IN done.out = [hi |-> st.hi, lo |-> st.lo,
                       cc |-> Codes(Sign(st.hi, 16), st.hi = 0 /\ st.lo = 0, st.turned, st.c)]

Magnitude(x) == IF x < 0 THEN -x ELSE x

(* DIV: unless V, quotient and remainder give back the dividend, the       *)
(* remainder is smaller than the divisor and has the dividend's sign; with *)
(* V the registers are kept and there is no such quotient of 16 bits.      *)
DivisionIsExact ==
    done.kind = "div" /\ ~(done.hi = 32768 /\ done.lo = 0) =>
        LET a == Signed(done.hi, 16) * 65536 + done.lo
            b == Signed(done.s, 16)
            q == Signed(done.out.hi, 16)
            r == Signed(done.out.lo, 16)
        IN IF done.out.cc.v
           THEN /\ done.out.hi = done.hi /\ done.out.lo = done.lo
                /\ b # 0 => Magnitude(a) \div Magnitude(b)
                                >= (IF (a < 0) # (b < 0) THEN 32769 ELSE 32768)
           ELSE /\ a = b * q + r
                /\ Magnitude(r) < Magnitude(b)
                /\ r # 0 => (r < 0) = (a < 0)
                /\ done.out.cc.n = (q < 0) /\ done.out.cc.z = (q = 0)

(* All of these: results, condition codes and the branches taken on them   *)
(* are those of numbers without a width, for every count a shift can have  *)
(* and every divisor.                                                      *)
IntegersExact ==
    ResultsAreExact /\ BranchesCompare /\ AshIsShifts /\ AshcIsShifts /\ DivisionIsExact

(* What an instruction computes is what the numbers give: of integers here,*)
(* of floating point numbers after rounding, of decimal strings;           *)
(* pdp11_cpu.c, pdp11_fp.c, pdp11_cis.c.                                   *)
ArithmeticExact == IntegersExact /\ FloatsRounded /\ DecimalExact
=============================================================================
