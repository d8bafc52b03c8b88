-------------------------------- MODULE Cis --------------------------------
(***************************************************************************)
(* The decimal string instructions of pdp11_cis.c.  A DSTR has a sign and  *)
(* DSTRLNT words of Nibbles digits each, the lowest of which is the place  *)
(* of the sign in a packed string and 0 here; AddDstr adds a word at a     *)
(* time.  A string in memory is [type, lnt, digits, sign]: its digits, the *)
(* first one the lowest, and what tells its sign, which depends on the     *)
(* type: the digit at one end, an extra character, a nibble.  Characters   *)
(* are <<zone, digit>>, the zone of an overpunched digit being its sign;   *)
(* the nibbles of a packed string are numbers.                             *)
(***************************************************************************)
LOCAL INSTANCE Integers
LOCAL INSTANCE Sequences
LOCAL INSTANCE FiniteSets
LOCAL INSTANCE TLC
LOCAL INSTANCE FiniteSetsExt

CONSTANTS
    DSTRLNT, Nibbles,    \* 4 words of 8
    CisLong              \* bits of a long: 32

WordSize == 16^Nibbles
Top == DSTRLNT * Nibbles - 1

Nib(word, k) == (word \div 16^k) % 16
Digit(s, k) == IF k \in 0 .. Top THEN Nib(s.val[1 + k \div Nibbles], k % Nibbles) ELSE 0

(* The word of the digits d(0) .. *)
FromDigits(d(_)) ==
    LET w[k \in 0 .. Nibbles] == IF k = Nibbles THEN 0 ELSE d(k) + 16 * w[k + 1] IN w[0]

(* The DSTR with the digits d(0), d(1) .. *)
Dstr(sign, d(_)) ==
    [sign |-> sign,
     val |-> [i \in 1 .. DSTRLNT |-> FromDigits(LAMBDA k : d((i - 1) * Nibbles + k))]]
Dstr0 == Dstr(0, LAMBDA k : 0)
Dstr1 == Dstr(0, LAMBDA k : IF k = 1 THEN 1 ELSE 0)

(* All digits n in a word. *)
Every(n) == FromDigits(LAMBDA k : n)

Zero(s) == \A i \in DOMAIN s.val : s.val[i] = 0

(* TestDstr: no -0. *)
Tested(s) == IF Zero(s) THEN [s EXCEPT !.sign = 0] ELSE s

-----------------------------------------------------------------------------
(* Magnitudes. *)

(* Mutant: the correction of a digit looks at its own carry. *)
WordSumOwnCarry(a, b, cy) ==
    LET sm1 == (a + b + cy) % WordSize
        sm2 == (sm1 + Every(6)) % WordSize
        out == sm1 < a \/ sm2 < sm1
        carried(k) == (Nib(a, k) + Nib((b + cy) % WordSize, k) + Nib(sm2, k)) % 2 = 1
    IN [val |-> sm2 - FromDigits(LAMBDA k : IF carried(k) THEN 0 ELSE 6),
        cy |-> IF out THEN 1 ELSE 0]

(* A word: with 6 more in each digit a decimal carry is a carry, which     *)
(* shows in the lowest bit of the next digit; where there was none the 6   *)
(* is taken back. *)
WordSum(a, b, cy) ==
    LET sm1 == (a + b + cy) % WordSize
        sm2 == (sm1 + Every(6)) % WordSize
        out == sm1 < a \/ sm2 < sm1
        carried(k) ==
            IF k = Nibbles - 1 THEN out
            ELSE (Nib(a, k + 1) + Nib((b + cy) % WordSize, k + 1) + Nib(sm2, k + 1)) % 2 = 1
    IN [val |-> sm2 - FromDigits(LAMBDA k : IF carried(k) THEN 0 ELSE 6),
        cy |-> IF out THEN 1 ELSE 0]

(* The words from the lowest up. *)
AddDstr(s1, s2, cin) ==
    LET sum[i \in 0 .. DSTRLNT] ==
            IF i = 0 THEN [val |-> <<>>, cy |-> cin]
            ELSE LET low == sum[i - 1]
                     w == WordSum(s1.val[i], s2.val[i], low.cy)
                 IN [val |-> Append(low.val, w.val), cy |-> w.cy]
    IN [sign |-> s1.sign] @@ sum[DSTRLNT]

(* s2 - s1, of which s1 is not the greater one. *)
SubDstr(s1, s2) == AddDstr([s1 EXCEPT !.val = [i \in DOMAIN @ |-> Every(9) - @[i]]], s2, 1)

CmpDstr(s1, s2) ==
    LET differ == {i \in DOMAIN s1.val : s1.val[i] # s2.val[i]}
    IN IF differ = {} THEN 0
       ELSE IF s1.val[Max(differ)] > s2.val[Max(differ)] THEN 1 ELSE -1

LntDstr(s) == IF Zero(s) THEN 0 ELSE Max({k \in 0 .. Top : Digit(s, k) # 0})

(* Word and nibble shifts together.  To the right, cin comes in at the top.*)
Rshift(s, n, cin) == Dstr(s.sign, LAMBDA k : IF k = Top /\ n = 1 THEN cin ELSE Digit(s, k + n))
Lshift(s, n) == Dstr(s.sign, LAMBDA k : IF k >= n THEN Digit(s, k - n) ELSE 0)
Lost(s, n) == \E k \in 0 .. Top : k + n > Top /\ Digit(s, k) # 0

CreateTable(s) ==
    LET t[n \in 1 .. 9] == IF n = 1 THEN <<s>> ELSE LET u == t[n - 1] IN Append(u, AddDstr(s, u[n - 1], 0))
    IN t[9]

-----------------------------------------------------------------------------
(* Strings in memory. *)

Packed   == {"XP", "UP"}
Separate == {"TS", "LS"}
Unsigned == {"UZ", "UP"}

(* Where the type has its overpunched or zoned digit. *)
SignAt(type, lnt) == IF type = "LO" THEN lnt ELSE 1

(* ReadDstr.  A digit above 9 reads as 0.                                  *)
Negative(f) ==
    CASE f.type \in Packed -> f.sign \in {11, 13}
      [] f.type \in Separate -> f.sign = "-"
      [] f.type = "XZ" -> f.lnt > 0 /\ f.digits[1][1] = "7"
      [] f.type \in {"TO", "LO"} -> f.lnt > 0 /\ f.digits[SignAt(f.type, f.lnt)][1] = "-"
      [] f.type = "UZ" -> FALSE
DigitOf(f, k) == IF f.type \in Packed THEN f.digits[k] ELSE f.digits[k][2]
ReadDstr(f) ==
    Tested(Dstr(IF Negative(f) THEN 1 ELSE 0,
                LAMBDA k : IF k \in 1 .. f.lnt /\ DigitOf(f, k) <= 9 THEN DigitOf(f, k) ELSE 0))

(* The field a DSTR s with sign is stored in. *)
Stored(type, lnt, s, sign) ==
    [type |-> type, lnt |-> lnt,
     digits |-> [k \in 1 .. lnt |->
        CASE type \in Packed -> Digit(s, k)
          [] type = "XZ" /\ k = 1 /\ sign = 1 -> <<"7", Digit(s, k)>>
          [] type \in {"TO", "LO"} /\ k = SignAt(type, lnt) -> <<IF sign = 1 THEN "-" ELSE "+", Digit(s, k)>>
          [] OTHER -> <<"3", Digit(s, k)>>],
     sign |-> CASE type = "UP" -> 15
                [] type = "XP" -> 12 + sign
                [] type \in Separate -> IF sign = 1 THEN "-" ELSE "+"
                [] OTHER -> "none"]

(* WriteDstr: digits that do not fit set V, and only with V a zero keeps   *)
(* its sign.  v is what the instruction knows already.                     *)
WriteDstr(type, lnt, s, v) ==
    LET over == v \/ \E k \in 0 .. Top : k > lnt /\ Digit(s, k) # 0
        z == \A k \in 1 .. lnt : Digit(s, k) = 0
        sign == IF type \in Unsigned \/ (z /\ ~over) THEN 0 ELSE s.sign
    IN [field |-> Stored(type, lnt, s, sign), n |-> sign = 1 /\ ~z, z |-> z, v |-> over, c |-> FALSE]

-----------------------------------------------------------------------------
(* The instructions, of the DSTRs they read; type and lnt are those of the *)
(* destination. *)

Signed(s, sign) == [sign |-> sign, val |-> s.val]

AddSub(sub, a, b, type, lnt) ==
    LET s1 == IF sub THEN [a EXCEPT !.sign = 1 - @] ELSE a
        sum == AddDstr(s1, b, 0)
    IN IF s1.sign = b.sign THEN WriteDstr(type, lnt, sum, sum.cy = 1)
       ELSE IF CmpDstr(s1, b) < 0 THEN WriteDstr(type, lnt, Signed(SubDstr(s1, b), b.sign), FALSE)
       ELSE WriteDstr(type, lnt, Signed(SubDstr(b, s1), s1.sign), FALSE)

(* One digit of the multiplier at a time: its multiple is added, and a     *)
(* digit of the sum goes over to the result. *)
Mulp(a, b, type, lnt) ==
    LET t == CreateTable(Rshift(a, 1, 0))
        step[i \in 0 .. Top] ==
            IF i = 0 THEN [accum |-> Dstr0, dst |-> Dstr0]
            ELSE LET p == step[i - 1]
                     sum == IF Digit(b, i) > 0 THEN AddDstr(t[Digit(b, i)], p.accum, 0) ELSE p.accum
                 IN [accum |-> Rshift(sum, 1, 0), dst |-> Rshift(p.dst, 1, Digit(sum, 0))]
        zero == Zero(a) \/ Zero(b)
    IN WriteDstr(type, lnt,
                 IF zero THEN Dstr0 ELSE Signed(step[Top].dst, (a.sign + b.sign) % 2),
                 ~zero /\ ~Zero(step[Top].accum))

(* b / a: the greatest multiple that is not above what is left. *)
Divp(a, b, type, lnt) ==
    LET t == LntDstr(b) - LntDstr(a)
        m == CreateTable(Lshift(Rshift(a, 1, 0), t))
        step[i \in 0 .. t + 1] ==
            IF i = 0 THEN [left |-> Rshift(b, 1, 0), dst |-> Dstr0]
            ELSE LET p == step[i - 1]
                     fits == {d \in 1 .. 9 : CmpDstr(p.left, m[d]) >= 0}
                     d == IF fits = {} THEN 0 ELSE Max(fits)
                 IN [left |-> Lshift(IF d = 0 THEN p.left ELSE SubDstr(m[d], p.left), 1),
                     dst |-> Lshift(Dstr(0, LAMBDA k : IF k = 0 THEN d ELSE Digit(p.dst, k)), 1)]
    IN IF t < 0 THEN WriteDstr(type, lnt, Dstr0, FALSE)
       ELSE WriteDstr(type, lnt, Signed(step[t + 1].dst, (a.sign + b.sign) % 2), FALSE)

CmpDecimal(a, b) ==
    LET t == CmpDstr(a, b)
    IN IF a.sign # b.sign THEN [n |-> a.sign = 1, z |-> FALSE]
       ELSE [n |-> IF a.sign = 1 THEN t > 0 ELSE t < 0, z |-> t = 0]

(* The shift count is signed; to the right, the last digit that goes out   *)
(* decides with the rounding digit. *)
Ash(a, count, round, type, lnt) ==
    LET r == Rshift(a, -count, 0)
        up == AddDstr(r, Dstr1, 0)
        kept == IF round + Digit(r, 0) > 9 THEN up ELSE r
    IN IF count < 0
         THEN WriteDstr(type, lnt, Dstr(a.sign, LAMBDA k : IF k = 0 THEN 0 ELSE Digit(kept, k)), FALSE)
         ELSE WriteDstr(type, lnt, Lshift(a, count), Lost(a, count))

(* To a long, which wraps; v says that it did. *)
LongSize == 2^CisLong
MAXDVAL == LongSize \div 10 + 1
ToLong(a) ==
    LET step[i \in 1 .. Top + 1] ==
            IF i = Top + 1 THEN [result |-> 0, v |-> FALSE]
            ELSE LET p == step[i + 1]
                     next == (p.result * 10 + Digit(a, i)) % LongSize
                 IN IF Digit(a, i) = 0 /\ p.result = 0 /\ ~p.v THEN p
                    ELSE [result |-> next, v |-> p.v \/ p.result >= MAXDVAL \/ next < Digit(a, i)]
        result == IF a.sign = 1 THEN (-step[1].result) % LongSize ELSE step[1].result
        n == result >= LongSize \div 2
    IN [result |-> result, n |-> n, z |-> result = 0, v |-> step[1].v \/ n # (a.sign = 1),
        c |-> a.sign = 1 /\ result # 0]

FromLong(x, type, lnt) ==
    LET neg == x >= LongSize \div 2
        m == IF neg THEN LongSize - x ELSE x
    IN WriteDstr(type, lnt,
                 Dstr(IF neg THEN 1 ELSE 0, LAMBDA k : IF k = 0 THEN 0 ELSE (m \div 10^(k - 1)) % 10), FALSE)
=============================================================================
