-------------------------------- MODULE Alu --------------------------------
(***************************************************************************)
(* What the instructions of pdp11_cpu.c compute: results and condition     *)
(* codes.  The code has every operation twice, for words and for bytes;    *)
(* here w is the width, 16 or 8.  A result is [val, n, z, v, c].           *)
(*                                                                         *)
(* Operands are numbers below 2^w.  Where the code works on the bits of an *)
(* int32 (logic and shifts), a value is the set of the bits that are 1.    *)
(***************************************************************************)
EXTENDS Integers, FiniteSets, FiniteSetsExt

Sign(d, w) == d >= 2^(w - 1)

Result(d, w, v, c) == [val |-> d, n |-> Sign(d, w), z |-> d = 0, v |-> v, c |-> c]

Bits(d) == {i \in 0 .. 15 : (d \div 2^i) % 2 = 1}
Number(S) == MapThenSumSet(LAMBDA i : 2^i, S)

Bit(b) == IF b THEN 1 ELSE 0

-----------------------------------------------------------------------------
(* One operand.  cc is the condition codes before. *)

(* Mutant: INC also sets the carry. *)
IncrementCarries(op, d, cc, w) ==
    LET r == (d + 1) % 2^w IN Result(r, w, r = 2^(w - 1), r = 0)

Increment(op, d, cc, w) ==
    IF op = "INC"
    THEN LET r == (d + 1) % 2^w IN Result(r, w, r = 2^(w - 1), cc.c)
    ELSE LET r == (d - 1) % 2^w IN Result(r, w, r = 2^(w - 1) - 1, cc.c)

(* NEG, ADC, SBC: what is added or subtracted is at most a carry. *)
Carry(op, d, cc, w) ==
    CASE op = "NEG" -> LET r == (-d) % 2^w IN Result(r, w, r = 2^(w - 1), r # 0)
      [] op = "ADC" -> LET r == (d + Bit(cc.c)) % 2^w
                       IN Result(r, w, cc.c /\ r = 2^(w - 1), cc.c /\ r = 0)
      [] op = "SBC" -> LET r == (d - Bit(cc.c)) % 2^w
                       IN Result(r, w, cc.c /\ r = 2^(w - 1) - 1, cc.c /\ r = 2^w - 1)

(* Rotations and shifts by one; V is N exclusive or C. *)
Shift1(op, d, cc, w) ==
    LET r == CASE op = "ROR" -> (d \div 2) + Bit(cc.c) * 2^(w - 1)
               [] op = "ROL" -> (2 * d + Bit(cc.c)) % 2^w
               [] op = "ASR" -> (d \div 2) + Bit(Sign(d, w)) * 2^(w - 1)
               [] op = "ASL" -> (2 * d) % 2^w
        c == IF op \in {"ROR", "ASR"} THEN d % 2 = 1 ELSE Sign(d, w)
    IN Result(r, w, Sign(r, w) # c, c)

Single(op, d, cc, w) ==
    CASE op = "CLR" -> Result(0, w, FALSE, FALSE)
      [] op = "COM" -> Result(2^w - 1 - d, w, FALSE, TRUE)
      [] op = "TST" -> Result(d, w, FALSE, FALSE)
      [] op = "SXT" -> [Result(IF cc.n THEN 2^w - 1 ELSE 0, w, FALSE, cc.c) EXCEPT !.n = cc.n]
      [] op \in {"INC", "DEC"} -> Increment(op, d, cc, w)
      [] op \in {"NEG", "ADC", "SBC"} -> Carry(op, d, cc, w)
      [] op \in {"ROR", "ROL", "ASR", "ASL"} -> Shift1(op, d, cc, w)

(* SWAB looks at the low byte of its result. *)
Swab(d) ==
    LET low == d \div 256
    IN [Result(low, 8, FALSE, FALSE) EXCEPT !.val = (d % 256) * 256 + low]

(* The branches of opcode 0 and of opcode 10, by the bits <10:8> of the    *)
(* instruction. *)
TakenLow(op, cc) ==
    CASE op = "BR"  -> TRUE
      [] op = "BNE" -> ~cc.z            [] op = "BEQ" -> cc.z
      [] op = "BGE" -> cc.n = cc.v      [] op = "BLT" -> cc.n # cc.v
      [] op = "BGT" -> ~cc.z /\ cc.n = cc.v
      [] op = "BLE" -> cc.z \/ cc.n # cc.v
TakenHigh(op, cc) ==
    CASE op = "BPL" -> ~cc.n            [] op = "BMI" -> cc.n
      [] op = "BHI" -> ~cc.c /\ ~cc.z   [] op = "BLOS" -> cc.c \/ cc.z
      [] op = "BVC" -> ~cc.v            [] op = "BVS" -> cc.v
      [] op = "BCC" -> ~cc.c            [] op = "BCS" -> cc.c

(* BRANCH_F and BRANCH_B: an eight bit displacement in words. *)
Target(pc, disp) == (pc + 2 * (IF disp < 128 THEN disp ELSE disp - 256)) % 65536

-----------------------------------------------------------------------------
(* Two operands: s is the source, d the destination. *)

(* Mutant: the overflow of CMP with the sign test of SUB. *)
CompareAsSub(s, d, w) ==
    LET r == (s - d) % 2^w
    IN Result(r, w, Sign(s, w) # Sign(d, w) /\ Sign(s, w) = Sign(r, w), s < d)

Compare(s, d, w) ==
    LET r == (s - d) % 2^w
    IN Result(r, w, Sign(s, w) # Sign(d, w) /\ Sign(d, w) = Sign(r, w), s < d)

Add(s, d) ==
    LET r == (d + s) % 65536
    IN Result(r, 16, Sign(s, 16) = Sign(d, 16) /\ Sign(s, 16) # Sign(r, 16), r < s)

Subtract(s, d) ==
    LET r == (d - s) % 65536
    IN Result(r, 16, Sign(s, 16) # Sign(d, 16) /\ Sign(s, 16) = Sign(r, 16), d < s)

Double(op, s, d, cc, w) ==
    CASE op = "MOV" -> Result(s, w, FALSE, cc.c)
      [] op = "CMP" -> Compare(s, d, w)
      [] op = "BIT" -> Result(Number(Bits(d) \cap Bits(s)), w, FALSE, cc.c)
      [] op = "BIC" -> Result(Number(Bits(d) \ Bits(s)), w, FALSE, cc.c)
      [] op = "BIS" -> Result(Number(Bits(d) \cup Bits(s)), w, FALSE, cc.c)
      [] op = "XOR" -> Result(Number(SymDiff(Bits(d), Bits(s))), w, FALSE, cc.c)
      [] op = "ADD" -> Add(s, d)
      [] op = "SUB" -> Subtract(s, d)

-----------------------------------------------------------------------------
(* The extended instructions: `hi` and `lo` are R and R|1.  Their results  *)
(* have both registers, or keep them.                                      *)

Signed(d, w) == IF Sign(d, w) THEN d - 2^w ELSE d

Codes(n, z, v, c) == [n |-> n, z |-> z, v |-> v, c |-> c]

Mul(r, s) ==
    LET p == Signed(r, 16) * Signed(s, 16)
    IN [hi |-> (p \div 65536) % 65536, lo |-> p % 65536,
        cc |-> Codes(p < 0, p = 0, FALSE, p > 32767 \/ p < -32768)]

(* C's division goes to zero. *)
Quotient(a, b) ==
    LET m == (IF a < 0 THEN -a ELSE a) \div (IF b < 0 THEN -b ELSE b)
    IN IF (a < 0) # (b < 0) THEN -m ELSE m

(* Mutant: the quotient -32768 is taken for an overflow. *)
TooLargeNarrow(q) == q > 32767 \/ q <= -32768

TooLarge(q) == q > 32767 \/ q < -32768

(* The dividend -2^31 never has a quotient of 16 bits; taking its absolute *)
(* value is beyond the numbers of TLC, so its two outcomes are written out.*)
Div(hi, lo, s) ==
    IF s = 0
    THEN [hi |-> hi, lo |-> lo, cc |-> Codes(FALSE, TRUE, TRUE, TRUE)]
    ELSE IF hi = 32768 /\ lo = 0
    THEN [hi |-> hi, lo |-> lo, cc |-> Codes(s < 32768, FALSE, TRUE, FALSE)]
    ELSE LET a == Signed(hi, 16) * 65536 + lo
             b == Signed(s, 16)
             q == Quotient(a, b)
         IN IF TooLarge(q)
            THEN [hi |-> hi, lo |-> lo, cc |-> Codes(q < 0, FALSE, TRUE, FALSE)]
            ELSE [hi |-> q % 65536, lo |-> (a - b * q) % 65536,
                  cc |-> Codes(q < 0, q = 0, FALSE, FALSE)]

(* int32 as the set of its bits: << and the arithmetic >>. *)
Int32(d) == Bits(d) \cup (IF Sign(d, 16) THEN 16 .. 31 ELSE {})
Shl(S, n) == {i + n : i \in {i \in S : i + n <= 31}}
Sar(S, n) == {i - n : i \in {i \in S : i >= n}}
                 \cup (IF 31 \in S THEN (32 - n) .. 31 ELSE {})
Minus(b) == IF b THEN 0 .. 31 ELSE {}          \* -1 or 0

Low16(S) == S \cap 0 .. 15

(* Mutant: every bit is lost without an overflow. *)
AshOverflowsLate(n, src, out, dst) ==
    n \in 1 .. 15 /\ out # (IF 15 \in dst THEN 0 .. 15 ELSE {})

AshOverflows(n, src, out, dst) ==
    CASE n \in 1 .. 15  -> out # (IF 15 \in dst THEN 0 .. 15 ELSE {})
      [] n \in 16 .. 31 -> src # {}
      [] OTHER          -> FALSE

(* The shift by the six bits n: left up to 31, right from 32 to 63. *)
Ash(r, n) ==
    LET sign == Sign(r, 16)
        src  == Int32(r)
        out  == Low16(Sar(src, 16 - n))
        dst  == CASE n = 0        -> src
                  [] n \in 1 .. 15  -> Shl(src, n)
                  [] n \in 16 .. 31 -> {}
                  [] n = 32       -> Minus(sign)
                  [] n \in 33 .. 63 -> Sar(src, 64 - n) \cup Shl(Minus(sign), n - 32)
        c    == CASE n = 0        -> FALSE
                  [] n \in 1 .. 15  -> 0 \in out
                  [] n \in 16 .. 31 -> 0 \in Shl(src, n - 16)
                  [] n = 32       -> sign
                  [] n \in 33 .. 63 -> 0 \in Sar(src, 63 - n)
        res  == Low16(dst)
    IN [val |-> Number(res), cc |-> Codes(15 \in res, res = {}, AshOverflows(n, src, out, dst), c)]

(* Mutant: only the last bit that is shifted out is compared. *)
LosesLastOnly(out, sign) == (0 \in out) # sign

(* The bits shifted out are not all the sign of the result. *)
Loses(out, sign) == out # Minus(sign)

Ashc(hi, lo, n) ==
    LET sign == Sign(hi, 16)
        src  == {i + 16 : i \in Bits(hi)} \cup Bits(lo)
        out  == Sar(src, 32 - n) \cup Shl(Minus(sign), n)
        dst  == CASE n = 0        -> src
                  [] n \in 1 .. 31  -> Shl(src, n)
                  [] n = 32       -> Minus(sign)
                  [] n \in 33 .. 63 -> Sar(src, 64 - n) \cup Shl(Minus(sign), n - 32)
        c    == CASE n = 0        -> FALSE
                  [] n \in 1 .. 31  -> 0 \in out
                  [] n = 32       -> sign
                  [] n \in 33 .. 63 -> 0 \in Sar(src, 63 - n)
    IN [hi |-> Number({i - 16 : i \in dst \ (0 .. 15)}), lo |-> Number(Low16(dst)),
        cc |-> Codes(31 \in dst, dst = {},
                     n \in 1 .. 31 /\ Loses(out, 31 \in dst), c)]
=============================================================================
