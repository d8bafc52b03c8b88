----------------------------- MODULE CisStrings -----------------------------
(***************************************************************************)
(* The character string instructions of pdp11_cis.c.  They run long, so    *)
(* they look for interrupts every INT_TEST characters: then the            *)
(* instruction is left with all it needs in registers R0-R5 and on the     *)
(* stack, PC is put back, and with FPD set it goes on where it was.        *)
(*                                                                         *)
(* cis is the processor: r its registers, stack the words below its stack  *)
(* pointer, top first, which the handler of an interrupt leaves as it      *)
(* finds them.  at, i, back and match are the local variables.  The stack  *)
(* is apart from memory, which is all there.  LD2R and LD3R are left out.  *)
(***************************************************************************)
EXTENDS Integers, Sequences

CONSTANTS
    AddressSpace,     \* 65536
    INT_TEST,         \* 100
    Instructions      \* what is executed: op, inline, registers, arguments, memory

VARIABLES cis, cismem

cisvars == <<cis, cismem>>

Moves  == {"MOVC", "MOVRC", "MOVTC"}
Byte   == 256
Word(x) == x % AddressSpace

(* Condition codes of a - b in w values. *)
Compared(a, b, w) ==
    LET neg(x) == x % w >= w \div 2
    IN [n |-> neg(a - b), z |-> a = b, v |-> neg(a) # neg(b) /\ neg(b) = neg(a - b), c |-> a < b]

(* Of the length that is left.                                             *)
Left(r0) == [n |-> r0 >= AddressSpace \div 2, z |-> r0 = 0, v |-> FALSE, c |-> FALSE]

(* Inline: the registers the instruction saves, and those it loads from    *)
(* its arguments.                                                          *)
Saved(op) ==
    CASE op \in Moves -> <<0, 1, 2, 3, 4, 5>>  [] op \in {"LOCC", "SKPC"} -> <<4>>
      [] op \in {"SCANC", "SPANC"} -> <<4, 5>> [] op = "CMPC" -> <<0, 1, 2, 3, 4>>
      [] op = "MATC" -> <<2, 3>>
Loaded(op) ==
    CASE op \in Moves -> 0 .. 5                [] op \in {"LOCC", "SKPC"} -> {0, 1, 4}
      [] op \in {"SCANC", "SPANC"} -> {0, 1, 4, 5} [] op = "CMPC" -> 0 .. 4
      [] op = "MATC" -> 0 .. 3

CisInit ==
    \E ins \in Instructions :
        /\ cis = [op |-> ins.op, inline |-> ins.inline, arg |-> ins.arg, r |-> ins.r, stack |-> <<>>,
                  fpd |-> FALSE, at |-> "start", i |-> 0, back |-> FALSE, entered |-> FALSE,
                  match |-> FALSE, cc |-> Left(0), ins |-> ins]
        /\ cismem = ins.mem

-----------------------------------------------------------------------------
(* The first time only: registers to the stack, arguments to the registers *)
(* and, for a move, its length on top of the stack. *)

Arguments(c) ==
    IF ~c.inline THEN c
    ELSE [c EXCEPT !.stack = [k \in 1 .. Len(Saved(c.op)) |-> c.r[Saved(c.op)[k]]] \o @,
                   !.r = [k \in DOMAIN @ |-> IF k \in Loaded(c.op) THEN c.arg[k] ELSE @[k]]]

(* A move goes from its upper end down if the destination is above the     *)
(* source: its addresses then are those behind what is to be moved.        *)
Biased(r, n) == IF r[1] < r[3] THEN [r EXCEPT ![1] = Word(@ + n), ![3] = Word(@ + n)] ELSE r

movx_setup(c0) ==
    LET c == Arguments(c0)
        n == IF c.r[0] < c.r[2] THEN c.r[0] ELSE c.r[2]
        r == IF c.op = "MOVRC" THEN [c.r EXCEPT ![1] = Word(@ + c.r[0] - n), ![3] = Word(@ + c.r[2] - n)]
             ELSE c.r
    IN [c EXCEPT !.stack = <<n>> \o @, !.cc = Compared(c.r[0], c.r[2], AddressSpace),
                 !.r = Biased(r, n)]

(* Mutant: an interrupted instruction is set up again. *)
SetupAgain(c) == [IF c.op \in Moves THEN movx_setup(c) ELSE Arguments(c) EXCEPT !.fpd = TRUE]

Setup(c) ==
    IF c.fpd THEN c ELSE [IF c.op \in Moves THEN movx_setup(c) ELSE Arguments(c) EXCEPT !.fpd = TRUE]

(* The byte in R4. *)
Masked(c) == IF c.op \in Moves \cup {"MATC"} THEN c ELSE [c EXCEPT !.r[4] = @ % Byte]

More(op, r) ==
    CASE op \in Moves -> r[0] # 0 /\ r[2] # 0
      [] op \in {"LOCC", "SKPC", "SCANC", "SPANC"} -> r[0] # 0
      [] op = "CMPC" -> r[0] # 0 \/ r[2] # 0
      [] op = "MATC" -> r[0] >= r[2]

Loop(op, r) == IF More(op, r) THEN "loop" ELSE "end"

(* From the start, or again after an interrupt. *)
CisStart ==
    /\ cis.at = "start"
    /\ LET c == Masked(Setup(cis))
       IN cis' = [c EXCEPT !.at = Loop(c.op, c.r), !.i = 0, !.match = FALSE,
                           !.back = c.r[1] < c.r[3], !.entered = More(c.op, c.r)]
    /\ UNCHANGED cismem

(* After the registers became r: the loop goes on, after INT_TEST          *)
(* characters by way of the test. *)
Goes(r) ==
    cis' = [cis EXCEPT !.r = r, !.i = @ + 1,
                       !.at = IF cis.op = "MATC" \/ (cis.i + 1 >= INT_TEST /\ More(cis.op, r)) THEN "test"
                              ELSE Loop(cis.op, r)]

Shorter(r, len, adr) == [r EXCEPT ![len] = @ - 1, ![adr] = Word(@ + 1)]
Lower(r, len, adr)   == [r EXCEPT ![len] = @ - 1, ![adr] = Word(@ - 1)]

Translated(t) == IF cis.op = "MOVTC" THEN cismem[Word(cis.r[5] + t)] ELSE t

CisMove ==
    /\ cis.at = "loop" /\ cis.op \in Moves
    /\ LET r == cis.r
       IN IF cis.back
            THEN /\ cismem' = [cismem EXCEPT ![Word(r[3] - 1)] = Translated(cismem[Word(r[1] - 1)])]
                 /\ Goes(Lower(Lower(r, 0, 1), 2, 3))
            ELSE /\ cismem' = [cismem EXCEPT ![r[3]] = Translated(cismem[r[1]])]
                 /\ Goes(Shorter(Shorter(r, 0, 1), 2, 3))

(* A character is what LOCC, SKPC, SCANC or SPANC looks for.  A byte has   *)
(* one of the bits of a mask if dividing finds it.                         *)
AnyBit(b, mask) == \E k \in 0 .. 7 : (b \div 2^k) % 2 = 1 /\ (mask \div 2^k) % 2 = 1
Found ==
    LET c == cismem[cis.r[1]]
    IN CASE cis.op = "LOCC" -> c = cis.r[4]
         [] cis.op = "SKPC" -> c # cis.r[4]
         [] cis.op = "SCANC" -> AnyBit(cismem[Word(cis.r[5] + c)], cis.r[4])
         [] cis.op = "SPANC" -> ~AnyBit(cismem[Word(cis.r[5] + c)], cis.r[4])

CisSearch ==
    /\ cis.at = "loop" /\ cis.op \in {"LOCC", "SKPC", "SCANC", "SPANC"}
    /\ IF Found THEN cis' = [cis EXCEPT !.at = "end"] ELSE Goes(Shorter(cis.r, 0, 1))
    /\ UNCHANGED cismem

(* The characters CMPC compares; the fill character stands for the end. *)
Char(len, adr) == IF cis.r[len] # 0 THEN cismem[cis.r[adr]] ELSE cis.r[4]

CisCompare ==
    /\ cis.at = "loop" /\ cis.op = "CMPC"
    /\ LET r1 == IF cis.r[0] # 0 THEN Shorter(cis.r, 0, 1) ELSE cis.r
           r2 == IF cis.r[2] # 0 THEN Shorter(r1, 2, 3) ELSE r1
       IN IF Char(0, 1) # Char(2, 3)
            THEN cis' = [cis EXCEPT !.at = "end", !.cc = Compared(Char(0, 1), Char(2, 3), Byte)]
            ELSE Goes(r2)
    /\ UNCHANGED cismem

CisMatch ==
    /\ cis.at = "loop" /\ cis.op = "MATC"
    /\ IF \A k \in 0 .. cis.r[2] - 1 : cismem[Word(cis.r[1] + k)] = cismem[Word(cis.r[3] + k)]
         THEN cis' = [cis EXCEPT !.at = "end", !.match = TRUE]
         ELSE Goes(Shorter(cis.r, 0, 1))
    /\ UNCHANGED cismem

(* cis_int_test: events are processed; with an interrupt it is backed out, *)
(* and comes again when the handler is done.                               *)
cis_int_test ==
    /\ cis.at = "test"
    /\ \/ cis' = [cis EXCEPT !.i = 0, !.at = Loop(cis.op, cis.r)]
       \/ cis' = [cis EXCEPT !.at = "start"]
    /\ UNCHANGED cismem

-----------------------------------------------------------------------------
(* The end: what the loop leaves behind. *)

Restored(c) ==
    LET regs == Saved(c.op)
    IN [c EXCEPT !.stack = SubSeq(@, Len(regs) + 1, Len(@)),
                 !.r = [k \in DOMAIN @ |-> IF \E p \in DOMAIN regs : regs[p] = k
                                           THEN c.stack[CHOOSE p \in DOMAIN regs : regs[p] = k] ELSE @[k]]]

Ended(c) == [IF c.inline THEN Restored(c) ELSE c EXCEPT !.fpd = FALSE, !.at = "done"]

(* The first cell to fill: to the right of what was moved or, for MOVRC,   *)
(* to the left.  A backward move ends at its left end, a forward one at    *)
(* its right.                                                              *)
FillFrom(c) ==
    LET n == c.stack[1]
    IN IF c.op = "MOVRC"
       THEN Word(c.r[3] - (IF c.entered /\ ~c.back THEN n ELSE 0) - c.r[2])
       ELSE Word(c.r[3] + (IF c.entered /\ c.back THEN n ELSE 0))

CisMoved ==
    /\ cis.at = "end" /\ cis.op \in Moves
    /\ cismem' = [a \in DOMAIN cismem |->
                    IF Word(a - FillFrom(cis)) < cis.r[2] THEN cis.r[4] % Byte ELSE cismem[a]]
    /\ LET c == [cis EXCEPT !.stack = Tail(@)]
       IN cis' = Ended(IF c.inline THEN c ELSE [c EXCEPT !.r[1] = 0, !.r[2] = 0, !.r[3] = 0])

CisEnded ==
    /\ cis.at = "end" /\ cis.op \notin Moves
    /\ LET r == IF cis.op = "MATC" /\ ~cis.match
                  THEN [cis.r EXCEPT ![0] = 0, ![1] = Word(@ + cis.r[0])] ELSE cis.r
           cc == CASE cis.op # "CMPC" -> Left(r[0])
                   [] cis.op = "CMPC" -> IF More("CMPC", r) THEN cis.cc ELSE Left(0)
       IN cis' = Ended([cis EXCEPT !.r = r, !.cc = cc])
    /\ UNCHANGED cismem

CisNext ==
    \/ CisStart \/ CisMove \/ CisSearch \/ CisCompare \/ CisMatch \/ cis_int_test \/ CisMoved \/ CisEnded

-----------------------------------------------------------------------------
(* The reference, from the operands the instruction was given.             *)

Operand(k) == IF cis.ins.inline THEN cis.ins.arg[k] ELSE cis.ins.r[k]
Old(a) == cis.ins.mem[Word(a)]
SrcLen == Operand(0)
DstLen == Operand(2)
MoveLen == IF SrcLen < DstLen THEN SrcLen ELSE DstLen

(* Byte k of the destination. *)
Expected(k) ==
    LET from == IF cis.op = "MOVRC" THEN k - (DstLen - MoveLen) ELSE k
        skip == IF cis.op = "MOVRC" THEN SrcLen - MoveLen ELSE 0
    IN IF from \notin 0 .. MoveLen - 1 THEN Operand(4) % Byte
       ELSE IF cis.op = "MOVTC" THEN Old(Operand(5) + Old(Operand(1) + from))
       ELSE Old(Operand(1) + skip + from)

MovedExactly ==
    /\ \A a \in DOMAIN cismem :
          cismem[a] = IF a - Operand(3) \in 0 .. DstLen - 1 THEN Expected(a - Operand(3)) ELSE Old(a)
    /\ cis.r = IF cis.inline THEN cis.ins.r
               ELSE [cis.ins.r EXCEPT ![0] = SrcLen - MoveLen, ![1] = 0, ![2] = 0, ![3] = 0]
    /\ cis.cc.z = (SrcLen = DstLen) /\ cis.cc.c = (SrcLen < DstLen)

(* The position where a search stops. *)
Stops(k) ==
    LET c == Old(Operand(1) + k)
    IN CASE cis.op = "LOCC" -> c = Operand(4) % Byte
         [] cis.op = "SKPC" -> c # Operand(4) % Byte
         [] cis.op = "SCANC" -> AnyBit(Old(Operand(5) + c), Operand(4) % Byte)
         [] cis.op = "SPANC" -> ~AnyBit(Old(Operand(5) + c), Operand(4) % Byte)
         [] cis.op = "MATC" -> /\ k + DstLen <= SrcLen
                               /\ \A j \in 0 .. DstLen - 1 : Old(Operand(1) + k + j) = Old(Operand(3) + j)

FoundExactly ==
    LET at == {k \in 0 .. SrcLen - 1 : Stops(k)}
        k == IF at = {} THEN SrcLen ELSE CHOOSE j \in at : \A l \in at : j <= l
    IN cis.r[0] = SrcLen - k /\ cis.r[1] = Word(Operand(1) + k) /\ cis.cc.z = (k = SrcLen)

(* Strings are compared as if the shorter one had fill characters.         *)
At(len, adr, k) == IF k < Operand(len) THEN Old(Operand(adr) + k) ELSE Operand(4) % Byte
ComparedExactly ==
    LET longer == IF SrcLen > DstLen THEN SrcLen ELSE DstLen
        differ == {k \in 0 .. longer - 1 : At(0, 1, k) # At(2, 3, k)}
        k == CHOOSE j \in differ : \A l \in differ : j <= l
    IN IF differ = {} THEN cis.cc.z /\ ~cis.cc.c
       ELSE ~cis.cc.z /\ cis.cc.c = (At(0, 1, k) < At(2, 3, k))

(* A string instruction does the same however often it is interrupted and  *)
(* however its strings overlap: what it moves, finds and compares is what  *)
(* it would of the memory it began with, it changes nothing else, and the  *)
(* stack and the registers of an inline one are restored.                  *)
StringsExact ==
    cis.at = "done" =>
        /\ cis.stack = <<>> /\ ~cis.fpd
        /\ IF cis.op \in Moves THEN MovedExactly
           ELSE /\ cismem = cis.ins.mem
                /\ IF cis.op = "CMPC" THEN ComparedExactly ELSE FoundExactly
        /\ cis.inline => \A p \in DOMAIN Saved(cis.op) : cis.r[Saved(cis.op)[p]] = cis.ins.r[Saved(cis.op)[p]]
=============================================================================
