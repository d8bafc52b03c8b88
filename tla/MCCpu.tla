------------------------------- MODULE MCCpu -------------------------------
(***************************************************************************)
(* One instruction of a user or supervisor program, with pages that are    *)
(* not resident or not writable when it starts.  The operating system does *)
(* what every PDP-11 system does: on a memory management trap it takes     *)
(* back the register changes that MMR1 reports, makes the page available,  *)
(* sets the saved PC to MMR2 and returns.                                  *)
(*                                                                         *)
(* `goal` is what a program sees of the state that the instruction reaches *)
(* with every page there.                                                  *)
(***************************************************************************)
EXTENDS Cpu

CONSTANT MaxInterrupts     \* interrupts during one run

VARIABLES
    ir,        \* the instruction
    goal,      \* the visible state it reaches with every page there
    ended,     \* it was executed without a memory management abort
    irq        \* interrupts so far

vars == <<cpu, ir, goal, ended, irq>>

-----------------------------------------------------------------------------
(* The programs.  Operands are addressed through R1, SP and PC.            *)

Low  == {\o1, \o11, \o21, \o31, \o41, \o51, \o61, \o71}
All  == Low \cup {\o26, \o36, \o46, \o27, \o37, \o67, \o77}
Some == {\o1, \o21, \o31, \o41, \o51, \o26, \o46, \o27}

Ir(op, src, dst, w) == [op |-> op, src |-> src, dst |-> dst, w |-> w, bits |-> {"n", "c"}]

Doubles == {Ir(op, s, d, 16) : op \in {"MOV", "CMP", "ADD"}, s \in Some, d \in Some}
               \cup {Ir(op, s, d, 8) : op \in {"MOV", "BIC"}, s \in {\o21, \o41, \o26, \o27},
                                       d \in {\o1, \o21, \o41, \o46, \o61}}
Singles == {Ir(op, 0, d, w) : op \in {"CLR", "INC", "TST", "ROL"}, d \in All, w \in {8, 16}}
               \cup {Ir("SWAB", 0, d, 16) : d \in All}
Others ==
    UNION {{Ir(op, 2, d, 16) : d \in All} :
               op \in {"MUL", "DIV", "ASH", "ASHC", "XOR", "MFPI", "MFPD", "MTPI", "MTPD", "TSTSET",
                       "WRTLCK", "MTPS", "MFPS", "CSM"}}
        \cup {Ir(op, s, d, 16) : op \in {"JMP", "JSR"}, s \in {5, 6, 7}, d \in All \cup {1}}
        \cup {Ir(op, 5, d, 16) : op \in {"RTS", "MARK", "SOB"}, d \in {5, 6, 7}}
        \cup {Ir(op, 1, 2, 16) : op \in {"RTI", "RTT", "SEC", "CLC", "BPT", "IOT", "EMT", "TRAP", "HALT",
                                          "WAIT", "RESET", "SPL", "MFPT", "ILL", "BNE", "BEQ", "SXT"}}

(* Floating point; bit 7 of fps, for double, is in w. *)
Floats ==
    {[Ir(op, 1, d, w) EXCEPT !.bits = {}] : op \in {"CLRf", "TSTf", "NEGf", "LDf", "STf", "STEXP", "STST"},
                          d \in All \cup {7}, w \in {32, 64}}
        \cup {Ir(op, 1, d, 32) : op \in {"LDFPS", "STFPS", "ABSf"}, d \in {\o1, \o31, \o46, \o51, \o27}}
        \cup {Ir(op, 1, 0, 32) : op \in {"CFCC", "SETF", "SETD", "SETI", "SETL", "FILL"}}

(* The words that follow: an index to the data, or an immediate operand. *)
Extra(spec) ==
    CASE spec = \o27 -> <<5>>  [] spec = \o37 -> <<\o120000>>
      [] spec \in {\o61, \o71} -> <<0>>  [] spec \in {\o67, \o77} -> <<\o60000>>
      [] OTHER -> <<>>

(* MOV to the PSW and to MMR3, which page 7 reaches: another mode and      *)
(* register set; data spaces for user and supervisor mode. *)
Registers == {<<\o44004, \o177776>>, <<\o150000, \o177776>>, <<3, \o172516>>, <<0, \o172516>>}

Program(i, words) == [ir |-> i, words |-> words]
Programs == {Program(i, Extra(i.src) \o Extra(i.dst)) : i \in Doubles}
                \cup {Program(i, Extra(i.dst)) : i \in Singles \cup Others \cup Floats}
                \cup {Program(Ir("LDf", 1, \o27, w), <<\o100000>>) : w \in {32, 64}}
                \cup {Program(Ir("MOV", \o27, \o37, 16), words) : words \in Registers}

-----------------------------------------------------------------------------
(* The machine at the start.  User and supervisor page k is physical page  *)
(* 8 + k; the code crosses from page 1 to page 2, R1 and SP are at the     *)
(* start of pages 4 and 6, and pointers lead to page 5.                    *)

Code == \o37776
Phys(a) == (a + 65536) \div 2
Data(old) ==
    (Phys(\o77776) :> \o120000) @@ (Phys(\o100000) :> \o120000) @@ (Phys(\o140000) :> \o120000)
        @@ (Phys(\o140002) :> old) @@ (Phys(\o120002) :> \o120000) @@ (Phys(\o120000) :> 3)
        @@ (Phys(\o137776) :> \o120000)

AbortHandler  == \o2000
ReturnHandler == \o2002
OtherHandler  == \o2004
Vectors ==
    [a \in {v \div 2 : v \in {\o4, \o10, \o20, \o24, \o30, \o34, \o244}} |-> OtherHandler]
        @@ (\o250 \div 2 :> AbortHandler) @@ (\o14 \div 2 :> ReturnHandler)
        @@ (\o60 \div 2 :> ReturnHandler)
Level7 == [a \in {i + 1 : i \in DOMAIN Vectors} |-> \o340]
Rtt == Ir("RTT", 0, 0, 16)

Page(par, acf) == [par |-> par, acf |-> acf, ed |-> FALSE, plf |-> 127, w |-> FALSE]

(* Sets of pages that are unavailable, and how: their access fields. *)
Unavailable ==
    {[k \in F |-> 0] : F \in {{}, {1}, {2}, {3}, {4}, {5}, {6}, {1, 2}, {2, 4}, {3, 5}, {4, 5},
                               {4, 6}, {5, 6}}}
        \cup {[k \in {p} |-> 2] : p \in 3 .. 6}

(* The pages of a program of mode md: those of the spaces in use, and of   *)
(* the kernel the vectors with the handlers, the odd stack and the I/O     *)
(* page. *)
Pages(md, spaces) ==
    {i \in {KER, SUP, USR} \X BOOLEAN \X (0 .. 7) :
        /\ i[2] => i[1] \in spaces
        /\ i[1] = KER /\ md # KER => i[3] \in {0, 3, 7}}
PageTable(k, bad) ==
    [i \in Pages(k[1], k[4]) |->
        IF i[3] = 7 THEN Page(\o7600, 6)
        ELSE IF i[1] = KER THEN Page(128 * i[3], 6)
        ELSE Page(1024 + 128 * i[3], IF i[3] \in DOMAIN bad THEN bad[i[3]] ELSE 6)]

(* Mode, register set, trace bit and the modes with a data space. *)
Modes == {<<SUP, 0, FALSE, {}>>, <<USR, 0, FALSE, {}>>, <<USR, 1, TRUE, {USR, KER}>>,
          <<KER, 1, FALSE, {KER}>>}

Tables == [x \in Modes \X Unavailable |-> PageTable(x[1], x[2])]
Kernel == Vectors @@ Level7 @@ (AbortHandler \div 2 :> Rtt) @@ (ReturnHandler \div 2 :> Rtt)
Accumulators == [i \in 0 .. 5 |-> [k \in 1 .. 4 |-> 16384 + 4096 * i + k]]

Machine(p, k, ksp, old, bad) ==
    LET md == k[1]
    IN
    [r |-> [n \in 0 .. 7 |-> CASE n = PC -> Code [] n = SP -> (IF md = KER THEN ksp ELSE \o140000) [] n = 1 -> \o100000
                               [] n = 5 -> \o120000 [] OTHER -> n],
     regfile |-> [s \in 0 .. 1 |-> [n \in 0 .. 5 |-> 100 + n]],
     stack |-> [m \in {KER, SUP, 2, USR} |-> IF m = KER THEN ksp ELSE \o10000 * m],
     cm |-> md, pm |-> IF md = KER THEN SUP ELSE USR, rs |-> k[2], fpd |-> FALSE, ipl |-> 0, t |-> k[3],
     cc |-> Codes(FALSE, FALSE, TRUE, TRUE),
     mme |-> TRUE, err |-> {}, page |-> <<KER, FALSE, 0>>, mmr1 |-> <<>>, mmr2 |-> 0, mods |-> <<>>,
     dspace |-> k[4], csm |-> TRUE, m22 |-> FALSE,
     apr |-> Tables[<<k, bad>>],
     mem |-> (Phys(Code) :> p.ir) @@ (Code \div 2 :> p.ir)
                 @@ [n \in {Phys(Code) + j : j \in DOMAIN p.words} |-> p.words[n - Phys(Code)]]
                 @@ Data(old) @@ Kernel,
     trap |-> {}, cpuerr |-> {}, last_pa |-> 0, pa |-> 0, val |-> 0, ea |-> Va(0, calc_is(md)),
     fr |-> Accumulators,
     fps |-> (IF p.ir.w = 64 THEN {FD, FIUV} ELSE {FIUV}), fec |-> 0, fea |-> 0, backup |-> 0,
     change |-> [reg |-> 0, delta |-> 0], words |-> <<>>,
     src |-> 0, abort |-> None, wait |-> FALSE,
     isenable |-> calc_is(md), dsenable |-> <<md, md \in k[4]>>]

(* What a program can see of a state. *)
Visible(c) ==
    [r |-> c.r, set |-> RegisterOf(c, 1 - c.rs),
     stack |-> [md \in {SUP, USR} |-> StackOf(c, md)],
     psw |-> get_PSW(c), fr |-> c.fr, fps |-> c.fps, fec |-> <<c.fec, c.fea>>, wait |-> c.wait, trap |-> c.trap,
     mem |-> [a \in {b \in DOMAIN c.mem : b >= 32768} |-> c.mem[a]]]

(* Old PSWs for RTI: supervisor mode, set 1, priority 7, all codes; kernel *)
(* mode, priority 7, traced.  *)
OldPsws(i) == {\o54357} \cup (IF i.op \in {"RTI", "RTT"} THEN {\o377} ELSE {})

(* Kernel stacks: a good one, one at the limit, one that is odd. *)
KernelStacks(md, bad) ==
    {\o1000} \cup (IF bad = <<>> \/ DOMAIN bad = {4} THEN {\o402, \o60001} ELSE {})

Init ==
    \E p \in Programs, k \in Modes, bad \in Unavailable :
        \E old \in OldPsws(p.ir), ksp \in KernelStacks(k[1], bad) :
            LET m(b) == Machine(p, k, ksp, old, b)
            IN /\ k[1] = KER => bad = <<>> /\ (p.ir.op = "JSR" => p.ir.src # SP)
               /\ k[1] # USR => p.ir \in Others
               /\ p.ir \in Floats => k[2] = 0
               /\ ir = p.ir
               /\ cpu = m(bad)
               /\ goal = Visible(Executed(m(<<>>)))
               /\ ended = FALSE
               /\ irq = 0

-----------------------------------------------------------------------------
(* The operating system, at its handler of memory management traps. *)

Undone(regs, mods) ==
    [n \in DOMAIN regs |->
        (regs[n] - FoldSeq(LAMBDA m, sum : sum + IF m.reg = n THEN m.delta ELSE 0, 0, mods)) % 65536]

(* The saved PSW tells whose registers they are. *)
Repairing == cpu.cm = KER /\ cpu.r[PC] = AbortHandler /\ cpu.err # {} /\ cpu.trap = {}
                  /\ cpu.pm # KER
Repair ==
    /\ Repairing
    /\ LET saved == cpu.r[SP] \div 2
           psw   == cpu.mem[saved + 1]
           md    == Field(psw, 14, 2)
           rs    == Field(psw, 11, 1)
           own   == [n \in 0 .. 6 |-> IF n = SP THEN cpu.stack[md] ELSE RegisterOf(cpu, rs)[n]]
           new   == Undone(own, cpu.mmr1)
           regs  == [n \in 0 .. 5 |-> new[n]]
       IN cpu' = [cpu EXCEPT !.r = IF rs = cpu.rs THEN regs @@ @ ELSE @,
                             !.regfile[rs] = IF rs = cpu.rs THEN @ ELSE regs,
                             !.stack[md] = new[SP],
                             !.mem[saved] = cpu.mmr2,
                             !.apr[cpu.page].acf = 6,
                             !.err = {}]
    /\ UNCHANGED <<ir, goal, ended, irq>>

Handling == cpu.cm = KER /\ cpu.r[PC] \in {AbortHandler, ReturnHandler}

(* An instruction of the program, or the RTT of a handler. *)
Run ==
    /\ IF Handling THEN cpu.err = {} ELSE ~ended /\ (cpu.cm # KER \/ cpu.r[PC] = Code)
    /\ Instruction
    /\ ended' = (ended \/ (~Handling /\ "MME" \notin cpu'.trap))
    /\ UNCHANGED <<ir, goal, irq>>

Trapped == Trap /\ UNCHANGED <<ir, goal, ended, irq>>

Interrupted ==
    /\ ~ended /\ cpu.cm = SUP /\ irq < MaxInterrupts
    /\ Interrupt(\o60)
    /\ irq' = irq + 1
    /\ UNCHANGED <<ir, goal, ended>>

Next == Repair \/ Run \/ Trapped \/ Interrupted

Spec == Init /\ [][Next]_vars

-----------------------------------------------------------------------------
(* MFPS has changed the condition codes when its destination aborts; CSM   *)
(* has changed mode and stack when the read of its vector aborts.          *)
NotRestartable(i) == (i.op = "MFPS" /\ ~Direct(i.dst)) \/ i.op = "CSM"

(* However many of its references abort, an instruction that the operating *)
(* system restarts from MMR1 and MMR2 has the effect it has when none      *)
(* does: no register is stepped twice or not at all, no word is written    *)
(* early, the other register set and the other stacks are untouched, and   *)
(* one trace trap follows it.                                              *)
RestartExact ==
    [][~ended /\ ended' /\ ~NotRestartable(ir) => Visible(cpu') = goal]_vars

(* A word of memory changes only through a page whose W bit is then set:   *)
(* what the system reads from W, to write a page back or to drop it, is    *)
(* not older than the page. *)
Backed(c, a) == \E i \in DOMAIN c.apr :
                   c.apr[i].w /\ 2 * a >= 64 * c.apr[i].par /\ 2 * a < 64 * c.apr[i].par + 8192
DirtyTracked ==
    [][cpu.mme /\ ~Repairing /\ cpu'.mem # cpu.mem =>
          \A a \in DOMAIN cpu'.mem :
              (a \notin DOMAIN cpu.mem \/ cpu'.mem[a] # cpu.mem[a]) => Backed(cpu', a)]_vars

(* An abort of a push on the kernel stack, which starts a new stack at 4,  *)
(* leaves the interrupted program as it was, for the trap through vector 4 *)
(* to save. *)
StackAbortKeepsProgram ==
    [][cpu.abort = None /\ "RED" \in cpu'.trap /\ "RED" \notin cpu.trap =>
          /\ \A n \in 0 .. 7 : n # SP \/ cpu.cm # KER => cpu'.r[n] = cpu.r[n]
          /\ get_PSW(cpu') = get_PSW(cpu)
          /\ \A md \in {SUP, USR} : StackOf(cpu', md) = StackOf(cpu, md)]_vars
=============================================================================
