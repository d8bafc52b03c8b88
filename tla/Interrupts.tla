----------------------------- MODULE Interrupts -----------------------------
(***************************************************************************)
(* The interrupt system: the request words and their arbitration           *)
(* (pdp11_io.c), the program interrupt register, and the part of the CPU   *)
(* loop that samples requests (pdp11_cpu.c, sim_instr).                    *)
(*                                                                         *)
(* The loop does not look at the requests themselves: it looks at the      *)
(* TRAP_INT bit of trap_req, which every piece of code that changes a      *)
(* request or the priority has to bring up to date.                        *)
(*                                                                         *)
(* `phase` is "fetch" at the top of the loop and "events" inside           *)
(* sim_process_event.  An instruction is one step, with at most one        *)
(* register access.  All other traps are one bit.                          *)
(***************************************************************************)
EXTENDS Integers

CONSTANTS
    Device,        \* requests that devices raise
    Pir,           \* the program interrupt requests
    Internal,      \* device requests of the CPU board (INT_INTERNAL)
    BR,            \* the level of each request
    Slot,          \* its bit in the level's request word
    Level          \* the priorities that programs set

Source == Device \cup Pir

(* IPL_HMIN: on a Qbus, above it only the CPU board interrupts. *)
HMin == 4

ASSUME InterruptsAssumption ==
    /\ Device \cap Pir = {} /\ Internal \subseteq Device
    /\ 0 \in Level /\ Level \subseteq 0 .. 7
    /\ BR \in [Source -> 1 .. 7] /\ Slot \in [Source -> 0 .. 31]
    /\ \A s, t \in Source : BR[s] = BR[t] /\ Slot[s] = Slot[t] => s = t

VARIABLES
    intReq,        \* int_req: the requests that are up
    pirq,          \* PIRQ: the requests the program has set
    ipl,           \* the processor priority
    trapInt,       \* the TRAP_INT bit of trap_req
    trap,          \* some bit of TRAP_ALL is set in trap_req
    waiting,       \* wait_state
    phase

ivars == <<intReq, pirq, ipl, trapInt, trap, waiting, phase>>

(* What gets through at priority nipl. *)
Seen(req, nipl) ==
    {s \in req : BR[s] > nipl /\ (nipl >= HMin => s \in Internal \cup Pir)}

calc_ints(req, nipl) == Seen(req, nipl) # {}

(* The request that is acknowledged: highest level, then lowest bit. *)
get_vector(req, nipl) ==
    CHOOSE s \in Seen(req, nipl) :
        \A t \in Seen(req, nipl) :
            BR[t] < BR[s] \/ (BR[t] = BR[s] /\ Slot[s] <= Slot[t])

(* put_PIRQ makes the requests equal to the register. *)
put_PIRQ(req, p) == (req \ Pir) \cup p

IInit ==
    /\ intReq = {} /\ pirq = {}
    /\ ipl = 0
    /\ trapInt = FALSE /\ trap = FALSE /\ waiting = FALSE
    /\ phase = "fetch"

-----------------------------------------------------------------------------
(* The top of the loop, in the order of its tests. *)

(* sim_interval has run out. *)
BeginEvents ==
    /\ phase = "fetch"
    /\ phase' = "events"
    /\ UNCHANGED <<intReq, pirq, ipl, trapInt, trap, waiting>>

(* Mutant: the interrupt bit is not recalculated after the events. *)
EndEventsStale ==
    /\ phase = "events"
    /\ phase' = "fetch"
    /\ intReq' = put_PIRQ(intReq, pirq)
    /\ UNCHANGED <<pirq, ipl, trapInt, trap, waiting>>

(* Back from sim_process_event: PIRQ is rewritten, TRAP_INT recalculated. *)
EndEvents ==
    /\ phase = "events"
    /\ phase' = "fetch"
    /\ intReq' = put_PIRQ(intReq, pirq)
    /\ trapInt' = calc_ints(intReq', ipl)
    /\ UNCHANGED <<pirq, ipl, trap, waiting>>

(* A trap goes before an interrupt.  The new PSW gives any priority, and   *)
(* there may be another trap after it, or a stack trap.  A red zone trap   *)
(* and an abort of the accesses to vector and stack (which leaves the      *)
(* priority as it was) stop sim_instr, and the main program calls it again.*)
TakeTrap ==
    /\ phase = "fetch" /\ trap
    /\ waiting' = FALSE
    /\ intReq' \in {intReq, put_PIRQ(intReq, pirq)}
    /\ \E l \in Level : /\ ipl' = l
                       /\ trapInt' = calc_ints(intReq', l)
    /\ trap' \in BOOLEAN
    /\ UNCHANGED <<pirq, phase>>

Acknowledges(s) ==
    /\ phase = "fetch" /\ ~trap /\ trapInt
    /\ calc_ints(intReq, ipl)
    /\ s = get_vector(intReq, ipl)
    /\ waiting' = FALSE
    /\ UNCHANGED <<pirq, phase>>

TakeInterrupt(s, l) ==
    /\ Acknowledges(s)
    /\ intReq' = intReq \ {s}
    /\ ipl' = l
    /\ trapInt' = calc_ints(intReq', l)
    /\ trap' \in BOOLEAN

(* The request is acknowledged, but the accesses to its vector or stack    *)
(* abort: sim_instr ends and is called again.                              *)
InterruptAborts(s) ==
    /\ Acknowledges(s)
    /\ intReq' = put_PIRQ(intReq \ {s}, pirq)
    /\ trapInt' = calc_ints(intReq', ipl)
    /\ trap' = TRUE
    /\ UNCHANGED ipl

(* No vector found: TRAP_INT was stale. *)
NothingToDo ==
    /\ phase = "fetch" /\ ~trap /\ trapInt
    /\ ~calc_ints(intReq, ipl)
    /\ trapInt' = FALSE
    /\ UNCHANGED <<intReq, pirq, ipl, trap, waiting, phase>>

-----------------------------------------------------------------------------
(* Instructions. *)

Executes == phase = "fetch" /\ ~trap /\ ~trapInt /\ ~waiting

(* SPL, MTPS, RTI, RTT and writes of the PSW; an abort or the T bit may    *)
(* follow, here and after a register access.                               *)
SetPriority(l) ==
    /\ Executes
    /\ ipl' = l
    /\ trapInt' = calc_ints(intReq, l)
    /\ trap' \in BOOLEAN
    /\ UNCHANGED <<intReq, pirq, waiting, phase>>

(* An access to a device register leaves the requests req. *)
RegisterAccess(req) ==
    /\ Executes
    /\ intReq' = req
    /\ trapInt' = calc_ints(req, ipl)
    /\ trap' \in BOOLEAN
    /\ UNCHANGED <<pirq, ipl, waiting, phase>>

WritePirq ==
    \E p \in SUBSET Pir :
        /\ Executes
        /\ pirq' = p
        /\ intReq' = put_PIRQ(intReq, p)
        /\ trapInt' = calc_ints(intReq', ipl)
        /\ trap' \in BOOLEAN
        /\ UNCHANGED <<ipl, waiting, phase>>

WaitInstruction ==
    /\ Executes
    /\ waiting' = TRUE
    /\ UNCHANGED <<intReq, pirq, ipl, trapInt, trap, phase>>

(* A trap instruction, an abort, or the T bit, which traps in WAIT as well. *)
Traps ==
    /\ phase = "fetch" /\ ~trap /\ ~trapInt
    /\ trap' = TRUE
    /\ UNCHANGED <<intReq, pirq, ipl, trapInt, waiting, phase>>

(* HALT leaves sim_instr; the main program calls it again. *)
Halt ==
    /\ Executes
    /\ intReq' = put_PIRQ(intReq, pirq)
    /\ trapInt' = calc_ints(intReq', ipl)
    /\ UNCHANGED <<pirq, ipl, trap, waiting, phase>>

(* RESET, after the reset routines of the devices. *)
ResetInstruction ==
    /\ Executes
    /\ intReq' = {} /\ pirq' = {}
    /\ trapInt' = FALSE
    /\ UNCHANGED <<ipl, trap, waiting, phase>>

CpuOnly ==
    \/ BeginEvents \/ EndEvents \/ TakeTrap \/ NothingToDo
    \/ WritePirq \/ WaitInstruction \/ Traps \/ Halt
    \/ \E s \in Source : InterruptAborts(s)
=============================================================================
