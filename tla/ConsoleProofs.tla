--------------------------- MODULE ConsoleProofs ---------------------------
(***************************************************************************)
(* Proofs about Console, for every set of program interrupt requests, all  *)
(* levels and bits, and rings of every size.                               *)
(*                                                                         *)
(* The four invariants are inductive together, with one fact added: while  *)
(* the simulator's thread waits in the terminal's ring it is inside        *)
(* sim_process_event, and the transmitter's unit is not queued.  Without   *)
(* it TtoSent could raise a request behind the back of the CPU loop.       *)
(*                                                                         *)
(* The second part is about the composition with a guest (MCConsole): its  *)
(* steps are steps of the system, so the invariant carries over, and the   *)
(* guest's bookkeeping of requests and of output is inductive above it.    *)
(***************************************************************************)
EXTENDS MCConsole, FiniteSetTheorems, WellFoundedInduction, TLAPS

PutsInEvents == putting => phase = "events" /\ TTO \notin active

IInv ==
    /\ TypeOK
    /\ NoMissedInterrupt
    /\ RequestsJustified
    /\ UnitsQueued
    /\ PutsInEvents

(* Any code that leaves TRAP_INT equal to calc_ints keeps the loop from    *)
(* missing a request.                                                      *)
LEMMA Recalculated ==
    ASSUME trapInt' = calc_ints(intReq', ipl')
    PROVE  NoMissedInterrupt' /\ trapInt' \in BOOLEAN
BY DEF NoMissedInterrupt, calc_ints

(* Rewriting PIRQ leaves the requests of devices alone, and those of the   *)
(* program justified.                                                      *)
LEMMA PirqRewritten ==
    ASSUME NEW req \in SUBSET Source, NEW p \in SUBSET Pir
    PROVE  /\ put_PIRQ(req, p) \in SUBSET Source
           /\ put_PIRQ(req, p) \cap Pir \subseteq p
           /\ \A d \in Device : d \in put_PIRQ(req, p) => d \in req
BY InterruptsAssumption DEF put_PIRQ, Source

(* Setting and clearing a request leaves requests. *)
LEMMA RequestsTyped ==
    ASSUME intReq \subseteq Source, NEW d \in Device, NEW on
    PROVE  Raised(d, on) \subseteq Source /\ Lowered(d) \subseteq Source
BY DEF Raised, Lowered, Source

(* After reset_all. *)
LEMMA InitHolds == CInit => IInv
<1> SUFFICES ASSUME CInit PROVE IInv
    OBVIOUS
<1>1. TypeOK
  <2>1. /\ 0 \in 0 .. KeyLength /\ 0 \in 0 .. KbRing
        /\ 0 \in 0 .. Serial /\ 0 \in 0 .. LcdRing
    BY ConsoleAssumption
  <2> QED
    BY <2>1, InterruptsAssumption, ConsoleAssumption DEF CInit, IInit, TypeOK
<1>2. NoMissedInterrupt
    BY DEF CInit, IInit, NoMissedInterrupt, calc_ints, Seen
<1>3. RequestsJustified /\ UnitsQueued /\ PutsInEvents
    BY ConsoleAssumption
       DEF CInit, IInit, RequestsJustified, UnitsQueued, PutsInEvents
<1> QED
    BY <1>1, <1>2, <1>3 DEF IInv

(* What the CPU does by itself. *)
LEMMA CpuKeeps == IInv /\ Cpu => IInv'
<1> SUFFICES ASSUME IInv, Cpu PROVE IInv'
    OBVIOUS
<1> USE InterruptsAssumption, ConsoleAssumption DEF Cpu
<1>1. CASE BeginEvents
    BY <1>1
       DEF BeginEvents, IInv, TypeOK, NoMissedInterrupt, RequestsJustified,
           UnitsQueued, PutsInEvents, dvars, hostvars, ivars
<1>2. CASE EndEvents
    BY <1>2, Recalculated, PirqRewritten
       DEF EndEvents, IInv, TypeOK, RequestsJustified, UnitsQueued,
           PutsInEvents, dvars, hostvars, ivars
<1>3. CASE TakeTrap
    BY <1>3, Recalculated, PirqRewritten
       DEF TakeTrap, IInv, TypeOK, RequestsJustified, UnitsQueued,
           PutsInEvents, dvars, hostvars, ivars
<1>4. CASE NothingToDo
    BY <1>4
       DEF NothingToDo, IInv, TypeOK, NoMissedInterrupt, RequestsJustified,
           UnitsQueued, PutsInEvents, dvars, hostvars, ivars
<1>5. CASE WritePirq
    BY <1>5, Recalculated, PirqRewritten
       DEF WritePirq, Executes, IInv, TypeOK, RequestsJustified, UnitsQueued,
           PutsInEvents, dvars, hostvars, ivars
<1>6. CASE WaitInstruction
    BY <1>6
       DEF WaitInstruction, Executes, IInv, TypeOK, NoMissedInterrupt,
           RequestsJustified, UnitsQueued, PutsInEvents, dvars, hostvars, ivars
<1>7. CASE Traps
    BY <1>7
       DEF Traps, IInv, TypeOK, NoMissedInterrupt, RequestsJustified,
           UnitsQueued, PutsInEvents, dvars, hostvars, ivars
<1>8. CASE Halt
    BY <1>8, Recalculated, PirqRewritten
       DEF Halt, Executes, IInv, TypeOK, RequestsJustified, UnitsQueued,
           PutsInEvents, dvars, hostvars, ivars
<1>9. CASE \E s \in Source : InterruptAborts(s)
    BY <1>9, Recalculated, PirqRewritten
       DEF InterruptAborts, Acknowledges, IInv, TypeOK, RequestsJustified,
           UnitsQueued, PutsInEvents, dvars, hostvars, ivars
<1>10. CASE Interrupted
    BY <1>10, Recalculated, PirqRewritten
       DEF Interrupted, TakeInterrupt, Acknowledges, IInv, TypeOK,
           RequestsJustified, UnitsQueued, PutsInEvents, dvars, hostvars, ivars
<1>11. CASE \E l \in Level : SetPriority(l)
    BY <1>11, Recalculated, PirqRewritten
       DEF SetPriority, Executes, IInv, TypeOK, RequestsJustified, UnitsQueued,
           PutsInEvents, dvars, hostvars, ivars
<1> QED
    BY <1>1, <1>2, <1>3, <1>4, <1>5, <1>6, <1>7, <1>8, <1>9, <1>10, <1>11
       DEF CpuOnly

(* Register accesses and RESET. *)
LEMMA AccessKeeps == IInv /\ Access => IInv'
<1> SUFFICES ASSUME IInv, Access PROVE IInv'
    OBVIOUS
<1> USE InterruptsAssumption, ConsoleAssumption
<1>1. CASE TtiRead
    BY <1>1, Recalculated
       DEF TtiRead, RegisterAccess, Executes, Raised, Lowered, IInv, TypeOK,
           RequestsJustified, UnitsQueued, PutsInEvents, dvars, hostvars, ivars
<1>2. CASE TtiWrite
  <2>1. intReq' \subseteq Source
    BY <1>2, RequestsTyped
       DEF TtiWrite, RegisterAccess, Executes, hostvars, IInv, TypeOK
  <2>2. trapInt' \in BOOLEAN /\ trap' \in BOOLEAN /\ ttiIE' \in BOOLEAN
    BY <1>2, Recalculated DEF TtiWrite, RegisterAccess
  <2>3. TypeOK'
    BY <1>2, <2>1, <2>2
       DEF TtiWrite, RegisterAccess, Executes, hostvars, IInv, TypeOK
  <2>4. NoMissedInterrupt'
    BY <1>2, Recalculated
       DEF TtiWrite, RegisterAccess, Executes, Raised, Lowered, hostvars, IInv,
           NoMissedInterrupt
  <2>5. RequestsJustified'
    BY <1>2
       DEF TtiWrite, RegisterAccess, Executes, Raised, Lowered, hostvars, IInv,
           RequestsJustified, TypeOK
  <2>6. UnitsQueued' /\ PutsInEvents'
    BY <1>2
       DEF TtiWrite, RegisterAccess, Executes, Raised, Lowered, hostvars, IInv,
           UnitsQueued, PutsInEvents, TypeOK
  <2> QED
    BY <2>3, <2>4, <2>5, <2>6 DEF IInv
<1>3. CASE TtoWriteCsr
  <2>1. intReq' \subseteq Source
    BY <1>3, RequestsTyped
       DEF TtoWriteCsr, RegisterAccess, Executes, hostvars, IInv, TypeOK
  <2>2. trapInt' \in BOOLEAN /\ trap' \in BOOLEAN /\ ttoIE' \in BOOLEAN
    BY <1>3, Recalculated DEF TtoWriteCsr, RegisterAccess
  <2>3. TypeOK'
    BY <1>3, <2>1, <2>2
       DEF TtoWriteCsr, RegisterAccess, Executes, hostvars, IInv, TypeOK
  <2>4. NoMissedInterrupt'
    BY <1>3, Recalculated
       DEF TtoWriteCsr, RegisterAccess, Executes, Raised, Lowered, hostvars,
           IInv, NoMissedInterrupt
  <2>5. RequestsJustified'
    BY <1>3
       DEF TtoWriteCsr, RegisterAccess, Executes, Raised, Lowered, hostvars,
           IInv, RequestsJustified, TypeOK
  <2>6. UnitsQueued' /\ PutsInEvents'
    BY <1>3
       DEF TtoWriteCsr, RegisterAccess, Executes, Raised, Lowered, hostvars,
           IInv, UnitsQueued, PutsInEvents, TypeOK
  <2> QED
    BY <2>3, <2>4, <2>5, <2>6 DEF IInv
<1>4. CASE TtoWriteBuf
    BY <1>4, Recalculated
       DEF TtoWriteBuf, RegisterAccess, Executes, Raised, Lowered, IInv,
           TypeOK, RequestsJustified, UnitsQueued, PutsInEvents, dvars,
           hostvars, ivars
<1>5. CASE ClkWrite
    BY <1>5, Recalculated
       DEF ClkWrite, RegisterAccess, Executes, Raised, Lowered, IInv, TypeOK,
           RequestsJustified, UnitsQueued, PutsInEvents, dvars, hostvars, ivars
<1>6. CASE Reset
    BY <1>6
       DEF Reset, ResetInstruction, Executes, IInv, TypeOK, NoMissedInterrupt,
           RequestsJustified, UnitsQueued, PutsInEvents, dvars, hostvars,
           ivars, calc_ints, Seen
<1> QED
    BY <1>1, <1>2, <1>3, <1>4, <1>5, <1>6 DEF Access

(* Service routines: the CPU does not look until they have ended. *)
LEMMA ServiceKeeps == IInv /\ Service => IInv'
<1> SUFFICES ASSUME IInv, Service PROVE IInv'
    OBVIOUS
<1> USE InterruptsAssumption, ConsoleAssumption
<1>1. CASE TtiService
  <2>1. intReq' \subseteq Source
    BY <1>1, RequestsTyped DEF TtiService, Serves, hostvars, IInv, TypeOK
  <2>2. TypeOK'
    BY <1>1, <2>1 DEF TtiService, Serves, hostvars, IInv, TypeOK
  <2>3. NoMissedInterrupt'
    BY <1>1
       DEF TtiService, Serves, Raised, hostvars, IInv, PutsInEvents,
           NoMissedInterrupt
  <2>4. RequestsJustified'
    BY <1>1
       DEF TtiService, Serves, Raised, hostvars, IInv, RequestsJustified,
           TypeOK
  <2>5. UnitsQueued' /\ PutsInEvents'
    BY <1>1
       DEF TtiService, Serves, Raised, hostvars, IInv, UnitsQueued,
           PutsInEvents, TypeOK
  <2> QED
    BY <2>2, <2>3, <2>4, <2>5 DEF IInv
<1>2. CASE TtoService
  <2>1. intReq' \subseteq Source
    BY <1>2, RequestsTyped DEF TtoService, Serves, hostvars, IInv, TypeOK
  <2>2. TypeOK'
    BY <1>2, <2>1 DEF TtoService, Serves, hostvars, IInv, TypeOK
  <2>3. NoMissedInterrupt'
    BY <1>2
       DEF TtoService, Serves, Raised, hostvars, IInv, PutsInEvents,
           NoMissedInterrupt
  <2>4. RequestsJustified'
    BY <1>2
       DEF TtoService, Serves, Raised, hostvars, IInv, RequestsJustified,
           TypeOK
  <2>5. UnitsQueued' /\ PutsInEvents'
    BY <1>2
       DEF TtoService, Serves, Raised, hostvars, IInv, UnitsQueued,
           PutsInEvents, TypeOK
  <2> QED
    BY <2>2, <2>3, <2>4, <2>5 DEF IInv
<1>3. CASE TtoSent
  <2>1. intReq' \subseteq Source
    BY <1>3, RequestsTyped DEF TtoSent, Serves, hostvars, IInv, TypeOK
  <2>2. lcdRing' \in 0 .. LcdRing
    BY <1>3 DEF TtoSent, IInv, TypeOK
  <2>3. TypeOK'
    BY <1>3, <2>1, <2>2, Zenon DEF TtoSent, IInv, TypeOK
  <2>4. NoMissedInterrupt'
    BY <1>3
       DEF TtoSent, Serves, Raised, hostvars, IInv, PutsInEvents,
           NoMissedInterrupt
  <2>5. RequestsJustified'
    BY <1>3
       DEF TtoSent, Serves, Raised, hostvars, IInv, RequestsJustified, TypeOK
  <2>6. UnitsQueued' /\ PutsInEvents'
    BY <1>3
       DEF TtoSent, Serves, Raised, hostvars, IInv, UnitsQueued, PutsInEvents,
           TypeOK
  <2> QED
    BY <2>3, <2>4, <2>5, <2>6 DEF IInv
<1>4. CASE ClkService
  <2>1. intReq' \subseteq Source
    BY <1>4, RequestsTyped DEF ClkService, Serves, hostvars, IInv, TypeOK
  <2>2. TypeOK'
    BY <1>4, <2>1 DEF ClkService, Serves, hostvars, IInv, TypeOK
  <2>3. NoMissedInterrupt'
    BY <1>4
       DEF ClkService, Serves, Raised, hostvars, IInv, PutsInEvents,
           NoMissedInterrupt
  <2>4. RequestsJustified'
    BY <1>4
       DEF ClkService, Serves, Raised, hostvars, IInv, RequestsJustified,
           TypeOK
  <2>5. UnitsQueued' /\ PutsInEvents'
    BY <1>4
       DEF ClkService, Serves, Raised, hostvars, IInv, UnitsQueued,
           PutsInEvents, TypeOK
  <2> QED
    BY <2>2, <2>3, <2>4, <2>5 DEF IInv
<1> QED
    BY <1>1, <1>2, <1>3, <1>4 DEF Service

(* The other threads change no register. *)
LEMMA HostKeeps == IInv /\ Host => IInv'
<1> SUFFICES ASSUME IInv, Host PROVE IInv'
    OBVIOUS
<1> USE InterruptsAssumption, ConsoleAssumption
<1>1. CASE KeyPress
    BY <1>1
       DEF KeyPress, IInv, TypeOK, NoMissedInterrupt, RequestsJustified,
           UnitsQueued, PutsInEvents, dvars, hostvars, ivars
<1>2. CASE KeySend
    BY <1>2
       DEF KeySend, IInv, TypeOK, NoMissedInterrupt, RequestsJustified,
           UnitsQueued, PutsInEvents, dvars, hostvars, ivars
<1>3. CASE SerialReceive
    BY <1>3
       DEF SerialReceive, IInv, TypeOK, NoMissedInterrupt, RequestsJustified,
           UnitsQueued, PutsInEvents, dvars, hostvars, ivars
<1>4. CASE TerminalReceive
    BY <1>4
       DEF TerminalReceive, IInv, TypeOK, NoMissedInterrupt, RequestsJustified,
           UnitsQueued, PutsInEvents, dvars, hostvars, ivars
<1>5. CASE HalfSecond
    BY <1>5
       DEF HalfSecond, IInv, TypeOK, NoMissedInterrupt, RequestsJustified,
           UnitsQueued, PutsInEvents, dvars, hostvars, ivars
<1> QED
    BY <1>1, <1>2, <1>3, <1>4, <1>5 DEF Host

(* Every step keeps the inductive invariant. *)
LEMMA NextKeeps == IInv /\ [CNext]_convars => IInv'
<1>1. ASSUME IInv, UNCHANGED convars PROVE IInv'
    BY <1>1
       DEF convars, IInv, TypeOK, NoMissedInterrupt, RequestsJustified,
           UnitsQueued, PutsInEvents, dvars, hostvars, ivars
<1> QED
    BY <1>1, CpuKeeps, AccessKeeps, ServiceKeeps, HostKeeps DEF CNext

(* The inductive invariant holds in every state of the system.             *)
THEOREM ConsoleInvariant == CSpec => []IInv
BY InitHolds, NextKeeps, PTL DEF CSpec

(* Every variable stays in its type, and no ring holds more than its size. *)
THEOREM ConsoleTypes == CSpec => []TypeOK
<1>1. IInv => TypeOK
    BY DEF IInv
<1> QED
    BY <1>1, ConsoleInvariant, PTL

(* sim_instr never fetches past a request that the priority lets through.  *)
THEOREM NeverMissed == CSpec => []NoMissedInterrupt
<1>1. IInv => NoMissedInterrupt
    BY DEF IInv
<1> QED
    BY <1>1, ConsoleInvariant, PTL

(* No interrupt routine of the console, the clock or a program request is  *)
(* entered while its device has nothing to ask for.                        *)
THEOREM AlwaysJustified == CSpec => []RequestsJustified
<1>1. IInv => RequestsJustified
    BY DEF IInv
<1> QED
    BY <1>1, ConsoleInvariant, PTL

(* tti_svc and clk_svc are always queued again, and tto_svc is to come     *)
(* whenever DONE is clear.                                                 *)
THEOREM AlwaysQueued == CSpec => []UnitsQueued
<1>1. IInv => UnitsQueued
    BY DEF IInv
<1> QED
    BY <1>1, ConsoleInvariant, PTL

-----------------------------------------------------------------------------
(* The guest of MCConsole only reads the buffer once per interrupt and     *)
(* does not reset meanwhile: it is one of those Console allows.            *)
LEMMA GuestIsAGuest == [HNext]_hvars => [CNext]_convars
BY DEF HNext, hvars, CNext, Access

(* Rewriting PIRQ neither raises nor lowers the request of a device.       *)
LEMMA PirqApart ==
    ASSUME NEW d \in Device
    PROVE  \A req : \A p \in SUBSET Pir : d \in put_PIRQ(req, p) <=> d \in req
BY InterruptsAssumption DEF put_PIRQ

(* What is acknowledged is a request that is up. *)
LEMMA AcknowledgesRaised ==
    ASSUME intReq \subseteq Source, NEW s, Acknowledges(s)
    PROVE  s \in intReq
<1> DEFINE Req == Seen(intReq, ipl)
           Key(x) == 32 * (7 - BR[x]) + Slot[x]
           T == {Key(x) : x \in Req}
<1>1. Req # {} /\ Req \subseteq Source /\ Req \subseteq intReq
    BY DEF Acknowledges, calc_ints, Seen
<1>2. \A x \in Req : BR[x] \in 1 .. 7 /\ Slot[x] \in 0 .. 31
    BY <1>1, InterruptsAssumption
<1>3. T # {} /\ T \subseteq Nat
    BY <1>1, <1>2
<1>4. PICK m \in T : \A k \in T : ~ (<<k, m>> \in OpToRel(<, Nat))
    <2> HIDE DEF T
    <2> QED BY <1>3, NatLessThanWellFounded, WFMin
<1>5. PICK b \in Req : m = Key(b)
    OBVIOUS
<1>6. \A k \in T : ~ (k < m)
    <2> HIDE DEF T
    <2> QED BY <1>3, <1>4 DEF OpToRel
<1>7. ASSUME NEW t \in Req
      PROVE  BR[t] < BR[b] \/ (BR[t] = BR[b] /\ Slot[b] <= Slot[t])
    <2>1. ~ (Key(t) < Key(b))
        BY <1>5, <1>6
    <2>2. ASSUME NEW c \in 1 .. 7, NEW d \in 1 .. 7, NEW i \in 0 .. 31, NEW j \in 0 .. 31,
                 ~ (32 * (7 - c) + i < 32 * (7 - d) + j)
          PROVE  c < d \/ (c = d /\ j <= i)
        BY <2>2
    <2> QED BY <1>2, <2>1, <2>2
<1>8. get_vector(intReq, ipl) \in Req
    BY <1>7 DEF get_vector
<1> QED
    BY <1>1, <1>8 DEF Acknowledges

(* What the terminal has still to show. *)
OnItsWay ==
    lcdRing + (IF TTO \in active THEN 1 ELSE 0) + (IF putting THEN 1 ELSE 0)

LEMMA OnItsWayCounted == OutputConserved <=> owed = OnItsWay
<1>1. CASE TTO \in active
  <2> {TTO} \cap active = {TTO}
      BY <1>1
  <2> QED
      BY <1>1, FS_Singleton DEF OutputConserved, OnItsWay
<1>2. CASE TTO \notin active
  <2> {TTO} \cap active = {}
      BY <1>2
  <2> QED
      BY <1>2, FS_EmptySet DEF OutputConserved, OnItsWay
<1> QED
    BY <1>1, <1>2

(* A console device that asks for an interrupt and has no request has      *)
(* been so before, or its request has just been acknowledged: nothing else *)
(* takes a request away and leaves the device asking.                      *)
LEMMA LostByAcknowledge ==
    ASSUME IInv, CNext, NEW d \in {TTI, TTO}, Asks(d)', d \notin intReq'
    PROVE  (Asks(d) /\ d \notin intReq) \/ \E s \in {d} : Acknowledges(s)
<1> USE ConsoleAssumption DEF Asks
<1>a. \A req : \A p \in SUBSET Pir : d \in put_PIRQ(req, p) <=> d \in req
    BY PirqApart
<1>b. pirq \in SUBSET Pir
    BY DEF IInv, TypeOK
<1>1. CASE Cpu /\ BeginEvents
    BY <1>1, <1>a, <1>b
       DEF Cpu, BeginEvents, Executes, dvars, hostvars, ivars
<1>2. CASE Cpu /\ EndEvents
    BY <1>2, <1>a, <1>b
       DEF Cpu, EndEvents, Executes, dvars, hostvars, ivars
<1>3. CASE Cpu /\ TakeTrap
    BY <1>3, <1>a, <1>b
       DEF Cpu, TakeTrap, Executes, dvars, hostvars, ivars
<1>4. CASE Cpu /\ NothingToDo
    BY <1>4, <1>a, <1>b
       DEF Cpu, NothingToDo, Executes, dvars, hostvars, ivars
<1>5. CASE Cpu /\ WritePirq
    BY <1>5, <1>a, <1>b
       DEF Cpu, WritePirq, Executes, dvars, hostvars, ivars
<1>6. CASE Cpu /\ WaitInstruction
    BY <1>6, <1>a, <1>b
       DEF Cpu, WaitInstruction, Executes, dvars, hostvars, ivars
<1>7. CASE Cpu /\ Traps
    BY <1>7, <1>a, <1>b
       DEF Cpu, Traps, Executes, dvars, hostvars, ivars
<1>8. CASE Cpu /\ Halt
    BY <1>8, <1>a, <1>b
       DEF Cpu, Halt, Executes, dvars, hostvars, ivars
<1>9. CASE Cpu /\ \E s \in Source : InterruptAborts(s)
    BY <1>9, <1>a, <1>b
       DEF Cpu, InterruptAborts, dvars
<1>10. CASE Cpu /\ Interrupted
    BY <1>10
       DEF Cpu, Interrupted, TakeInterrupt, dvars
<1>11. CASE Cpu /\ \E l \in Level : SetPriority(l)
    BY <1>11
       DEF Cpu, SetPriority, dvars
<1>12. CASE TtiRead
    BY <1>12
       DEF TtiRead, RegisterAccess, Executes, Raised, Lowered, ResetInstruction
<1>13. CASE TtiWrite
    BY <1>13
       DEF TtiWrite, RegisterAccess, Executes, Raised, Lowered, ResetInstruction
<1>14. CASE TtoWriteCsr
    BY <1>14
       DEF TtoWriteCsr, RegisterAccess, Executes, Raised, Lowered, ResetInstruction
<1>15. CASE TtoWriteBuf
    BY <1>15
       DEF TtoWriteBuf, RegisterAccess, Executes, Raised, Lowered, ResetInstruction
<1>16. CASE ClkWrite
    BY <1>16
       DEF ClkWrite, RegisterAccess, Executes, Raised, Lowered, ResetInstruction
<1>17. CASE Reset
    BY <1>17
       DEF Reset, RegisterAccess, Executes, Raised, Lowered, ResetInstruction
<1>18. CASE TtiService
    BY <1>18
       DEF TtiService, Serves, Raised
<1>19. CASE TtoService
    BY <1>19
       DEF TtoService, Serves, Raised
<1>20. CASE TtoSent
    BY <1>20
       DEF TtoSent, Serves, Raised
<1>21. CASE ClkService
    BY <1>21
       DEF ClkService, Serves, Raised
<1>22. CASE KeyPress
    BY <1>22
       DEF KeyPress, dvars, ivars
<1>23. CASE KeySend
    BY <1>23
       DEF KeySend, dvars, ivars
<1>24. CASE SerialReceive
    BY <1>24
       DEF SerialReceive, dvars, ivars
<1>25. CASE TerminalReceive
    BY <1>25
       DEF TerminalReceive, dvars, ivars
<1>26. CASE HalfSecond
    BY <1>26
       DEF HalfSecond, dvars, ivars
<1> QED
    BY <1>1, <1>2, <1>3, <1>4, <1>5, <1>6, <1>7, <1>8, <1>9, <1>10, <1>11, <1>12, <1>13, <1>14, <1>15, <1>16, <1>17, <1>18, <1>19, <1>20, <1>21, <1>22, <1>23, <1>24, <1>25, <1>26
       DEF CNext, Cpu, CpuOnly, Access, Service, Host

(* Each step that shows or drops a character takes one off its way, and    *)
(* each write to a ready transmitter puts one on it.                       *)
LEMMA OnItsWayChanges ==
    ASSUME IInv, CNext
    PROVE  OnItsWay' = IF Shows \/ Hides THEN OnItsWay - 1
                       ELSE IF ttoDone /\ ~ttoDone' THEN OnItsWay + 1
                       ELSE OnItsWay
<1> USE ConsoleAssumption DEF OnItsWay, Shows, Hides
<1>a. lcdRing \in Int /\ UnitsQueued /\ PutsInEvents /\ ttoDone \in BOOLEAN /\ putting \in BOOLEAN
    BY DEF IInv, TypeOK
<1>1. CASE Cpu
    BY <1>a, <1>1
       DEF Cpu, dvars, hostvars
<1>2. CASE TtiRead
    BY <1>a, <1>2
       DEF TtiRead, RegisterAccess, Executes, ResetInstruction, hostvars, UnitsQueued, PutsInEvents
<1>3. CASE TtiWrite
    BY <1>a, <1>3
       DEF TtiWrite, RegisterAccess, Executes, ResetInstruction, hostvars, UnitsQueued, PutsInEvents
<1>4. CASE TtoWriteCsr
    BY <1>a, <1>4
       DEF TtoWriteCsr, RegisterAccess, Executes, ResetInstruction, hostvars, UnitsQueued, PutsInEvents
<1>5. CASE TtoWriteBuf
    BY <1>a, <1>5
       DEF TtoWriteBuf, RegisterAccess, Executes, ResetInstruction, hostvars, UnitsQueued, PutsInEvents
<1>6. CASE ClkWrite
    BY <1>a, <1>6
       DEF ClkWrite, RegisterAccess, Executes, ResetInstruction, hostvars, UnitsQueued, PutsInEvents
<1>7. CASE Reset
    BY <1>a, <1>7
       DEF Reset, RegisterAccess, Executes, ResetInstruction, hostvars, UnitsQueued, PutsInEvents
<1>8. CASE TtiService
    BY <1>a, <1>8
       DEF TtiService, Serves, hostvars, UnitsQueued, PutsInEvents
<1>9. CASE TtoService
    BY <1>a, <1>9
       DEF TtoService, Serves, hostvars, UnitsQueued, PutsInEvents
<1>10. CASE TtoSent
    BY <1>a, <1>10
       DEF TtoSent, Serves, hostvars, UnitsQueued, PutsInEvents
<1>11. CASE ClkService
    BY <1>a, <1>11
       DEF ClkService, Serves, hostvars, UnitsQueued, PutsInEvents
<1>12. CASE KeyPress
    BY <1>a, <1>12
       DEF KeyPress, dvars
<1>13. CASE KeySend
    BY <1>a, <1>13
       DEF KeySend, dvars
<1>14. CASE SerialReceive
    BY <1>a, <1>14
       DEF SerialReceive, dvars
<1>15. CASE TerminalReceive
    BY <1>a, <1>15
       DEF TerminalReceive, dvars
<1>16. CASE HalfSecond
    BY <1>a, <1>16
       DEF HalfSecond, hostvars
<1> QED
    BY <1>1, <1>2, <1>3, <1>4, <1>5, <1>6, <1>7, <1>8, <1>9, <1>10, <1>11, <1>12, <1>13, <1>14, <1>15, <1>16
       DEF CNext, Access, Service, Host

HInv == IInv /\ NoLostRequest /\ OutputConserved /\ isr \in BOOLEAN

LEMMA HInitHolds == HInit => HInv
<1> SUFFICES ASSUME HInit PROVE HInv
    OBVIOUS
<1>1. IInv
    BY InitHolds DEF HInit
<1>2. NoLostRequest
    BY ConsoleAssumption DEF HInit, CInit, NoLostRequest, Asks
<1>3. OutputConserved
    BY ConsoleAssumption, OnItsWayCounted DEF HInit, CInit, OnItsWay
<1> QED
    BY <1>1, <1>2, <1>3 DEF HInv, HInit

LEMMA HNextKeeps == HInv /\ [HNext]_hvars => HInv'
<1> SUFFICES ASSUME HInv, [HNext]_hvars PROVE HInv'
    OBVIOUS
<1>1. IInv'
    BY GuestIsAGuest, NextKeeps DEF HInv
<1>2. CASE UNCHANGED hvars
  <2>1. UNCHANGED <<intReq, ttiDone, ttiIE, ttoDone, ttoIE, active, putting, lcdRing, isr, acked, owed>>
    BY <1>2 DEF hvars, convars, ivars, dvars, hostvars
  <2>2. NoLostRequest'
    BY <2>1 DEF HInv, NoLostRequest, Asks
  <2>3. OutputConserved'
    BY <2>1 DEF HInv, OutputConserved
  <2> QED
    BY <1>1, <2>1, <2>2, <2>3 DEF HInv
<1>3. CASE HNext
  <2>1. CNext
    BY <1>3 DEF HNext, CNext, Access
  <2>2. \A d \in {TTI, TTO} : Asks(d)' => d \in (intReq \cup acked)'
    <3> SUFFICES ASSUME NEW d \in {TTI, TTO}, Asks(d)', d \notin intReq'
                 PROVE  d \in acked'
        OBVIOUS
    <3>1. d \in acked \/ Acknowledges(d)
        BY <2>1, LostByAcknowledge DEF HInv, NoLostRequest
    <3> QED
        BY <1>3, <3>1 DEF HNext
  <2>3. isr' => ttiDone'
    <3>1. CASE TtiRead /\ isr' = FALSE
        BY <3>1
    <3>2. CASE Reset /\ ~isr /\ UNCHANGED isr
        BY <3>2
    <3>3. CASE /\ \/ Cpu \/ Service \/ Host
                  \/ TtiWrite \/ TtoWriteCsr \/ TtoWriteBuf \/ ClkWrite
               /\ isr' = (isr \/ \E l \in Level : TakeInterrupt(TTI, l))
      <4>1. ASSUME NEW l \in Level, TakeInterrupt(TTI, l) PROVE ttiDone
          BY <4>1, AcknowledgesRaised DEF TakeInterrupt, HInv, IInv, TypeOK, RequestsJustified
      <4>2. isr' => ttiDone
          BY <3>3, <4>1 DEF HInv, NoLostRequest
      <4>3. ttiDone => ttiDone'
          BY <3>3 
             DEF Cpu, Service, Host, TtiWrite, TtoWriteCsr, TtoWriteBuf, ClkWrite,
                 TtiService, TtoService, TtoSent, ClkService, KeyPress, KeySend, SerialReceive,
                 TerminalReceive, HalfSecond, dvars
      <4> QED
          BY <4>2, <4>3
    <3> QED
        BY <1>3, <3>1, <3>2, <3>3 DEF HNext
  <2>4. OutputConserved'
    <3>1. owed = OnItsWay
        BY OnItsWayCounted DEF HInv
    <3>2. owed' = OnItsWay'
        BY <1>3, <2>1, <3>1, OnItsWayChanges DEF HInv, HNext
    <3>3. (OutputConserved <=> owed = OnItsWay)'
        BY OnItsWayCounted, PTL
    <3> QED
        BY <3>2, <3>3
  <2>5. isr' \in BOOLEAN
    BY <1>3 DEF HNext, HInv
  <2> QED
    BY <1>1, <2>2, <2>3, <2>4, <2>5 DEF HInv, NoLostRequest
<1> QED
    BY <1>2, <1>3

(* A console device that is done and may interrupt has its request up or   *)
(* acknowledged, whatever registers the guest touches in between, and its  *)
(* interrupt routine finds a character, for rings and levels of any size   *)
(* (tti_svc, tto_svc, tti_wr, tto_wr and the acknowledge in sim_instr).    *)
THEOREM RequestNeverLost == HSpec => []NoLostRequest
<1>1. HInv => NoLostRequest
    BY DEF HInv
<1> QED
    BY <1>1, HInitHolds, HNextKeeps, PTL DEF HSpec

(* Every character written to a ready transmitter is shown once or, by a   *)
(* RESET or when it is none that prints, not at all: between tto_wr and    *)
(* the terminal's ring none is doubled.                                    *)
THEOREM OutputNeverDoubled == HSpec => []OutputConserved
<1>1. HInv => OutputConserved
    BY DEF HInv
<1> QED
    BY <1>1, HInitHolds, HNextKeeps, PTL DEF HSpec
=============================================================================
