------------------------------ MODULE Console ------------------------------
(***************************************************************************)
(* The console: keyboard task (bthid.c), DL11 registers and line clock     *)
(* (pdp11_stddev.c), and terminal task (ie15lcd.c), on three threads.      *)
(*                                                                         *)
(* The keyboard task and the terminal task are joined to the simulator's   *)
(* thread by byte rings; both senders block on a full ring.  The guest     *)
(* program makes any access to any register at any time.                   *)
(*                                                                         *)
(* Characters are counted, not told apart.  The event queue is a set: a    *)
(* queued unit is served at any later time (module EventQueue orders them  *)
(* and shows that none is left behind).  sim_putchar_s always succeeds.    *)
(***************************************************************************)
EXTENDS Interrupts

CONSTANTS
    TTI, TTO, CLK,   \* the requests of the console and of the line clock
    KbRing,          \* size of the keyboard's ring, 16 in bthid_start
    LcdRing,         \* size of the terminal's ring, 8 in ie15_init
    KeyLength,       \* the most characters a key sends
    Serial           \* the most characters waiting on the serial port

ASSUME ConsoleAssumption ==
    /\ Device = {TTI, TTO, CLK}
    /\ TTI # TTO /\ TTI # CLK /\ TTO # CLK
    /\ Internal = {CLK}
    /\ {KbRing, LcdRing, KeyLength} \subseteq Nat \ {0} /\ Serial \in Nat

VARIABLES
    active,        \* units that are queued
    ttiDone, ttiIE,
    ttiOld,        \* 500 ms have passed since tti_buftime
    ttoDone, ttoIE,
    clkDone, clkIE,
    putting,       \* the simulator's thread is in ie15_sendchar
    sending,       \* characters of a key that are still to be sent
    kbRing, serial,
    lcdRing

dvars == <<active, ttiDone, ttiIE, ttiOld, ttoDone, ttoIE, clkDone, clkIE>>
hostvars == <<sending, kbRing, serial, lcdRing>>
convars == <<ivars, dvars, putting, hostvars>>

CInit ==
    /\ IInit
    /\ active = {TTI, CLK}
    /\ ttiDone = FALSE /\ ttiIE = FALSE /\ ttiOld = TRUE
    /\ ttoDone = TRUE /\ ttoIE = FALSE
    /\ clkDone = TRUE /\ clkIE = FALSE
    /\ putting = FALSE
    /\ sending = 0 /\ kbRing = 0 /\ serial = 0
    /\ lcdRing = 0

(* SET_INT and CLR_INT. *)
Raised(d, on) == IF on THEN intReq \cup {d} ELSE intReq
Lowered(d) == intReq \ {d}

-----------------------------------------------------------------------------
(* Register accesses.  Reads of a CSR change nothing. *)

(* Mutant: reading the buffer leaves the request up. *)
TtiReadKeepsRequest ==
    /\ RegisterAccess(intReq)
    /\ ttiDone' = FALSE
    /\ active' = active \cup {TTI}
    /\ UNCHANGED <<ttiIE, ttiOld, ttoDone, ttoIE, clkDone, clkIE, putting, hostvars>>

(* tti_rd of the buffer; the next poll is brought forward. *)
TtiRead ==
    /\ RegisterAccess(Lowered(TTI))
    /\ ttiDone' = FALSE
    /\ active' = (active \ {TTI}) \cup {TTI}
    /\ UNCHANGED <<ttiIE, ttiOld, ttoDone, ttoIE, clkDone, clkIE, putting, hostvars>>

(* Mutant: enabling interrupts does not look at DONE. *)
TtiWriteNoRaise ==
    /\ \E ie \in BOOLEAN :
           /\ RegisterAccess(IF ~ie THEN Lowered(TTI) ELSE intReq)
           /\ ttiIE' = ie
    /\ UNCHANGED <<active, ttiDone, ttiOld, ttoDone, ttoIE, clkDone, clkIE>>
    /\ UNCHANGED <<putting, hostvars>>

(* tti_wr *)
TtiWrite ==
    /\ \E ie \in BOOLEAN :
           /\ RegisterAccess(IF ~ie THEN Lowered(TTI)
                             ELSE Raised(TTI, ttiDone /\ ~ttiIE))
           /\ ttiIE' = ie
    /\ UNCHANGED <<active, ttiDone, ttiOld, ttoDone, ttoIE, clkDone, clkIE>>
    /\ UNCHANGED <<putting, hostvars>>

(* tto_wr *)
TtoWriteCsr ==
    /\ \E ie \in BOOLEAN :
           /\ RegisterAccess(IF ~ie THEN Lowered(TTO)
                             ELSE Raised(TTO, ttoDone /\ ~ttoIE))
           /\ ttoIE' = ie
    /\ UNCHANGED <<active, ttiDone, ttiIE, ttiOld, ttoDone, clkDone, clkIE>>
    /\ UNCHANGED <<putting, hostvars>>

TtoWriteBuf ==
    /\ RegisterAccess(Lowered(TTO))
    /\ ttoDone' = FALSE
    /\ active' = active \cup {TTO}
    /\ UNCHANGED <<ttiDone, ttiIE, ttiOld, ttoIE, clkDone, clkIE, putting, hostvars>>

(* clk_wr, with the monitor bit *)
ClkWrite ==
    /\ \E ie, done \in BOOLEAN :
           /\ clkIE' = ie
           /\ clkDone' = (clkDone /\ done)
           /\ RegisterAccess(IF ~ie \/ ~clkDone' THEN Lowered(CLK) ELSE intReq)
    /\ UNCHANGED <<active, ttiDone, ttiIE, ttiOld, ttoDone, ttoIE, putting, hostvars>>

(* Mutant: tto_reset does not set DONE. *)
ResetNotDone ==
    /\ ResetInstruction
    /\ active' = (active \cup {TTI, CLK}) \ {TTO}
    /\ ttiDone' = FALSE /\ ttiIE' = FALSE
    /\ ttoIE' = FALSE
    /\ clkDone' = TRUE /\ clkIE' = FALSE
    /\ UNCHANGED <<ttoDone, ttiOld, putting, hostvars>>

(* tti_reset, tto_reset, clk_reset *)
Reset ==
    /\ ResetInstruction
    /\ active' = (active \cup {TTI, CLK}) \ {TTO}
    /\ ttiDone' = FALSE /\ ttiIE' = FALSE
    /\ ttoDone' = TRUE /\ ttoIE' = FALSE
    /\ clkDone' = TRUE /\ clkIE' = FALSE
    /\ UNCHANGED <<ttiOld, putting, hostvars>>

-----------------------------------------------------------------------------
(* Service routines, inside sim_process_event. *)

Serves(u) == phase = "events" /\ ~putting /\ u \in active

(* Mutant: the poll goes on only when there was a character to take. *)
TtiServiceNoPoll ==
    /\ Serves(TTI)
    /\ LET take == (~ttiDone \/ ttiOld) /\ serial + kbRing > 0
       IN  /\ active' = IF take THEN active ELSE active \ {TTI}
           /\ serial' = IF take /\ serial > 0 THEN serial - 1 ELSE serial
           /\ kbRing' = IF take /\ serial = 0 THEN kbRing - 1 ELSE kbRing
           /\ ttiDone' = (ttiDone \/ take)
           /\ ttiOld' = (ttiOld /\ ~take)
           /\ intReq' = Raised(TTI, take /\ ttiIE)
    /\ UNCHANGED <<pirq, ipl, trapInt, trap, waiting, phase>>
    /\ UNCHANGED <<ttiIE, ttoDone, ttoIE, clkDone, clkIE, putting, sending, lcdRing>>

(* tti_svc: the poll goes on; a character is taken, from the serial port   *)
(* first, unless the last one is unread and was taken lately.              *)
TtiService ==
    /\ Serves(TTI)
    /\ LET take == (~ttiDone \/ ttiOld) /\ serial + kbRing > 0
       IN  /\ serial' = IF take /\ serial > 0 THEN serial - 1 ELSE serial
           /\ kbRing' = IF take /\ serial = 0 THEN kbRing - 1 ELSE kbRing
           /\ ttiDone' = (ttiDone \/ take)
           /\ ttiOld' = (ttiOld /\ ~take)
           /\ intReq' = Raised(TTI, take /\ ttiIE)
    /\ active' = (active \ {TTI}) \cup {TTI}
    /\ UNCHANGED <<pirq, ipl, trapInt, trap, waiting, phase>>
    /\ UNCHANGED <<ttiIE, ttoDone, ttoIE, clkDone, clkIE, putting, sending, lcdRing>>

(* tto_svc, up to the call of ie15_sendchar, which a character that is     *)
(* not printed does without.                                               *)
TtoService ==
    /\ Serves(TTO)
    /\ active' = active \ {TTO}
    /\ \/ /\ putting' = TRUE
          /\ UNCHANGED <<ttoDone, intReq>>
       \/ /\ ttoDone' = TRUE
          /\ intReq' = Raised(TTO, ttoIE)
          /\ UNCHANGED putting
    /\ UNCHANGED <<pirq, ipl, trapInt, trap, waiting, phase>>
    /\ UNCHANGED <<ttiDone, ttiIE, ttiOld, ttoIE, clkDone, clkIE, hostvars>>

(* Mutant: the end of a transmission does not interrupt. *)
TtoSentNoRaise ==
    /\ putting /\ lcdRing < LcdRing
    /\ putting' = FALSE
    /\ lcdRing' = lcdRing + 1
    /\ ttoDone' = TRUE
    /\ UNCHANGED ivars
    /\ UNCHANGED <<active, ttiDone, ttiIE, ttiOld, ttoIE, clkDone, clkIE>>
    /\ UNCHANGED <<sending, kbRing, serial>>

(* Mutant: the sender does not wait for room. *)
TtoSentTimesOut ==
    /\ putting
    /\ putting' = FALSE
    /\ lcdRing' = IF lcdRing < LcdRing THEN lcdRing + 1 ELSE lcdRing
    /\ ttoDone' = TRUE
    /\ intReq' = Raised(TTO, ttoIE)
    /\ UNCHANGED <<pirq, ipl, trapInt, trap, waiting, phase>>
    /\ UNCHANGED <<active, ttiDone, ttiIE, ttiOld, ttoIE, clkDone, clkIE>>
    /\ UNCHANGED <<sending, kbRing, serial>>

(* There was room in the ring, and tto_svc ends. *)
TtoSent ==
    /\ putting /\ lcdRing < LcdRing
    /\ putting' = FALSE
    /\ lcdRing' = lcdRing + 1
    /\ ttoDone' = TRUE
    /\ intReq' = Raised(TTO, ttoIE)
    /\ UNCHANGED <<pirq, ipl, trapInt, trap, waiting, phase>>
    /\ UNCHANGED <<active, ttiDone, ttiIE, ttiOld, ttoIE, clkDone, clkIE>>
    /\ UNCHANGED <<sending, kbRing, serial>>

(* clk_svc *)
ClkService ==
    /\ Serves(CLK)
    /\ clkDone' = TRUE
    /\ intReq' = Raised(CLK, clkIE)
    /\ active' = (active \ {CLK}) \cup {CLK}
    /\ UNCHANGED <<pirq, ipl, trapInt, trap, waiting, phase>>
    /\ UNCHANGED <<ttiDone, ttiIE, ttiOld, ttoDone, ttoIE, clkIE, putting, hostvars>>

-----------------------------------------------------------------------------
(* The other threads, the user and the host's clock. *)

(* A key goes down and has a string of characters (handle_kb_key). *)
KeyPress ==
    /\ sending = 0
    /\ sending' \in 1 .. KeyLength
    /\ UNCHANGED <<ivars, dvars, putting, kbRing, serial, lcdRing>>

KeySend ==
    /\ sending > 0 /\ kbRing < KbRing
    /\ sending' = sending - 1
    /\ kbRing' = kbRing + 1
    /\ UNCHANGED <<ivars, dvars, putting, serial, lcdRing>>

SerialReceive ==
    /\ serial < Serial
    /\ serial' = serial + 1
    /\ UNCHANGED <<ivars, dvars, putting, sending, kbRing, lcdRing>>

(* recv_char of the terminal task. *)
TerminalReceive ==
    /\ lcdRing > 0
    /\ lcdRing' = lcdRing - 1
    /\ UNCHANGED <<ivars, dvars, putting, sending, kbRing, serial>>

HalfSecond ==
    /\ ~ttiOld
    /\ ttiOld' = TRUE
    /\ UNCHANGED <<ivars, active, ttiDone, ttiIE, ttoDone, ttoIE, clkDone, clkIE>>
    /\ UNCHANGED <<putting, hostvars>>

-----------------------------------------------------------------------------
Interrupted == \E s \in Source, l \in Level : TakeInterrupt(s, l)

Cpu ==
    /\ ~putting
    /\ CpuOnly \/ Interrupted \/ \E l \in Level : SetPriority(l)
    /\ UNCHANGED <<dvars, putting, hostvars>>

Access == TtiRead \/ TtiWrite \/ TtoWriteCsr \/ TtoWriteBuf \/ ClkWrite \/ Reset

Service == TtiService \/ TtoService \/ TtoSent \/ ClkService

Host == KeyPress \/ KeySend \/ SerialReceive \/ TerminalReceive \/ HalfSecond

CNext == Cpu \/ Access \/ Service \/ Host

CSpec == CInit /\ [][CNext]_convars

-----------------------------------------------------------------------------
TypeOK ==
    /\ intReq \subseteq Source /\ pirq \subseteq Pir
    /\ ipl \in Level
    /\ trapInt \in BOOLEAN /\ trap \in BOOLEAN /\ waiting \in BOOLEAN
    /\ phase \in {"fetch", "events"}
    /\ active \subseteq Device
    /\ ttiDone \in BOOLEAN /\ ttiIE \in BOOLEAN /\ ttiOld \in BOOLEAN
    /\ ttoDone \in BOOLEAN /\ ttoIE \in BOOLEAN /\ putting \in BOOLEAN
    /\ clkDone \in BOOLEAN /\ clkIE \in BOOLEAN
    /\ sending \in 0 .. KeyLength /\ kbRing \in 0 .. KbRing
    /\ serial \in 0 .. Serial /\ lcdRing \in 0 .. LcdRing

(* The CPU loop never passes over a request that the priority lets         *)
(* through: TRAP_INT is up whenever it looks, after events, register       *)
(* accesses, changes of priority, resets, and aborts half-way into an      *)
(* interrupt.                                                              *)
NoMissedInterrupt == phase = "fetch" /\ calc_ints(intReq, ipl) => trapInt

(* A request is up only while its device has reason to ask, so that no     *)
(* interrupt routine finds its device idle.                                *)
RequestsJustified ==
    /\ TTI \in intReq => ttiDone /\ ttiIE
    /\ TTO \in intReq => ttoDone /\ ttoIE
    /\ CLK \in intReq => clkDone /\ clkIE
    /\ intReq \cap Pir \subseteq pirq

(* The keyboard poll and the clock never stop, and the transmitter is      *)
(* either ready or has an event to come that makes it ready.               *)
UnitsQueued ==
    /\ {TTI, CLK} \subseteq active
    /\ ttoDone <=> TTO \notin active /\ ~putting
=============================================================================
