----------------------------- MODULE MCConsole -----------------------------
(***************************************************************************)
(* Console with a guest whose keyboard interrupt routine reads the buffer  *)
(* once, and which reads it nowhere else.  `isr` says that the routine was *)
(* entered and has still to read; until then the priority stays at 4 or    *)
(* more and there is no RESET.  `acked` are the requests acknowledged      *)
(* since they were last raised, and `owed` is the number of characters     *)
(* written to a ready transmitter that the terminal has not yet received.  *)
(***************************************************************************)
EXTENDS Console, FiniteSets

CONSTANT Pir4

Requests == {TTI, TTO, CLK, Pir4}
Levels == [s \in Requests |-> IF s = CLK THEN 6 ELSE 4]
Slots == [s \in Requests |-> CASE s = Pir4 -> 0
                               [] s = TTI -> 1
                               [] s = TTO -> 2
                               [] s = CLK -> 1]

VARIABLES isr, acked, owed

hvars == <<convars, isr, acked, owed>>

HInit == CInit /\ isr = FALSE /\ acked = {} /\ owed = 0

Asks(d) ==
    \/ d = TTI /\ ttiDone /\ ttiIE
    \/ d = TTO /\ ttoDone /\ ttoIE

Shows == lcdRing' < lcdRing
Hides == TTO \in active /\ TTO \notin active' /\ ~putting'

HNext ==
    /\ \/ TtiRead /\ isr /\ isr' = FALSE
       \/ Reset /\ ~isr /\ UNCHANGED isr
       \/ /\ \/ Cpu \/ Service \/ Host
             \/ TtiWrite \/ TtoWriteCsr \/ TtoWriteBuf \/ ClkWrite
          /\ isr' = (isr \/ \E l \in Level : TakeInterrupt(TTI, l))
    /\ isr' => ipl' >= HMin
    /\ acked' = {d \in {TTI, TTO} : /\ Asks(d)' /\ d \notin intReq'
                                    /\ d \in acked \/ Acknowledges(d)}
    /\ owed' = IF Shows \/ Hides THEN owed - 1
               ELSE IF ttoDone /\ ~ttoDone' THEN owed + 1
               ELSE owed

HSpec == HInit /\ [][HNext]_hvars

-----------------------------------------------------------------------------
(* A device that is done and may interrupt has its request up, unless it   *)
(* was acknowledged since: no write to a CSR, no service routine and no    *)
(* other device's interrupt loses it.  And the routine that reads the      *)
(* buffer once per interrupt finds a character there, none a second time.  *)
NoLostRequest ==
    /\ \A d \in {TTI, TTO} : Asks(d) => d \in intReq \cup acked
    /\ isr => ttiDone

(* Every character written to a ready transmitter is on its way exactly    *)
(* once: with the unit, in the thread that puts it, or in the ring.        *)
OutputConserved ==
    owed = lcdRing + Cardinality({TTO} \cap active) + (IF putting THEN 1 ELSE 0)
=============================================================================
