------------------------------- MODULE WifiRx -------------------------------
(***************************************************************************)
(* Received packets on their way from the WiFi driver to the PDP-11 and to *)
(* the native network stack (wifi_if_esp32.c), and who owns their memory.  *)
(*                                                                         *)
(* Three threads meet here.  The WiFi task runs wlan_sta_rx_callback; the  *)
(* simulator runs wifi_if_read; LWIP's task releases what it was given.    *)
(* A packet lies in a receive buffer of the driver, which has to be given  *)
(* back, or, when both stacks get it, is copied to the heap for the PDP-11.*)
(* Packets made up by wifid.c are on the heap as well.                     *)
(*                                                                         *)
(* Contents are left out but for the destination and for being longer than *)
(* the reader's ETH_FRAME_SIZE.  When the heap is used up, wifid.c writes  *)
(* through a null pointer: that is not modelled.                           *)
(***************************************************************************)
EXTENDS Integers, Sequences, FiniteSets, SequencesExt

CONSTANTS
    Buf,           \* the driver's receive buffers (eb)
    Size,          \* PDP11_IN_FLIGHT_PACKETS
    Heap,          \* how many packets the heap can hold
    None           \* no buffer: a packet on the heap

ASSUME WifiRxAssumption ==
    /\ None \notin Buf
    /\ Size \in Nat \ {0} /\ Heap \in Nat

Packet == [eb : Buf \cup {None}, long : BOOLEAN]

VARIABLES
    free,          \* receive buffers the driver may fill
    rxqueue,
    heap,          \* packets allocated on the heap
    lwip,          \* receive buffers that LWIP holds
    passing,       \* those the callback has still to hand to LWIP
    reading        \* the packet wifi_if_read has taken, or none: a sequence

vars == <<free, rxqueue, heap, lwip, passing, reading>>

Init ==
    /\ free = Buf
    /\ rxqueue = << >> /\ heap = 0
    /\ lwip = {} /\ passing = {} /\ reading = << >>

Room == Len(rxqueue) < Size
Enqueued(p) == IF Room THEN Append(rxqueue, p) ELSE rxqueue

-----------------------------------------------------------------------------
(* wlan_sta_rx_callback.  The driver calls it for one packet at a time.  A *)
(* packet without contents is given back at once and left out here.        *)

(* For the PDP-11 only: the buffer itself is queued.  A full queue drops   *)
(* the packet.                                                             *)
ReceiveForPdp(b) ==
    /\ b \in free /\ passing = {}
    /\ free' = free \ {b}
    /\ \E long \in BOOLEAN : rxqueue' = Enqueued([eb |-> b, long |-> long])
    /\ UNCHANGED <<heap, lwip, passing, reading>>

ReceiveForLwip(b) ==
    /\ b \in free /\ passing = {}
    /\ free' = free \ {b}
    /\ passing' = {b}
    /\ UNCHANGED <<rxqueue, heap, lwip, reading>>

(* Mutant: the two stacks share the buffer. *)
ReceiveForBothShared(b) ==
    /\ b \in free /\ passing = {}
    /\ heap < Heap
    /\ free' = free \ {b}
    /\ passing' = {b}
    /\ \E long \in BOOLEAN : rxqueue' = Enqueued([eb |-> b, long |-> long])
    /\ UNCHANGED <<heap, lwip, reading>>

(* For both: the PDP-11 gets a copy, which is freed when there is no room. *)
ReceiveForBoth(b) ==
    /\ b \in free /\ passing = {}
    /\ heap < Heap
    /\ free' = free \ {b}
    /\ passing' = {b}
    /\ \E long \in BOOLEAN : rxqueue' = Enqueued([eb |-> None, long |-> long])
    /\ heap' = IF Room THEN heap + 1 ELSE heap
    /\ UNCHANGED <<lwip, reading>>

(* Mutant: without memory for a copy the buffer is not given back. *)
ReceiveOutOfMemoryKeeps(b) ==
    /\ b \in free /\ passing = {}
    /\ heap = Heap
    /\ free' = free \ {b}
    /\ UNCHANGED <<rxqueue, heap, lwip, passing, reading>>

(* No memory for the copy: the buffer is given back, unused by either. *)
ReceiveOutOfMemory(b) ==
    /\ b \in free /\ passing = {}
    /\ heap = Heap
    /\ UNCHANGED vars

(* The end of the callback. *)
PassToLwip ==
    /\ passing # {}
    /\ lwip' = lwip \cup passing
    /\ passing' = {}
    /\ UNCHANGED <<free, rxqueue, heap, reading>>

(* wifi_netif_free_buffer *)
LwipFrees(b) ==
    /\ b \in lwip
    /\ lwip' = lwip \ {b}
    /\ free' = free \cup {b}
    /\ UNCHANGED <<rxqueue, heap, passing, reading>>

-----------------------------------------------------------------------------

(* wifi_if_wifid_send_to_pdp, from the event task or the simulator. *)
WifidSends ==
    /\ heap < Heap
    /\ rxqueue' = Enqueued([eb |-> None, long |-> FALSE])
    /\ heap' = IF Room THEN heap + 1 ELSE heap
    /\ UNCHANGED <<free, lwip, passing, reading>>

(* wifi_if_read, up to the copying of the packet. *)
ReadBegins ==
    /\ reading = << >> /\ rxqueue # << >>
    /\ reading' = <<Head(rxqueue)>>
    /\ rxqueue' = Tail(rxqueue)
    /\ UNCHANGED <<free, heap, lwip, passing>>

(* A receive buffer is given back.  A packet on the heap is freed, unless  *)
(* it is too long: then a null buffer is given back instead.               *)
ReadEnds ==
    /\ reading # << >>
    /\ LET p == Head(reading)
       IN  /\ free' = free \cup ({p.eb} \cap Buf)
           /\ heap' = IF p.eb = None /\ ~p.long THEN heap - 1 ELSE heap
    /\ reading' = << >>
    /\ UNCHANGED <<rxqueue, lwip, passing>>

Receive ==
    \E b \in Buf :
        \/ ReceiveForPdp(b) \/ ReceiveForLwip(b)
        \/ ReceiveForBoth(b) \/ ReceiveOutOfMemory(b)

Next ==
    \/ Receive \/ PassToLwip \/ WifidSends \/ ReadBegins \/ ReadEnds
    \/ \E b \in Buf : LwipFrees(b)

Spec == Init /\ [][Next]_vars

-----------------------------------------------------------------------------
Pending == rxqueue \o reading
Queued == {Pending[i].eb : i \in DOMAIN Pending} \ {None}
Lost == Buf \ (free \cup Queued \cup passing \cup lwip)
Copies == Cardinality({i \in DOMAIN Pending : Pending[i].eb = None})

(* Nobody reads a receive buffer that the driver may fill again, and       *)
(* nobody gives back a buffer that another still reads.                    *)
OneOwner ==
    /\ \A i, j \in DOMAIN Pending :
           Pending[i].eb = Pending[j].eb /\ Pending[i].eb # None => i = j
    /\ free \cap (Queued \cup passing \cup lwip) = {}
    /\ Queued \cap (passing \cup lwip) = {}
    /\ passing \cap lwip = {}

(* Memory is lost in two cases only: a receive buffer when the queue is    *)
(* full, and a copy that was too long for the reader.                      *)
LostOnlyWhen ==
    [][/\ Lost' \subseteq Lost \/ ~Room
       /\ heap' - Copies' = heap - Copies
              \/ (reading # << >> /\ Head(reading).long)]_vars
=============================================================================
