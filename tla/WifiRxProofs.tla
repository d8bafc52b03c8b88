---------------------------- MODULE WifiRxProofs ----------------------------
(***************************************************************************)
(* Proofs about WifiRx, for any set of receive buffers and any size of the *)
(* queue and of the heap: no buffer ever has two owners, and memory is     *)
(* lost in the two cases the code has and in no other.                     *)
(*                                                                         *)
(* OneOwner speaks of Pending, in which a step moves every index.  The     *)
(* inductive invariant says the same of the queue and of the packet being  *)
(* read apart.  The number of packets on the heap plays no part in it; the *)
(* second theorem counts them, over the same invariant.                    *)
(***************************************************************************)
EXTENDS WifiRx, SequenceTheorems, FiniteSetTheorems, TLAPS

Owned == free \cup passing \cup lwip

Types ==
    /\ free \subseteq Buf /\ lwip \subseteq Buf /\ passing \subseteq Buf
    /\ rxqueue \in Seq(Packet)
    /\ reading \in Seq(Packet) /\ Len(reading) <= 1

QueuedOnce ==
    \A i, j \in 1 .. Len(rxqueue) :
        rxqueue[i].eb = rxqueue[j].eb /\ rxqueue[i].eb # None => i = j

QueuedApart == \A i \in 1 .. Len(rxqueue) : rxqueue[i].eb \notin Owned

ReadApart ==
    reading # << >> =>
        /\ reading[1].eb \notin Owned
        /\ reading[1].eb # None =>
               \A i \in 1 .. Len(rxqueue) : rxqueue[i].eb # reading[1].eb

Apart == free \cap passing = {} /\ free \cap lwip = {} /\ passing \cap lwip = {}

IInv == Types /\ QueuedOnce /\ QueuedApart /\ ReadApart /\ Apart

USE DEF Owned

LEMMA InitHolds == Init => IInv
BY DEF Init, IInv, Types, QueuedOnce, QueuedApart, ReadApart, Apart

(* A packet that is queued, in a buffer that was the driver's or on the    *)
(* heap, finds no other in its buffer.                                     *)
LEMMA EnqueuedKeeps ==
    ASSUME IInv, NEW p \in Packet, p.eb \in free \cup {None},
           rxqueue' = Enqueued(p), reading' = reading, lwip' = lwip,
           free' \subseteq free, passing' \subseteq passing \cup (free \ free'),
           p.eb \notin free' \cup passing'
    PROVE  IInv'
<1>0. p.eb \notin passing \cup lwip \/ p.eb = None
    BY DEF IInv, Apart
<1>n. p.eb \notin lwip
    BY WifiRxAssumption, <1>0 DEF IInv, Types
<1>1. rxqueue' = rxqueue \/ rxqueue' = Append(rxqueue, p)
    BY DEF Enqueued
<1>2. Types'
    BY <1>1 DEF IInv, Types
<1>3. /\ Owned' \subseteq Owned
      /\ Apart'
    BY DEF IInv, Apart
<1>4. CASE rxqueue' = rxqueue
    BY <1>2, <1>3, <1>4 DEF IInv, QueuedOnce, QueuedApart, ReadApart
<1>5. CASE rxqueue' = Append(rxqueue, p)
    <2>1. /\ Len(rxqueue') = Len(rxqueue) + 1
          /\ rxqueue'[Len(rxqueue) + 1] = p
          /\ \A i \in 1 .. Len(rxqueue) : rxqueue'[i] = rxqueue[i]
          /\ Len(rxqueue) \in Nat
        BY <1>5 DEF IInv, Types
    <2>2. \A i \in 1 .. Len(rxqueue) : rxqueue[i].eb # p.eb \/ p.eb = None
        BY DEF IInv, QueuedApart
    <2>3. QueuedOnce'
        BY <2>1, <2>2 DEF IInv, QueuedOnce
    <2>4. QueuedApart'
        BY <2>1, <1>3, <1>n DEF IInv, QueuedApart
    <2>5. ReadApart'
        BY <2>1, <1>3 DEF IInv, ReadApart
    <2> QED BY <1>2, <1>3, <2>3, <2>4, <2>5 DEF IInv
<1> QED BY <1>1, <1>4, <1>5

(* A buffer that changes hands outside the queue stays in one hand.        *)
LEMMA HandedOnKeeps ==
    ASSUME IInv, UNCHANGED <<rxqueue, reading>>, Owned' \subseteq Owned, Apart',
           free' \subseteq Buf, lwip' \subseteq Buf, passing' \subseteq Buf
    PROVE  IInv'
BY DEF IInv, Types, QueuedOnce, QueuedApart, ReadApart

LEMMA ReadBeginsKeeps == IInv /\ ReadBegins => IInv'
<1> SUFFICES ASSUME IInv, ReadBegins PROVE IInv'
    OBVIOUS
<1>1. /\ Len(rxqueue) \in Nat \ {0}
      /\ Head(rxqueue) = rxqueue[1] /\ rxqueue[1] \in Packet
      /\ rxqueue' \in Seq(Packet) /\ Len(rxqueue') = Len(rxqueue) - 1
      /\ \A i \in 1 .. Len(rxqueue') : rxqueue'[i] = rxqueue[i + 1]
    BY HeadTailProperties DEF ReadBegins, IInv, Types
<1>2. /\ reading' \in Seq(Packet) /\ Len(reading') = 1 /\ reading'[1] = rxqueue[1]
    BY <1>1 DEF ReadBegins
<1>3. Owned' = Owned /\ Types' /\ Apart'
    BY <1>1, <1>2 DEF ReadBegins, IInv, Types, Apart
<1>4. QueuedOnce' /\ QueuedApart'
    <2>1. \A i \in 1 .. Len(rxqueue') :
              i + 1 \in 1 .. Len(rxqueue) /\ rxqueue'[i].eb = rxqueue[i + 1].eb
        BY <1>1
    <2>2. ASSUME NEW i \in 1 .. Len(rxqueue'), NEW j \in 1 .. Len(rxqueue'),
                 rxqueue'[i].eb = rxqueue'[j].eb, rxqueue'[i].eb # None
          PROVE  i = j
        <3>1. i + 1 = j + 1
            BY <2>1, <2>2 DEF IInv, QueuedOnce
        <3> QED BY <1>1, <3>1
    <2>3. QueuedApart'
        BY <2>1, <1>3 DEF IInv, QueuedApart
    <2> QED BY <2>2, <2>3 DEF QueuedOnce
<1>5. ReadApart'
    <2>1. \A i \in 1 .. Len(rxqueue') :
              i + 1 \in 1 .. Len(rxqueue) /\ i + 1 # 1
        BY <1>1
    <2> QED BY <1>1, <1>2, <1>3, <2>1 DEF IInv, QueuedOnce, QueuedApart, ReadApart
<1> QED BY <1>3, <1>4, <1>5 DEF IInv

LEMMA ReadEndsKeeps == IInv /\ ReadEnds => IInv'
<1> SUFFICES ASSUME IInv, ReadEnds PROVE IInv'
    OBVIOUS
<1> DEFINE eb == reading[1].eb
<1>1. /\ free' = free \cup ({eb} \cap Buf)
      /\ reading' = << >>
      /\ UNCHANGED <<rxqueue, lwip, passing>>
      /\ reading # << >>
    BY DEF ReadEnds, IInv, Types
<1>2. eb \notin Owned
    BY <1>1 DEF IInv, ReadApart
<1>3. Types' /\ Apart'
    BY <1>1, <1>2 DEF IInv, Types, Apart
<1>4. QueuedOnce' /\ ReadApart'
    BY <1>1 DEF IInv, QueuedOnce, ReadApart
<1>5. QueuedApart'
    BY <1>1, WifiRxAssumption DEF IInv, QueuedApart, ReadApart
<1> QED BY <1>3, <1>4, <1>5 DEF IInv

LEMMA StepKeeps == IInv /\ [Next]_vars => IInv'
<1> SUFFICES ASSUME IInv, [Next]_vars PROVE IInv'
    OBVIOUS
<1>1. ASSUME NEW b \in Buf, ReceiveForPdp(b) PROVE IInv'
    <2>1. PICK long \in BOOLEAN : rxqueue' = Enqueued([eb |-> b, long |-> long])
        BY <1>1 DEF ReceiveForPdp
    <2>2. b \notin passing
        BY <1>1 DEF ReceiveForPdp
    <2> QED BY <1>1, <2>1, <2>2, EnqueuedKeeps DEF ReceiveForPdp, Packet
<1>2. ASSUME NEW b \in Buf, ReceiveForLwip(b) PROVE IInv'
    BY <1>2, HandedOnKeeps DEF ReceiveForLwip, IInv, Types, Apart
<1>3. ASSUME NEW b \in Buf, ReceiveForBoth(b) PROVE IInv'
    <2>1. PICK long \in BOOLEAN : rxqueue' = Enqueued([eb |-> None, long |-> long])
        BY <1>3 DEF ReceiveForBoth
    <2>2. None \notin free' \cup passing'
        BY <1>3, WifiRxAssumption DEF ReceiveForBoth, IInv, Types
    <2> QED BY <1>3, <2>1, <2>2, EnqueuedKeeps DEF ReceiveForBoth, Packet
<1>4. ASSUME NEW b \in Buf, LwipFrees(b) PROVE IInv'
    BY <1>4, HandedOnKeeps DEF LwipFrees, IInv, Types, Apart
<1>5. CASE PassToLwip
    BY <1>5, HandedOnKeeps DEF PassToLwip, IInv, Types, Apart
<1>6. CASE WifidSends
    <2>1. None \notin free' \cup passing'
        BY <1>6, WifiRxAssumption DEF WifidSends, IInv, Types
    <2> QED BY <1>6, <2>1, EnqueuedKeeps DEF WifidSends, Packet
<1>7. CASE UNCHANGED vars
    BY <1>7, HandedOnKeeps DEF vars, IInv, Types, Apart
<1>8. ASSUME NEW b \in Buf, ReceiveOutOfMemory(b) PROVE IInv'
    BY <1>7, <1>8 DEF ReceiveOutOfMemory
<1> QED BY <1>1, <1>2, <1>3, <1>4, <1>5, <1>6, <1>7, <1>8,
           ReadBeginsKeeps, ReadEndsKeeps DEF Next, Receive

(* What the inductive invariant says of queue and reader, said of Pending. *)
LEMMA OneOwnerFollows == IInv => OneOwner
<1> SUFFICES ASSUME IInv PROVE OneOwner
    OBVIOUS
<1>1. /\ Len(rxqueue) \in Nat /\ Len(reading) \in {0, 1}
      /\ Len(Pending) = Len(rxqueue) + Len(reading)
      /\ DOMAIN Pending = 1 .. Len(Pending)
      /\ reading # << >> <=> Len(reading) = 1
    <2>1. rxqueue \in Seq(Packet) /\ reading \in Seq(Packet) /\ Len(reading) <= 1
        BY DEF IInv, Types
    <2>2. Len(rxqueue) \in Nat /\ Len(reading) \in Nat
        BY <2>1, LenProperties
    <2>3. reading # << >> <=> Len(reading) = 1
        <3>1. CASE reading = << >>
            BY <3>1
        <3>2. CASE reading # << >>
            <4>1. Len(reading) \in Nat \ {0}
                BY <2>1, <3>2, EmptySeq
            <4>2. Len(reading) <= 1
                BY <2>1
            <4>3. \A n \in Nat \ {0} : n <= 1 => n = 1
                OBVIOUS
            <4>4. Len(reading) = 1
                BY <4>1, <4>2, <4>3
            <4> QED BY <3>2, <4>4
        <3> QED BY <3>1, <3>2
    <2>4. Pending \in Seq(Packet) /\ Len(Pending) = Len(rxqueue) + Len(reading)
        BY <2>1, ConcatProperties DEF Pending
    <2> QED BY <2>1, <2>2, <2>3, <2>4
<1>2. \A i \in DOMAIN Pending :
          \/ i \in 1 .. Len(rxqueue) /\ Pending[i] = rxqueue[i]
          \/ i = Len(rxqueue) + 1 /\ reading # << >> /\ Pending[i] = reading[1]
    BY <1>1 DEF Pending, IInv, Types
<1>3. \A i, j \in DOMAIN Pending :
          Pending[i].eb = Pending[j].eb /\ Pending[i].eb # None => i = j
    BY <1>1, <1>2 DEF IInv, QueuedOnce, ReadApart
<1>4. Queued \cap Owned = {}
    BY <1>2 DEF Queued, IInv, QueuedApart, ReadApart
<1> QED BY <1>3, <1>4 DEF OneOwner, IInv, Apart

(* wifi_if_esp32.c, all of its paths: nobody reads a receive buffer that   *)
(* the driver may fill again, or gives back one that another still reads.  *)
THEOREM BufferOwned == Spec => []OneOwner
<1>1. Spec => []IInv
    BY InitHolds, StepKeeps, PTL DEF Spec
<1> QED BY <1>1, OneOwnerFollows, PTL

-----------------------------------------------------------------------------
(* What is lost.  The copies are counted where they are: in the queue, and *)
(* in the reader's hand.                                                   *)

OnHeap(q) == {i \in 1 .. Len(q) : q[i].eb = None}
CopiesOf(q) == Cardinality(OnHeap(q))
One(p) == IF p.eb = None THEN 1 ELSE 0
Bufs(q) == {q[i].eb : i \in 1 .. Len(q)}

LEMMA CopiesNat ==
    ASSUME NEW q \in Seq(Packet)
    PROVE  IsFiniteSet(OnHeap(q)) /\ CopiesOf(q) \in Nat
<1>1. IsFiniteSet(1 .. Len(q))
    BY FS_Interval
<1>2. IsFiniteSet(OnHeap(q))
    BY <1>1, FS_Subset DEF OnHeap
<1> QED BY <1>2, FS_CardinalityType DEF CopiesOf

LEMMA AppendCounted ==
    ASSUME NEW q \in Seq(Packet), NEW p \in Packet
    PROVE  /\ CopiesOf(Append(q, p)) = CopiesOf(q) + One(p)
           /\ Bufs(Append(q, p)) = Bufs(q) \cup {p.eb}
<1> DEFINE r == Append(q, p)
           n == Len(q)
<1>1. /\ n \in Nat /\ Len(r) = n + 1 /\ r[n + 1] = p
      /\ \A i \in 1 .. n : r[i] = q[i]
    OBVIOUS
<1>2. OnHeap(r) = OnHeap(q) \cup (IF p.eb = None THEN {n + 1} ELSE {})
    BY <1>1 DEF OnHeap
<1>3. n + 1 \notin OnHeap(q)
    BY <1>1 DEF OnHeap
<1>4. CopiesOf(r) = CopiesOf(q) + One(p)
    <2>1. CASE p.eb = None
        <3>1. OnHeap(r) = OnHeap(q) \cup {n + 1}
            BY <1>2, <2>1
        <3>2. Cardinality(OnHeap(q) \cup {n + 1}) = Cardinality(OnHeap(q)) + 1
            BY <1>3, CopiesNat, FS_AddElement
        <3> QED BY <2>1, <3>1, <3>2 DEF CopiesOf, One
    <2>2. CASE p.eb # None
        <3>1. OnHeap(r) = OnHeap(q)
            BY <1>2, <2>2
        <3> QED BY <2>2, <3>1, CopiesNat DEF CopiesOf, One
    <2> QED BY <2>1, <2>2
<1>5. Bufs(r) = Bufs(q) \cup {p.eb}
    BY <1>1 DEF Bufs
<1> QED BY <1>4, <1>5

LEMMA TailCounted ==
    ASSUME NEW q \in Seq(Packet), q # << >>
    PROVE  /\ CopiesOf(q) = CopiesOf(Tail(q)) + One(q[1])
           /\ Bufs(q) = Bufs(Tail(q)) \cup {q[1].eb}
<1> DEFINE t == Tail(q)
           up == [i \in OnHeap(t) |-> i + 1]
           Rest == OnHeap(q) \ {1}
<1>1. /\ Len(q) \in Nat \ {0} /\ t \in Seq(Packet) /\ Len(t) = Len(q) - 1
      /\ q[1] \in Packet
      /\ \A i \in 1 .. Len(t) : t[i] = q[i + 1]
    BY HeadTailProperties
<1>2. OnHeap(t) \subseteq Nat /\ \A i \in OnHeap(t) : i + 1 \in Rest
    BY <1>1 DEF OnHeap
<1>3. \A j \in Rest : j - 1 \in OnHeap(t) /\ (j - 1) + 1 = j
    BY <1>1 DEF OnHeap
<1>4. up \in Bijection(OnHeap(t), Rest)
    <2>1. up \in [OnHeap(t) -> Rest]
        BY <1>2
    <2>2. \A a, b \in OnHeap(t) : up[a] = up[b] => a = b
        BY <1>2
    <2>3. \A j \in Rest : \E i \in OnHeap(t) : up[i] = j
        BY <1>3
    <2> QED BY <2>1, <2>2, <2>3 DEF Bijection, Injection, Surjection, IsInjective
<1>5. Cardinality(Rest) = CopiesOf(t)
    <2>1. ExistsBijection(OnHeap(t), Rest)
        BY <1>4 DEF ExistsBijection
    <2> QED BY <1>1, <2>1, CopiesNat, FS_Bijection DEF CopiesOf
<1>6. CopiesOf(q) = CopiesOf(t) + One(q[1])
    <2>1. IsFiniteSet(OnHeap(q)) /\ CopiesOf(q) \in Nat
        BY CopiesNat
    <2>2. CASE q[1].eb = None
        <3>1. 1 \in OnHeap(q)
            BY <1>1, <2>2 DEF OnHeap
        <3>2. Cardinality(Rest) = Cardinality(OnHeap(q)) - 1
            BY <2>1, <3>1, FS_RemoveElement
        <3> QED BY <1>5, <2>1, <2>2, <3>2 DEF CopiesOf, One
    <2>3. CASE q[1].eb # None
        <3>1. Rest = OnHeap(q)
            BY <2>3 DEF OnHeap
        <3>2. CopiesOf(q) = CopiesOf(t) /\ One(q[1]) = 0
            BY <1>5, <2>3, <3>1 DEF CopiesOf, One
        <3> HIDE DEF t
        <3> QED BY <2>1, <3>2
    <2> QED BY <2>2, <2>3
<1>7. Bufs(q) = Bufs(t) \cup {q[1].eb}
    <2>1. \A i \in 1 .. Len(t) : i + 1 \in 1 .. Len(q) /\ t[i] = q[i + 1]
        BY <1>1
    <2>2. \A j \in 1 .. Len(q) : j = 1 \/ (j - 1 \in 1 .. Len(t) /\ t[j - 1] = q[j])
        BY <1>1
    <2>3. 1 \in 1 .. Len(q)
        BY <1>1
    <2> QED BY <2>1, <2>2, <2>3 DEF Bufs
<1> QED BY <1>6, <1>7

InHand == IF reading = << >> THEN 0 ELSE One(reading[1])
HandBuf == IF reading = << >> THEN {} ELSE {reading[1].eb}

LEMMA PendingSplit ==
    Types => /\ Copies = CopiesOf(rxqueue) + InHand
             /\ Queued = (Bufs(rxqueue) \cup HandBuf) \ {None}
             /\ CopiesOf(rxqueue) \in Nat /\ InHand \in {0, 1}
<1> SUFFICES ASSUME Types
             PROVE  /\ Copies = CopiesOf(rxqueue) + InHand
                    /\ Queued = (Bufs(rxqueue) \cup HandBuf) \ {None}
                    /\ CopiesOf(rxqueue) \in Nat /\ InHand \in {0, 1}
    OBVIOUS
<1>1. CopiesOf(rxqueue) \in Nat
    BY CopiesNat DEF Types
<1>2. Copies = CopiesOf(Pending) /\ Queued = Bufs(Pending) \ {None}
    <2>1. Pending \in Seq(Packet)
        BY ConcatProperties DEF Pending, Types
    <2>2. DOMAIN Pending = 1 .. Len(Pending)
        BY <2>1
    <2> QED BY <2>2 DEF Copies, Queued, CopiesOf, OnHeap, Bufs
<1>3. CASE reading = << >>
    <2>1. Pending = rxqueue
        BY <1>3, ConcatEmptySeq DEF Pending, Types
    <2> QED BY <1>1, <1>2, <1>3, <2>1 DEF InHand, HandBuf
<1>4. CASE reading # << >>
    <2>1. Len(reading) = 1 /\ reading[1] \in Packet
        <3>1. Len(reading) \in Nat \ {0} /\ Len(reading) <= 1
            BY <1>4, EmptySeq DEF Types
        <3>2. \A n \in Nat \ {0} : n <= 1 => n = 1
            OBVIOUS
        <3>3. Len(reading) = 1
            BY <3>1, <3>2
        <3> QED BY <3>3 DEF Types
    <2>2. Pending = Append(rxqueue, reading[1])
        <3>1. rxqueue \in Seq(Packet) /\ reading \in Seq(Packet)
            BY DEF Types
        <3>2. reading = <<reading[1]>>
            BY <2>1, <3>1
        <3> QED BY <2>1, <3>1, <3>2, AppendIsConcat DEF Pending
    <2>3. One(reading[1]) \in {0, 1}
        BY DEF One
    <2> QED BY <1>1, <1>2, <1>4, <2>1, <2>2, <2>3, AppendCounted DEF InHand, HandBuf, Types
<1> QED BY <1>3, <1>4

HInv == IInv /\ heap \in Int

LEMMA HeapKeeps == HInv /\ [Next]_vars => HInv'
<1> SUFFICES ASSUME HInv, [Next]_vars PROVE HInv'
    OBVIOUS
<1>1. IInv'
    BY StepKeeps DEF HInv
<1>2. heap' \in Int
    BY DEF HInv, Next, Receive, ReceiveForPdp, ReceiveForLwip, ReceiveForBoth,
           ReceiveOutOfMemory, PassToLwip, WifidSends, ReadBegins, ReadEnds,
           LwipFrees, vars
<1> QED BY <1>1, <1>2 DEF HInv

(* What the action property says of one step. *)
NoMoreLost ==
    /\ Lost' \subseteq Lost \/ ~Room
    /\ heap' - Copies' = heap - Copies \/ (reading # << >> /\ Head(reading).long)

(* Whatever is not lost has one of these places, before and after. *)
LEMMA Placed ==
    Types => Lost = Buf \ (Owned \cup Bufs(rxqueue) \cup HandBuf)
BY PendingSplit, WifiRxAssumption DEF Lost

LEMMA PrimedSplit ==
    Types' => /\ Copies' = CopiesOf(rxqueue') + InHand'
              /\ Lost' = Buf \ (Owned' \cup Bufs(rxqueue') \cup HandBuf')
<1>1. (Types => /\ Copies = CopiesOf(rxqueue) + InHand
                /\ Queued = (Bufs(rxqueue) \cup HandBuf) \ {None}
                /\ CopiesOf(rxqueue) \in Nat /\ InHand \in {0, 1})'
    BY PendingSplit, PTL
<1>2. (Types => Lost = Buf \ (Owned \cup Bufs(rxqueue) \cup HandBuf))'
    BY Placed, PTL
<1> QED BY <1>1, <1>2

LEMMA Enqueues ==
    ASSUME HInv, HInv', NEW p \in Packet, rxqueue' = Enqueued(p), reading' = reading,
           heap' = IF Room THEN heap + One(p) ELSE heap,
           Room => Owned \subseteq Owned' \cup {p.eb}
    PROVE  NoMoreLost
<1>1. Types /\ Types' /\ heap \in Int
    BY DEF HInv, IInv
<1>2. InHand' = InHand /\ HandBuf' = HandBuf
    BY DEF InHand, HandBuf
<1>3. /\ Copies = CopiesOf(rxqueue) + InHand
      /\ CopiesOf(rxqueue) \in Nat /\ InHand \in {0, 1}
      /\ Lost = Buf \ (Owned \cup Bufs(rxqueue) \cup HandBuf)
    BY <1>1, PendingSplit, Placed
<1>4. /\ Copies' = CopiesOf(rxqueue') + InHand'
      /\ Lost' = Buf \ (Owned' \cup Bufs(rxqueue') \cup HandBuf')
    BY <1>1, PrimedSplit
<1>5. CASE Room
    <2>1. rxqueue' = Append(rxqueue, p) /\ rxqueue \in Seq(Packet)
        BY <1>1, <1>5 DEF Enqueued, Types
    <2>2. /\ CopiesOf(rxqueue') = CopiesOf(rxqueue) + One(p)
          /\ Bufs(rxqueue') = Bufs(rxqueue) \cup {p.eb}
        BY <2>1, AppendCounted
    <2>3. One(p) \in {0, 1} /\ heap' = heap + One(p)
        BY <1>5 DEF One
    <2>4. heap' - Copies' = heap - Copies
        BY <1>1, <1>2, <1>3, <1>4, <2>2, <2>3
    <2>5. Lost' \subseteq Lost
        BY <1>2, <1>3, <1>4, <1>5, <2>2
    <2> QED BY <2>4, <2>5 DEF NoMoreLost
<1>6. CASE ~Room
    <2>1. rxqueue' = rxqueue /\ heap' = heap
        BY <1>6 DEF Enqueued
    <2> QED BY <1>2, <1>3, <1>4, <1>6, <2>1 DEF NoMoreLost
<1> QED BY <1>5, <1>6

(* Buffers that change hands outside the queue are not lost. *)
LEMMA HandsOn ==
    ASSUME HInv, UNCHANGED <<rxqueue, reading, heap>>, Owned \subseteq Owned'
    PROVE  NoMoreLost
BY DEF NoMoreLost, Lost, Copies, Queued, Pending

LEMMA ReadBeginsLosesNone == HInv /\ HInv' /\ ReadBegins => NoMoreLost
<1> SUFFICES ASSUME HInv, HInv', ReadBegins PROVE NoMoreLost
    OBVIOUS
<1>1. Types /\ Types'
    BY DEF HInv, IInv
<1>2. /\ rxqueue \in Seq(Packet) /\ rxqueue # << >> /\ Head(rxqueue) = rxqueue[1]
      /\ reading = << >> /\ reading' = <<rxqueue[1]>> /\ rxqueue' = Tail(rxqueue)
      /\ Owned' = Owned /\ heap' = heap
    BY <1>1, HeadTailProperties DEF ReadBegins, Types
<1>3. /\ CopiesOf(rxqueue) = CopiesOf(rxqueue') + One(rxqueue[1])
      /\ Bufs(rxqueue) = Bufs(rxqueue') \cup {rxqueue[1].eb}
    BY <1>2, TailCounted
<1>4. InHand = 0 /\ HandBuf = {} /\ InHand' = One(rxqueue[1]) /\ HandBuf' = {rxqueue[1].eb}
    BY <1>2 DEF InHand, HandBuf
<1>5. /\ Copies = CopiesOf(rxqueue) + InHand /\ CopiesOf(rxqueue) \in Nat
      /\ Lost = Buf \ (Owned \cup Bufs(rxqueue) \cup HandBuf)
    BY <1>1, PendingSplit, Placed
<1>6. /\ Copies' = CopiesOf(rxqueue') + InHand'
      /\ Lost' = Buf \ (Owned' \cup Bufs(rxqueue') \cup HandBuf')
    BY <1>1, PrimedSplit
<1>7. Copies' = Copies
    BY <1>3, <1>4, <1>5, <1>6
<1>8. Lost' = Lost
    BY <1>2, <1>3, <1>4, <1>5, <1>6
<1> QED BY <1>2, <1>7, <1>8 DEF NoMoreLost

LEMMA ReadEndsLosesLong == HInv /\ HInv' /\ ReadEnds => NoMoreLost
<1> SUFFICES ASSUME HInv, HInv', ReadEnds PROVE NoMoreLost
    OBVIOUS
<1> DEFINE p == reading[1]
<1>1. Types /\ Types' /\ heap \in Int
    BY DEF HInv, IInv
<1>2. /\ reading # << >> /\ Head(reading) = p /\ p \in Packet
      /\ free' = free \cup ({p.eb} \cap Buf)
      /\ heap' = IF p.eb = None /\ ~p.long THEN heap - 1 ELSE heap
      /\ reading' = << >>
      /\ UNCHANGED <<rxqueue, lwip, passing>>
    <2>1. reading \in Seq(Packet) /\ reading # << >>
        BY <1>1 DEF ReadEnds, Types
    <2>2. Head(reading) = p /\ p \in Packet
        BY <2>1, HeadTailProperties, EmptySeq
    <2> QED BY <2>1, <2>2 DEF ReadEnds
<1>3. InHand = One(p) /\ HandBuf = {p.eb} /\ InHand' = 0 /\ HandBuf' = {}
    BY <1>2 DEF InHand, HandBuf
<1>4. /\ Copies = CopiesOf(rxqueue) + InHand /\ CopiesOf(rxqueue) \in Nat
      /\ Lost = Buf \ (Owned \cup Bufs(rxqueue) \cup HandBuf)
    BY <1>1, PendingSplit, Placed
<1>5. /\ Copies' = CopiesOf(rxqueue') + InHand'
      /\ Lost' = Buf \ (Owned' \cup Bufs(rxqueue') \cup HandBuf')
    BY <1>1, PrimedSplit
<1>6. Copies' = CopiesOf(rxqueue) /\ Copies = CopiesOf(rxqueue) + One(p)
    BY <1>2, <1>3, <1>4, <1>5
<1>7. Lost' = Lost
    BY <1>2, <1>3, <1>4, <1>5
<1>8. heap' - Copies' = heap - Copies \/ p.long
    <2>1. CASE p.eb = None /\ ~p.long
        <3>1. heap' = heap - 1 /\ One(p) = 1
            BY <1>2, <2>1 DEF One
        <3> QED BY <1>1, <1>4, <1>6, <3>1
    <2>2. CASE p.eb # None
        <3>1. heap' = heap /\ One(p) = 0
            BY <1>2, <2>2 DEF One
        <3> QED BY <1>1, <1>4, <1>6, <3>1
    <2> QED BY <2>1, <2>2
<1> QED BY <1>2, <1>7, <1>8 DEF NoMoreLost

LEMMA StepLosesNoMore == HInv /\ HInv' /\ [Next]_vars => NoMoreLost
<1> SUFFICES ASSUME HInv, HInv', [Next]_vars PROVE NoMoreLost
    OBVIOUS
<1>1. ASSUME NEW b \in Buf, ReceiveForPdp(b) PROVE NoMoreLost
    <2>1. PICK long \in BOOLEAN : rxqueue' = Enqueued([eb |-> b, long |-> long])
        BY <1>1 DEF ReceiveForPdp
    <2>2. [eb |-> b, long |-> long] \in Packet
        BY DEF Packet
    <2>3. heap' = heap /\ One([eb |-> b, long |-> long]) = 0 /\ heap \in Int
        BY <1>1, WifiRxAssumption DEF ReceiveForPdp, One, HInv
    <2>4. Owned \subseteq Owned' \cup {b} /\ reading' = reading
        BY <1>1 DEF ReceiveForPdp
    <2> QED BY <2>1, <2>2, <2>3, <2>4, Enqueues
<1>2. ASSUME NEW b \in Buf, ReceiveForLwip(b) PROVE NoMoreLost
    BY <1>2, HandsOn DEF ReceiveForLwip
<1>3. ASSUME NEW b \in Buf, ReceiveForBoth(b) PROVE NoMoreLost
    <2>1. PICK long \in BOOLEAN : rxqueue' = Enqueued([eb |-> None, long |-> long])
        BY <1>3 DEF ReceiveForBoth
    <2>2. [eb |-> None, long |-> long] \in Packet
        BY DEF Packet
    <2>3. /\ One([eb |-> None, long |-> long]) = 1
          /\ heap' = IF Room THEN heap + 1 ELSE heap
        BY <1>3 DEF ReceiveForBoth, One
    <2>4. Owned \subseteq Owned' /\ reading' = reading
        BY <1>3 DEF ReceiveForBoth
    <2> QED BY <2>1, <2>2, <2>3, <2>4, Enqueues
<1>4. ASSUME NEW b \in Buf, LwipFrees(b) PROVE NoMoreLost
    BY <1>4, HandsOn DEF LwipFrees
<1>5. CASE PassToLwip
    BY <1>5, HandsOn DEF PassToLwip
<1>6. CASE WifidSends
    <2> DEFINE p == [eb |-> None, long |-> FALSE]
    <2>1. p \in Packet /\ One(p) = 1
        BY DEF Packet, One
    <2>2. /\ rxqueue' = Enqueued(p) /\ heap' = IF Room THEN heap + 1 ELSE heap
          /\ Owned \subseteq Owned' /\ reading' = reading
        BY <1>6 DEF WifidSends
    <2> QED BY <2>1, <2>2, Enqueues
<1>7. CASE UNCHANGED vars
    BY <1>7, HandsOn DEF vars
<1>8. ASSUME NEW b \in Buf, ReceiveOutOfMemory(b) PROVE NoMoreLost
    BY <1>7, <1>8 DEF ReceiveOutOfMemory
<1> QED BY <1>1, <1>2, <1>3, <1>4, <1>5, <1>6, <1>7, <1>8,
           ReadBeginsLosesNone, ReadEndsLosesLong DEF Next, Receive

(* wifi_if_esp32.c, all of its paths: a receive buffer is lost only when   *)
(* the queue of the PDP-11 is full, and a packet on the heap only when it  *)
(* was too long for the reader, for any number of buffers, any queue and   *)
(* any heap.                                                               *)
THEOREM LostInTwoCases == Spec => LostOnlyWhen
<1>1. Init => HInv
    BY InitHolds DEF HInv, Init
<1>2. Spec => []HInv
    BY <1>1, HeapKeeps, PTL DEF Spec
<1>3. HInv /\ HInv' /\ [Next]_vars => [NoMoreLost]_vars
    BY StepLosesNoMore
<1>4. Spec => [][NoMoreLost]_vars
    BY <1>2, <1>3, PTL DEF Spec
<1> QED BY <1>4 DEF LostOnlyWhen, NoMoreLost
=============================================================================
