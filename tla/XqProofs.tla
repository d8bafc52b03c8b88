------------------------------ MODULE XqProofs ------------------------------
(***************************************************************************)
(* The receiver keeps polling, a driver that sleeps is called for what     *)
(* awaits it, and what it reads is in order and accounted for, for every   *)
(* size of the lists and the read queue, every driver and every order of   *)
(* frames, resets and services: invariants of controller, list, driver and *)
(* network, with the loops of the handlers by induction over their rounds. *)
(***************************************************************************)
EXTENDS Xq, WellFoundedInduction, TLAPS

-----------------------------------------------------------------------------
(* Loops                                                                   *)

(* Induction over the rounds of a loop, as a set of their numbers.         *)
LEMMA Climb ==
    ASSUME NEW K \in Nat, NEW B, 0 \in B, \A n \in 0 .. K - 1 : n \in B => n + 1 \in B
    PROVE  0 .. K \subseteq B
<1> DEFINE T == (0 .. K) \ B
<1> SUFFICES ASSUME T # {} PROVE FALSE
  OBVIOUS
<1>1. PICK m \in T : \A k \in T : ~ (<<k, m>> \in OpToRel(<, Nat))
  <2> T \subseteq Nat
    OBVIOUS
  <2> QED BY NatLessThanWellFounded, WFMin
<1>2. \A k \in T : ~ (k < m)
  <2> T \subseteq Nat
    OBVIOUS
  <2> QED BY <1>1 DEF OpToRel
<1>3. m # 0 /\ m \in 1 .. K
  OBVIOUS
<1>4. m - 1 \in 0 .. K - 1 /\ m - 1 < m /\ m = (m - 1) + 1
  BY <1>3
<1>5. m - 1 \in B
  BY <1>2, <1>4
<1> QED BY <1>3, <1>4, <1>5

(* The rounds of the loops, one after the other.                            *)
LEMMA ReceiveLoop ==
    ASSUME NEW s
    PROVE  /\ ReceiveRounds(s)[0] = [s |-> s, start |-> NRx + 1, on |-> TRUE]
           /\ \A n \in 0 .. NRx + 1 : ReceiveRounds(s)[n + 1] = ReceiveNext(ReceiveRounds(s)[n])
<1> DEFINE a == [s |-> s, start |-> NRx + 1, on |-> TRUE]
           K == NRx + 2
           Rule(f, n) == f = [k \in 0 .. n |-> IF k = 0 THEN a ELSE ReceiveNext(f[k - 1])]
           B == {n \in 0 .. K : \E f : Rule(f, n)}
<1>0. K \in Nat
  BY XqAssumption
<1> HIDE DEF a, K
<1>1. 0 \in B
  <2> DEFINE f == [k \in 0 .. 0 |-> a]
  <2>1. ASSUME NEW k \in 0 .. 0
        PROVE  f[k] = IF k = 0 THEN a ELSE ReceiveNext(f[k - 1])
    OBVIOUS
  <2>2. f = [k \in 0 .. 0 |-> f[k]]
    OBVIOUS
  <2> HIDE DEF f
  <2>3. f = [k \in 0 .. 0 |-> IF k = 0 THEN a ELSE ReceiveNext(f[k - 1])]
    BY <2>1, <2>2
  <2> QED BY <1>0, <2>3
<1>2. ASSUME NEW n \in 0 .. K - 1, n \in B PROVE n + 1 \in B
  <2>1. PICK f : Rule(f, n)
    BY <1>2
  <2> DEFINE next == ReceiveNext(f[n])
             h == [k \in 0 .. n + 1 |-> IF k = n + 1 THEN next ELSE f[k]]
  <2>2. n \in Nat /\ n + 1 \in 0 .. K
    BY <1>0
  <2>3. ASSUME NEW k \in 0 .. n + 1
        PROVE  h[k] = IF k = 0 THEN a ELSE ReceiveNext(h[k - 1])
    <3>1. CASE k = 0
      BY <2>1, <2>2, <3>1
    <3>2. CASE k \in 1 .. n
      <4>1. h[k] = f[k] /\ h[k - 1] = f[k - 1]
        BY <2>2, <3>2
      <4>2. f[k] = ReceiveNext(f[k - 1])
        BY <2>1, <2>2, <3>2
      <4> QED BY <3>2, <4>1, <4>2
    <3>3. CASE k = n + 1
      <4>1. h[k] = next /\ h[k - 1] = f[n] /\ k - 1 = n
        BY <2>2, <3>3
      <4> QED BY <2>2, <3>3, <4>1
    <3> QED BY <2>2, <3>1, <3>2, <3>3
  <2>4. Rule(h, n + 1)
    BY <2>3
  <2> QED BY <2>2, <2>4
<1>3. K \in B
  <2> HIDE DEF B
  <2> 0 .. K \subseteq B
    BY <1>0, <1>1, <1>2, Climb
  <2> QED BY <1>0
<1>4. PICK f : Rule(f, K)
  BY <1>3
<1> DEFINE r == ReceiveRounds(s)
<1>5. r = [k \in 0 .. K |-> IF k = 0 THEN a ELSE ReceiveNext(r[k - 1])]
  BY <1>4 DEF ReceiveRounds, a, K
<1> HIDE DEF r
<1>6. r[0] = a
  BY <1>0, <1>5
<1>7. ASSUME NEW n \in 0 .. K - 1 PROVE r[n + 1] = ReceiveNext(r[n])
  <2>1. n + 1 \in 0 .. K /\ n + 1 # 0 /\ (n + 1) - 1 = n
    BY <1>0
  <2> QED BY <1>5, <2>1
<1>8. 0 .. K - 1 = 0 .. NRx + 1
  BY XqAssumption DEF K
<1> QED BY <1>6, <1>7, <1>8 DEF r, a

LEMMA TurboReceiveLoop ==
    ASSUME NEW s
    PROVE  /\ TurboReceiveRounds(s)[0] = [s |-> s, consumed |-> FALSE]
           /\ \A n \in 0 .. NRx - 1 : TurboReceiveRounds(s)[n + 1] = TurboReceiveRound(TurboReceiveRounds(s)[n])
<1> DEFINE a == [s |-> s, consumed |-> FALSE]
           K == NRx
           Rule(f, n) == f = [k \in 0 .. n |-> IF k = 0 THEN a ELSE TurboReceiveRound(f[k - 1])]
           B == {n \in 0 .. K : \E f : Rule(f, n)}
<1>0. K \in Nat
  BY XqAssumption
<1> HIDE DEF a, K
<1>1. 0 \in B
  <2> DEFINE f == [k \in 0 .. 0 |-> a]
  <2>1. ASSUME NEW k \in 0 .. 0
        PROVE  f[k] = IF k = 0 THEN a ELSE TurboReceiveRound(f[k - 1])
    OBVIOUS
  <2>2. f = [k \in 0 .. 0 |-> f[k]]
    OBVIOUS
  <2> HIDE DEF f
  <2>3. f = [k \in 0 .. 0 |-> IF k = 0 THEN a ELSE TurboReceiveRound(f[k - 1])]
    BY <2>1, <2>2
  <2> QED BY <1>0, <2>3
<1>2. ASSUME NEW n \in 0 .. K - 1, n \in B PROVE n + 1 \in B
  <2>1. PICK f : Rule(f, n)
    BY <1>2
  <2> DEFINE next == TurboReceiveRound(f[n])
             h == [k \in 0 .. n + 1 |-> IF k = n + 1 THEN next ELSE f[k]]
  <2>2. n \in Nat /\ n + 1 \in 0 .. K
    BY <1>0
  <2>3. ASSUME NEW k \in 0 .. n + 1
        PROVE  h[k] = IF k = 0 THEN a ELSE TurboReceiveRound(h[k - 1])
    <3>1. CASE k = 0
      BY <2>1, <2>2, <3>1
    <3>2. CASE k \in 1 .. n
      <4>1. h[k] = f[k] /\ h[k - 1] = f[k - 1]
        BY <2>2, <3>2
      <4>2. f[k] = TurboReceiveRound(f[k - 1])
        BY <2>1, <2>2, <3>2
      <4> QED BY <3>2, <4>1, <4>2
    <3>3. CASE k = n + 1
      <4>1. h[k] = next /\ h[k - 1] = f[n] /\ k - 1 = n
        BY <2>2, <3>3
      <4> QED BY <2>2, <3>3, <4>1
    <3> QED BY <2>2, <3>1, <3>2, <3>3
  <2>4. Rule(h, n + 1)
    BY <2>3
  <2> QED BY <2>2, <2>4
<1>3. K \in B
  <2> HIDE DEF B
  <2> 0 .. K \subseteq B
    BY <1>0, <1>1, <1>2, Climb
  <2> QED BY <1>0
<1>4. PICK f : Rule(f, K)
  BY <1>3
<1> DEFINE r == TurboReceiveRounds(s)
<1>5. r = [k \in 0 .. K |-> IF k = 0 THEN a ELSE TurboReceiveRound(r[k - 1])]
  BY <1>4 DEF TurboReceiveRounds, a, K
<1> HIDE DEF r
<1>6. r[0] = a
  BY <1>0, <1>5
<1>7. ASSUME NEW n \in 0 .. K - 1 PROVE r[n + 1] = TurboReceiveRound(r[n])
  <2>1. n + 1 \in 0 .. K /\ n + 1 # 0 /\ (n + 1) - 1 = n
    BY <1>0
  <2> QED BY <1>5, <2>1
<1>8. 0 .. K - 1 = 0 .. NRx - 1
  BY XqAssumption DEF K
<1> QED BY <1>6, <1>7, <1>8 DEF r, a

LEMMA ReadLoop ==
    ASSUME NEW s, Len(s.net) \in Nat
    PROVE  /\ ReadRounds(s)[0] = s
           /\ \A n \in 0 .. Len(s.net) - 1 :
                  ReadRounds(s)[n + 1] = xq_read_callback(ReadRounds(s)[n], s.net[n + 1])
<1> DEFINE a == s
           K == Len(s.net)
           Rule(f, n) == f = [k \in 0 .. n |-> IF k = 0 THEN a ELSE xq_read_callback(f[k - 1], s.net[k])]
           B == {n \in 0 .. K : \E f : Rule(f, n)}
<1>0. K \in Nat
  OBVIOUS
<1> HIDE DEF a, K
<1>1. 0 \in B
  <2> DEFINE f == [k \in 0 .. 0 |-> a]
  <2>1. ASSUME NEW k \in 0 .. 0
        PROVE  f[k] = IF k = 0 THEN a ELSE xq_read_callback(f[k - 1], s.net[k])
    OBVIOUS
  <2>2. f = [k \in 0 .. 0 |-> f[k]]
    OBVIOUS
  <2> HIDE DEF f
  <2>3. f = [k \in 0 .. 0 |-> IF k = 0 THEN a ELSE xq_read_callback(f[k - 1], s.net[k])]
    BY <2>1, <2>2
  <2> QED BY <1>0, <2>3
<1>2. ASSUME NEW n \in 0 .. K - 1, n \in B PROVE n + 1 \in B
  <2>1. PICK f : Rule(f, n)
    BY <1>2
  <2> DEFINE next == xq_read_callback(f[n], s.net[n + 1])
             h == [k \in 0 .. n + 1 |-> IF k = n + 1 THEN next ELSE f[k]]
  <2>2. n \in Nat /\ n + 1 \in 0 .. K
    BY <1>0
  <2>3. ASSUME NEW k \in 0 .. n + 1
        PROVE  h[k] = IF k = 0 THEN a ELSE xq_read_callback(h[k - 1], s.net[k])
    <3>1. CASE k = 0
      BY <2>1, <2>2, <3>1
    <3>2. CASE k \in 1 .. n
      <4>1. h[k] = f[k] /\ h[k - 1] = f[k - 1]
        BY <2>2, <3>2
      <4>2. f[k] = xq_read_callback(f[k - 1], s.net[k])
        BY <2>1, <2>2, <3>2
      <4> QED BY <3>2, <4>1, <4>2
    <3>3. CASE k = n + 1
      <4>1. h[k] = next /\ h[k - 1] = f[n] /\ k - 1 = n
        BY <2>2, <3>3
      <4> QED BY <2>2, <3>3, <4>1
    <3> QED BY <2>2, <3>1, <3>2, <3>3
  <2>4. Rule(h, n + 1)
    BY <2>3
  <2> QED BY <2>2, <2>4
<1>3. K \in B
  <2> HIDE DEF B
  <2> 0 .. K \subseteq B
    BY <1>0, <1>1, <1>2, Climb
  <2> QED BY <1>0
<1>4. PICK f : Rule(f, K)
  BY <1>3
<1> DEFINE r == ReadRounds(s)
<1>5. r = [k \in 0 .. K |-> IF k = 0 THEN a ELSE xq_read_callback(r[k - 1], s.net[k])]
  BY <1>4 DEF ReadRounds, a, K
<1> HIDE DEF r
<1>6. r[0] = a
  BY <1>0, <1>5
<1>7. ASSUME NEW n \in 0 .. K - 1 PROVE r[n + 1] = xq_read_callback(r[n], s.net[n + 1])
  <2>1. n + 1 \in 0 .. K /\ n + 1 # 0 /\ (n + 1) - 1 = n
    BY <1>0
  <2> QED BY <1>5, <2>1
<1>8. 0 .. K - 1 = 0 .. Len(s.net) - 1
  BY DEF K
<1> QED BY <1>6, <1>7, <1>8 DEF r, a

LEMMA TransmitLoop ==
    ASSUME NEW s
    PROVE  /\ TransmitRounds(s)[0] = [s |-> s, i |-> 0, on |-> TRUE]
           /\ \A n \in 0 .. NTx : TransmitRounds(s)[n + 1] = TransmitNext(TransmitRounds(s)[n])
<1> DEFINE a == [s |-> s, i |-> 0, on |-> TRUE]
           K == NTx + 1
           Rule(f, n) == f = [k \in 0 .. n |-> IF k = 0 THEN a ELSE TransmitNext(f[k - 1])]
           B == {n \in 0 .. K : \E f : Rule(f, n)}
<1>0. K \in Nat
  BY XqAssumption
<1> HIDE DEF a, K
<1>1. 0 \in B
  <2> DEFINE f == [k \in 0 .. 0 |-> a]
  <2>1. ASSUME NEW k \in 0 .. 0
        PROVE  f[k] = IF k = 0 THEN a ELSE TransmitNext(f[k - 1])
    OBVIOUS
  <2>2. f = [k \in 0 .. 0 |-> f[k]]
    OBVIOUS
  <2> HIDE DEF f
  <2>3. f = [k \in 0 .. 0 |-> IF k = 0 THEN a ELSE TransmitNext(f[k - 1])]
    BY <2>1, <2>2
  <2> QED BY <1>0, <2>3
<1>2. ASSUME NEW n \in 0 .. K - 1, n \in B PROVE n + 1 \in B
  <2>1. PICK f : Rule(f, n)
    BY <1>2
  <2> DEFINE next == TransmitNext(f[n])
             h == [k \in 0 .. n + 1 |-> IF k = n + 1 THEN next ELSE f[k]]
  <2>2. n \in Nat /\ n + 1 \in 0 .. K
    BY <1>0
  <2>3. ASSUME NEW k \in 0 .. n + 1
        PROVE  h[k] = IF k = 0 THEN a ELSE TransmitNext(h[k - 1])
    <3>1. CASE k = 0
      BY <2>1, <2>2, <3>1
    <3>2. CASE k \in 1 .. n
      <4>1. h[k] = f[k] /\ h[k - 1] = f[k - 1]
        BY <2>2, <3>2
      <4>2. f[k] = TransmitNext(f[k - 1])
        BY <2>1, <2>2, <3>2
      <4> QED BY <3>2, <4>1, <4>2
    <3>3. CASE k = n + 1
      <4>1. h[k] = next /\ h[k - 1] = f[n] /\ k - 1 = n
        BY <2>2, <3>3
      <4> QED BY <2>2, <3>3, <4>1
    <3> QED BY <2>2, <3>1, <3>2, <3>3
  <2>4. Rule(h, n + 1)
    BY <2>3
  <2> QED BY <2>2, <2>4
<1>3. K \in B
  <2> HIDE DEF B
  <2> 0 .. K \subseteq B
    BY <1>0, <1>1, <1>2, Climb
  <2> QED BY <1>0
<1>4. PICK f : Rule(f, K)
  BY <1>3
<1> DEFINE r == TransmitRounds(s)
<1>5. r = [k \in 0 .. K |-> IF k = 0 THEN a ELSE TransmitNext(r[k - 1])]
  BY <1>4 DEF TransmitRounds, a, K
<1> HIDE DEF r
<1>6. r[0] = a
  BY <1>0, <1>5
<1>7. ASSUME NEW n \in 0 .. K - 1 PROVE r[n + 1] = TransmitNext(r[n])
  <2>1. n + 1 \in 0 .. K /\ n + 1 # 0 /\ (n + 1) - 1 = n
    BY <1>0
  <2> QED BY <1>5, <2>1
<1>8. 0 .. K - 1 = 0 .. NTx
  BY XqAssumption DEF K
<1> QED BY <1>6, <1>7, <1>8 DEF r, a

LEMMA TurboTransmitLoop ==
    ASSUME NEW s
    PROVE  /\ TurboTransmitRounds(s)[0] = [s |-> s, consumed |-> FALSE]
           /\ \A n \in 0 .. NTx - 1 :
                  TurboTransmitRounds(s)[n + 1] = TurboTransmitRound(TurboTransmitRounds(s)[n])
<1> DEFINE a == [s |-> s, consumed |-> FALSE]
           K == NTx
           Rule(f, n) == f = [k \in 0 .. n |-> IF k = 0 THEN a ELSE TurboTransmitRound(f[k - 1])]
           B == {n \in 0 .. K : \E f : Rule(f, n)}
<1>0. K \in Nat
  BY XqAssumption
<1> HIDE DEF a, K
<1>1. 0 \in B
  <2> DEFINE f == [k \in 0 .. 0 |-> a]
  <2>1. ASSUME NEW k \in 0 .. 0
        PROVE  f[k] = IF k = 0 THEN a ELSE TurboTransmitRound(f[k - 1])
    OBVIOUS
  <2>2. f = [k \in 0 .. 0 |-> f[k]]
    OBVIOUS
  <2> HIDE DEF f
  <2>3. f = [k \in 0 .. 0 |-> IF k = 0 THEN a ELSE TurboTransmitRound(f[k - 1])]
    BY <2>1, <2>2
  <2> QED BY <1>0, <2>3
<1>2. ASSUME NEW n \in 0 .. K - 1, n \in B PROVE n + 1 \in B
  <2>1. PICK f : Rule(f, n)
    BY <1>2
  <2> DEFINE next == TurboTransmitRound(f[n])
             h == [k \in 0 .. n + 1 |-> IF k = n + 1 THEN next ELSE f[k]]
  <2>2. n \in Nat /\ n + 1 \in 0 .. K
    BY <1>0
  <2>3. ASSUME NEW k \in 0 .. n + 1
        PROVE  h[k] = IF k = 0 THEN a ELSE TurboTransmitRound(h[k - 1])
    <3>1. CASE k = 0
      BY <2>1, <2>2, <3>1
    <3>2. CASE k \in 1 .. n
      <4>1. h[k] = f[k] /\ h[k - 1] = f[k - 1]
        BY <2>2, <3>2
      <4>2. f[k] = TurboTransmitRound(f[k - 1])
        BY <2>1, <2>2, <3>2
      <4> QED BY <3>2, <4>1, <4>2
    <3>3. CASE k = n + 1
      <4>1. h[k] = next /\ h[k - 1] = f[n] /\ k - 1 = n
        BY <2>2, <3>3
      <4> QED BY <2>2, <3>3, <4>1
    <3> QED BY <2>2, <3>1, <3>2, <3>3
  <2>4. Rule(h, n + 1)
    BY <2>3
  <2> QED BY <2>2, <2>4
<1>3. K \in B
  <2> HIDE DEF B
  <2> 0 .. K \subseteq B
    BY <1>0, <1>1, <1>2, Climb
  <2> QED BY <1>0
<1>4. PICK f : Rule(f, K)
  BY <1>3
<1> DEFINE r == TurboTransmitRounds(s)
<1>5. r = [k \in 0 .. K |-> IF k = 0 THEN a ELSE TurboTransmitRound(r[k - 1])]
  BY <1>4 DEF TurboTransmitRounds, a, K
<1> HIDE DEF r
<1>6. r[0] = a
  BY <1>0, <1>5
<1>7. ASSUME NEW n \in 0 .. K - 1 PROVE r[n + 1] = TurboTransmitRound(r[n])
  <2>1. n + 1 \in 0 .. K /\ n + 1 # 0 /\ (n + 1) - 1 = n
    BY <1>0
  <2> QED BY <1>5, <2>1
<1>8. 0 .. K - 1 = 0 .. NTx - 1
  BY XqAssumption DEF K
<1> QED BY <1>6, <1>7, <1>8 DEF r, a

-----------------------------------------------------------------------------
(* The invariant                                                           *)

Registers == {"mode", "csr", "irq", "icr", "pending", "srr", "loop", "rba", "rvalid", "q", "loss",
              "rbindx", "tbindx", "units"}

(* What waits for eth_read. *)
Frames == [src : {"net"}, id : Nat, size : 1 .. 2] \cup [src : {"local"}]
Incoming(frames) == frames \in Seq(Frames)

(* The shape of controller and memory; what a descriptor of the transmit   *)
(* list or a packet is does not matter.                                    *)
Shaped(s) ==
    /\ {"xq", "mem", "net"} \subseteq DOMAIN s
    /\ Registers \subseteq DOMAIN s.xq
    /\ {"rx", "tx"} \subseteq DOMAIN s.mem
    /\ DOMAIN s.mem.rx = 0 .. NRx
    /\ \A i \in 0 .. NRx : {"valid", "st"} \subseteq DOMAIN s.mem.rx[i]
    /\ s.xq.mode \in {"normal", "turbo"}
    /\ s.xq.rba \in 0 .. NRx
    /\ Incoming(s.net)

Normal(s) == s.xq.mode = "normal"
Enabled(s) == "RE" \in s.xq.csr

(* The guest's list ends with a descriptor that is not valid.              *)
ListEnds(s) == \E j \in 0 .. NRx - 1 : ~s.mem.rx[j].valid

(* No packet waits, or there is no buffer for one.                         *)
Drained(s) == s.xq.q = <<>> \/ "RL" \in s.xq.csr

Awaited(s) == Drained(s) \/ "Rcv" \in s.xq.units

Polled(s) == Enabled(s) => s.xq.units \cap {"Poll", "Start"} # {}

(* What holds while the polling unit itself is served, and what holds      *)
(* between the steps.                                                      *)
Half(s) == Shaped(s) /\ (Normal(s) => ListEnds(s) /\ Awaited(s))
Good(s) == Half(s) /\ (Normal(s) => Polled(s))

(* The driver enables the receiver only in normal mode and never while the *)
(* service of a turbo request, which may stop the receiver, is under way.  *)
DrvInv ==
    /\ {"pc", "want", "seen", "rix", "busy", "tix", "log"} \subseteq DOMAIN drv
    /\ drv.rix \in 0 .. NRx - 1
    /\ drv.pc = "write" => Normal(State) /\ "RE" \notin drv.seen
    /\ Normal(State) /\ Enabled(State) => "RE" \in drv.want
    /\ Normal(State) /\ "Srqr" \in xq.units => "RE" \notin drv.want
    /\ drv.pc \in {"down", "waiting", "stopping"} => "RE" \notin drv.want
    /\ xq.mode = "turbo" => "RE" \notin drv.want
    /\ "net" \in DOMAIN count /\ count.net \in Nat

XqInv == Good(State) /\ DrvInv

-----------------------------------------------------------------------------
(* The receive side                                                        *)

(* What every handler of the receive side leaves as it was.                *)
Quiet(s, t) ==
    /\ Shaped(t)
    /\ t.xq.mode = s.xq.mode
    /\ t.xq.units = s.xq.units
    /\ ~Turbo(s) => \A i \in 0 .. NRx : t.mem.rx[i].valid = s.mem.rx[i].valid
    /\ Enabled(t) <=> Enabled(s)

(* What an interrupt leaves as it was: everything a packet depends on.     *)
Silent(s, t) ==
    /\ Quiet(s, t)
    /\ t.mem = s.mem /\ t.net = s.net
    /\ t.xq.csr = s.xq.csr /\ t.xq.q = s.xq.q
    /\ t.xq.rba = s.xq.rba /\ t.xq.rvalid = s.xq.rvalid

LEMMA Sizes == NRx \in Nat /\ NRx > 1 /\ NTx \in Nat /\ NTx > 0
BY XqAssumption

LEMMA QuietSame == ASSUME NEW s, Shaped(s) PROVE Quiet(s, s)
BY DEF Quiet

LEMMA QuietChain ==
    ASSUME NEW s, NEW t, NEW u, Quiet(s, t), Quiet(t, u)
    PROVE  Quiet(s, u)
BY DEF Quiet, Turbo

LEMMA SetInt == ASSUME NEW s, Shaped(s) PROVE Silent(s, xq_setint(s))
<1>1. CASE ~Turbo(s)
  BY <1>1 DEF xq_setint, Silent, Quiet, Shaped, Registers, Enabled
<1>2. CASE Turbo(s) /\ s.xq.icr
  BY <1>2 DEF xq_setint, Silent, Quiet, Shaped, Registers, Enabled
<1>3. CASE Turbo(s) /\ ~s.xq.icr
  BY <1>3 DEF xq_setint, Silent, Quiet, Shaped, Registers, Enabled
<1> QED BY <1>1, <1>2, <1>3

LEMMA ClrInt == ASSUME NEW s, Shaped(s) PROVE Silent(s, xq_clrint(s))
BY DEF xq_clrint, Silent, Quiet, Shaped, Registers, Enabled

LEMMA SilentSame == ASSUME NEW s, Shaped(s) PROVE Silent(s, s)
BY DEF Silent, Quiet

(* The interrupt follows the CSR; the CSR is what is asked for.             *)
CsrWritten(s, set, clr, t) ==
    /\ Shaped(t)
    /\ t.xq.mode = s.xq.mode /\ t.xq.units = s.xq.units
    /\ t.mem = s.mem /\ t.net = s.net
    /\ t.xq.q = s.xq.q /\ t.xq.rba = s.xq.rba /\ t.xq.rvalid = s.xq.rvalid
    /\ t.xq.csr = (s.xq.csr \cup set) \ clr

LEMMA CsrSetClr ==
    ASSUME NEW s, Shaped(s), NEW set, NEW clr
    PROVE  CsrWritten(s, set, clr, xq_csr_set_clr(s, set, clr))
<1> DEFINE new == (s.xq.csr \cup set) \ clr
           up == new \ s.xq.csr
           down == s.xq.csr \ new
           t == [s EXCEPT !.xq.csr = new]
           z == xq_csr_set_clr(s, set, clr)
<1>1. CsrWritten(s, set, clr, t) /\ Shaped(t)
  BY DEF CsrWritten, Shaped, Registers
<1>2. z \in {t, xq_clrint(t), xq_setint(t)}
  <2>1. z = CASE "IE" \in down -> xq_clrint(t)
              [] "IE" \in up /\ new \cap W1 # {} -> xq_setint(t)
              [] "IE" \in s.xq.csr \cap new /\ up \cap W1 # {} -> xq_setint(t)
              [] "IE" \in s.xq.csr \cap new /\ down \cap W1 # {} /\ new \cap W1 = {} -> xq_clrint(t)
              [] OTHER -> t
    BY DEF xq_csr_set_clr
  <2> HIDE DEF z, t, up, down, new
  <2> QED BY <2>1
<1> HIDE DEF t, z
<1>3. Silent(t, t) /\ Silent(t, xq_clrint(t)) /\ Silent(t, xq_setint(t))
  BY <1>1, SilentSame, ClrInt, SetInt
<1>4. Silent(t, z)
  BY <1>2, <1>3
<1>5. CsrWritten(s, set, clr, z)
  BY <1>1, <1>4 DEF CsrWritten, Silent, Quiet
<1> QED BY <1>5 DEF z

LEMMA CsrQuiet ==
    ASSUME NEW s, Shaped(s), NEW set, NEW clr, "RE" \notin set, "RE" \notin clr
    PROVE  Quiet(s, xq_csr_set_clr(s, set, clr))
<1> DEFINE z == xq_csr_set_clr(s, set, clr)
<1>1. CsrWritten(s, set, clr, z)
  BY CsrSetClr
<1> HIDE DEF z
<1>2. Quiet(s, z)
  BY <1>1 DEF CsrWritten, Quiet, Enabled
<1> QED BY <1>2 DEF z

LEMMA Inserted ==
    ASSUME NEW s, Shaped(s), NEW p
    PROVE  /\ Quiet(s, ethq_insert(s, p))
           /\ ethq_insert(s, p).xq.csr = s.xq.csr
<1> DEFINE q == Append(s.xq.q, [pkt |-> p, used |-> 0])
           a == [s EXCEPT !.xq.q = Tail(q), !.xq.loss = TRUE]
           b == [s EXCEPT !.xq.q = q]
<1>1. ethq_insert(s, p) \in {a, b}
  BY DEF ethq_insert
<1>2. Quiet(s, a) /\ a.xq.csr = s.xq.csr
  <2> HIDE DEF q
  <2> QED BY DEF Quiet, Shaped, Registers, Enabled
<1>3. Quiet(s, b) /\ b.xq.csr = s.xq.csr
  <2> HIDE DEF q
  <2> QED BY DEF Quiet, Shaped, Registers, Enabled
<1> HIDE DEF a, b
<1> QED BY <1>1, <1>2, <1>3

LEMMA Delivered ==
    ASSUME NEW s, Shaped(s), NEW i, NEW seg
    PROVE  /\ Quiet(s, Deliver(s, i, seg))
           /\ Deliver(s, i, seg).xq.csr = s.xq.csr
           /\ Deliver(s, i, seg).xq.rba = s.xq.rba
<1> DEFINE t == [s EXCEPT !.mem.rx[i].st = seg, !.xq.loss = FALSE]
           a == ethq_remove(t)
           b == [t EXCEPT !.xq.q[1].used = seg.upto]
           Fine(u) == Quiet(s, u) /\ u.xq.csr = s.xq.csr /\ u.xq.rba = s.xq.rba
<1>1. Fine(t)
  <2>1. /\ DOMAIN t = DOMAIN s /\ DOMAIN t.xq = DOMAIN s.xq /\ DOMAIN t.mem = DOMAIN s.mem
        /\ DOMAIN t.mem.rx = DOMAIN s.mem.rx
    BY DEF Shaped, Registers
  <2>2. /\ t.xq.mode = s.xq.mode /\ t.xq.units = s.xq.units /\ t.xq.csr = s.xq.csr
        /\ t.xq.rba = s.xq.rba /\ t.net = s.net
    BY DEF Shaped, Registers
  <2>3. ASSUME NEW k \in 0 .. NRx
        PROVE  DOMAIN t.mem.rx[k] = DOMAIN s.mem.rx[k] /\ t.mem.rx[k].valid = s.mem.rx[k].valid
    <3>1. t.mem.rx = [s.mem.rx EXCEPT ![i] = [s.mem.rx[i] EXCEPT !.st = seg]]
      BY DEF Shaped
    <3> HIDE DEF t
    <3>2. CASE k = i
      BY <3>1, <3>2 DEF Shaped
    <3>3. CASE k # i
      BY <3>1, <3>3 DEF Shaped
    <3> QED BY <3>2, <3>3
  <2> HIDE DEF t
  <2> QED BY <2>1, <2>2, <2>3 DEF Quiet, Shaped, Enabled
<1> HIDE DEF t
<1>2. Fine(a)
  BY <1>1 DEF ethq_remove, Quiet, Shaped, Registers, Enabled
<1>3. Fine(b)
  BY <1>1 DEF Quiet, Shaped, Registers, Enabled
<1>4. Deliver(s, i, seg) \in {a, b}
  BY DEF Deliver, t
<1> HIDE DEF a, b, Fine
<1>5. Fine(Deliver(s, i, seg))
  BY <1>2, <1>3, <1>4
<1> QED BY <1>5 DEF Fine

LEMMA Filled ==
    ASSUME NEW s, Shaped(s), s.xq.rba # NRx
    PROVE  /\ Quiet(s, FillBuffer(s))
           /\ FillBuffer(s).xq.rba = s.xq.rba + 1
<1> DEFINE i == s.xq.rba
           seg == Segment(s, 1)
           d == Deliver(s, i, seg)
           t == [d EXCEPT !.xq.rba = i + 1]
           u == xq_csr_set_clr(t, {"RI"}, {})
<1>1. FillBuffer(s) \in {t, u}
  BY DEF FillBuffer
<1> HIDE DEF seg
<1>2. Quiet(s, d) /\ d.xq.rba = i
  BY Delivered
<1> HIDE DEF d
<1>3. Quiet(s, t) /\ t.xq.rba = i + 1 /\ Shaped(t)
  <2>1. i \in 0 .. NRx /\ i + 1 \in 0 .. NRx
    BY Sizes DEF Shaped
  <2> HIDE DEF i
  <2> QED BY <1>2, <2>1 DEF Quiet, Shaped, Registers, Enabled
<1> HIDE DEF t
<1>4. CsrWritten(t, {"RI"}, {}, u) /\ Quiet(t, u)
  BY <1>3, CsrSetClr, CsrQuiet
<1> HIDE DEF u
<1>5. Quiet(s, u) /\ u.xq.rba = i + 1
  BY <1>3, <1>4, QuietChain DEF CsrWritten
<1> QED BY <1>1, <1>3, <1>5

(* One round of Receive leaves at the first descriptor it did, or drained, *)
(* or goes on after a valid one.                                           *)
Beyond(i) == IF i = NRx THEN 0 ELSE i + 1

Round(l, m) ==
    LET i == l.s.xq.rba
    IN  /\ {"s", "start", "on"} \subseteq DOMAIN m
        /\ Quiet(l.s, m.s)
        /\ \/ m.on = FALSE /\ (i = l.start \/ Drained(m.s))
           \/ /\ m.on = TRUE
              /\ i # l.start /\ l.s.mem.rx[i].valid
              /\ m.start = IF l.start > NRx THEN i ELSE l.start
              /\ m.s.xq.rba = Beyond(i)

LEMMA RoundReceived ==
    ASSUME NEW l, {"s", "start", "on"} \subseteq DOMAIN l, Shaped(l.s), l.on = TRUE
    PROVE  Round(l, ReceiveRound(l))
<1> DEFINE s == l.s
           i == s.xq.rba
           valid == s.mem.rx[i].valid
           t == [s EXCEPT !.xq.rvalid = valid]
           first == IF l.start > NRx THEN i ELSE l.start
           listed == xq_csr_set_clr(t, {"RL"}, {})
           around == [t EXCEPT !.xq.rba = 0]
           filled == FillBuffer(t)
           Leave(u) == [l EXCEPT !.s = u, !.on = FALSE]
           Go(u) == [l EXCEPT !.s = u, !.start = first]
           m == ReceiveRound(l)
<1>1. m = CASE i = l.start -> Leave(t)
            [] i # l.start /\ ~t.xq.rvalid -> Leave(listed)
            [] i # l.start /\ t.xq.rvalid /\ i = NRx -> Go(around)
            [] i \notin {l.start, NRx} /\ t.xq.rvalid /\ t.xq.q # <<>> -> Go(filled)
            [] OTHER -> Leave(t)
  BY DEF ReceiveRound
<1>2. /\ Quiet(s, t) /\ t.xq.rvalid = valid /\ t.xq.q = s.xq.q /\ t.xq.rba = i /\ Shaped(t)
  BY DEF Quiet, Shaped, Registers, Enabled
<1> HIDE DEF t, m
<1>3. Quiet(s, around) /\ around.xq.rba = 0
  BY <1>2, Sizes DEF Quiet, Shaped, Registers, Enabled
<1> HIDE DEF around
<1>4. CsrWritten(t, {"RL"}, {}, listed) /\ Quiet(t, listed)
  BY <1>2, CsrSetClr, CsrQuiet
<1> HIDE DEF listed
<1>5. Quiet(s, listed) /\ Drained(listed)
  BY <1>2, <1>4, QuietChain DEF CsrWritten, Drained
<1>6. i # NRx => Quiet(s, filled) /\ filled.xq.rba = i + 1
  BY <1>2, Filled, QuietChain
<1> HIDE DEF filled, first, i, valid
<1>7. CASE i = l.start
  <2>1. m = Leave(t)
    BY <1>1, <1>7
  <2>2. m.s = t /\ m.on = FALSE /\ DOMAIN m = DOMAIN l
    BY <2>1
  <2>3. Round(l, m)
    BY <1>2, <1>7, <2>2 DEF Round, i
  <2> QED BY <2>3 DEF m
<1>8. CASE i # l.start /\ ~valid
  <2>1. m = Leave(listed)
    BY <1>1, <1>2, <1>8
  <2>2. m.s = listed /\ m.on = FALSE /\ DOMAIN m = DOMAIN l
    BY <2>1
  <2>3. Round(l, m)
    BY <1>5, <2>2 DEF Round
  <2> QED BY <2>3 DEF m
<1>9. CASE i # l.start /\ valid /\ i = NRx
  <2>1. m = Go(around)
    BY <1>1, <1>2, <1>9
  <2>2. m.s = around /\ m.on = TRUE /\ DOMAIN m = DOMAIN l /\ m.start = first
    BY <2>1
  <2>3. Round(l, m)
    BY <1>3, <1>9, <2>2 DEF Round, Beyond, i, first, valid
  <2> QED BY <2>3 DEF m
<1>10. CASE i # l.start /\ valid /\ i # NRx /\ s.xq.q # <<>>
  <2>1. m = Go(filled)
    BY <1>1, <1>2, <1>10
  <2>2. m.s = filled /\ m.on = TRUE /\ DOMAIN m = DOMAIN l /\ m.start = first
    BY <2>1
  <2>3. Round(l, m)
    BY <1>6, <1>10, <2>2 DEF Round, Beyond, i, first, valid
  <2> QED BY <2>3 DEF m
<1>11. CASE i # l.start /\ valid /\ i # NRx /\ s.xq.q = <<>>
  <2>1. m = Leave(t)
    BY <1>1, <1>2, <1>11
  <2>2. m.s = t /\ m.on = FALSE /\ DOMAIN m = DOMAIN l
    BY <2>1
  <2>3. Round(l, m)
    BY <1>2, <1>11, <2>2 DEF Round, Drained
  <2> QED BY <2>3 DEF m
<1> QED BY <1>7, <1>8, <1>9, <1>10, <1>11

(* From the first descriptor it looks at, the list's end is no more than a *)
(* turn away, and every round comes one nearer.                            *)
Away(j, i) == IF i <= j THEN j - i ELSE NRx + 1 - i + j

Received(s, j, n, l) ==
    /\ {"s", "start", "on"} \subseteq DOMAIN l
    /\ Quiet(s, l.s)
    /\ \/ l.on = FALSE /\ Drained(l.s)
       \/ /\ l.on = TRUE
          /\ Away(j, l.s.xq.rba) + n = Away(j, s.xq.rba)
          /\ l.start = IF n = 0 THEN NRx + 1 ELSE s.xq.rba

LEMMA NextReceived ==
    ASSUME NEW s, Shaped(s), ~Turbo(s), NEW j \in 0 .. NRx - 1, ~s.mem.rx[j].valid,
           NEW n \in 0 .. NRx + 1, NEW l, Received(s, j, n, l)
    PROVE  Received(s, j, n + 1, ReceiveNext(l))
<1> USE Sizes
<1> DEFINE m == ReceiveNext(l)
<1>1. CASE l.on = FALSE
  <2>1. m = l
    BY <1>1 DEF ReceiveNext
  <2> QED BY <1>1, <2>1 DEF Received
<1>2. CASE l.on = TRUE
  <2> DEFINE i == l.s.xq.rba
             i0 == s.xq.rba
  <2>1. m = ReceiveRound(l)
    BY <1>2 DEF ReceiveNext
  <2>2. Quiet(s, l.s) /\ Shaped(l.s) /\ ~Turbo(l.s)
    BY DEF Received, Quiet, Turbo
  <2>3. Round(l, m)
    BY <1>2, <2>1, <2>2, RoundReceived DEF Received
  <2> HIDE DEF m
  <2>4. Quiet(s, m.s)
    BY <2>2, <2>3, QuietChain DEF Round
  <2>5. i \in 0 .. NRx /\ i0 \in 0 .. NRx
    BY <2>2 DEF Shaped
  <2>6. Away(j, i) + n = Away(j, i0) /\ l.start = IF n = 0 THEN NRx + 1 ELSE i0
    BY <1>2 DEF Received
  <2>7. i # l.start
    BY <2>5, <2>6 DEF Away
  <2>8. l.s.mem.rx[j].valid = s.mem.rx[j].valid
    BY <2>2 DEF Quiet
  <2>9. m.on = FALSE => Received(s, j, n + 1, m)
    BY <2>3, <2>4, <2>7 DEF Round, Received
  <2>10. ASSUME m.on = TRUE PROVE Received(s, j, n + 1, m)
    <3>1. /\ m.start = IF l.start > NRx THEN i ELSE l.start
          /\ m.s.xq.rba = Beyond(i) /\ l.s.mem.rx[i].valid
      BY <2>3, <2>10 DEF Round
    <3>2. i # j
      BY <2>8, <3>1
    <3> HIDE DEF i, i0
    <3>3. Away(j, Beyond(i)) + n + 1 = Away(j, i0)
      BY <2>5, <2>6, <3>2 DEF Away, Beyond
    <3>4. n = 0 => i = i0
      BY <2>5, <2>6 DEF Away
    <3>5. m.start = i0
      BY <2>5, <2>6, <3>1, <3>4
    <3>6. n + 1 # 0
      OBVIOUS
    <3>7. Away(j, m.s.xq.rba) + (n + 1) = Away(j, i0)
      <4>1. Away(j, Beyond(i)) \in Int
        BY <2>5 DEF Away, Beyond
      <4> QED BY <3>1, <3>3, <4>1
    <3> QED BY <2>3, <2>4, <2>10, <3>5, <3>6, <3>7 DEF Round, Received, i0
  <2>11. Received(s, j, n + 1, m)
    BY <2>3, <2>9, <2>10 DEF Round
  <2> QED BY <2>11 DEF m
<1> QED BY <1>1, <1>2 DEF Received

LEMMA ReceiveDrains ==
    ASSUME NEW s, Shaped(s), ~Turbo(s), ListEnds(s)
    PROVE  Quiet(s, Receive(s)) /\ Drained(Receive(s))
<1> USE Sizes
<1>1. PICK j \in 0 .. NRx - 1 : ~s.mem.rx[j].valid
  BY DEF ListEnds
<1> DEFINE R == ReceiveRounds(s)
           B == {n \in 0 .. NRx + 2 : Received(s, j, n, R[n])}
<1>2. /\ R[0] = [s |-> s, start |-> NRx + 1, on |-> TRUE]
      /\ \A n \in 0 .. NRx + 1 : R[n + 1] = ReceiveNext(R[n])
  BY ReceiveLoop
<1> HIDE DEF R
<1>3. 0 \in B
  <2>1. Away(j, s.xq.rba) + 0 = Away(j, s.xq.rba)
    BY DEF Away, Shaped
  <2>2. R[0].s = s /\ R[0].on = TRUE /\ R[0].start = NRx + 1 /\ DOMAIN R[0] = {"s", "start", "on"}
    BY <1>2
  <2> QED BY <2>1, <2>2, QuietSame DEF Received
<1>4. ASSUME NEW n \in 0 .. (NRx + 2) - 1, n \in B PROVE n + 1 \in B
  <2>1. Received(s, j, n + 1, ReceiveNext(R[n]))
    BY <1>1, <1>4, NextReceived
  <2> QED BY <1>2, <2>1
<1>5. 0 .. NRx + 2 \subseteq B
  <2> HIDE DEF B
  <2> QED BY <1>3, <1>4, Climb
<1>6. Received(s, j, NRx + 2, R[NRx + 2])
  BY <1>5
<1>7. Receive(s) = R[NRx + 2].s
  BY DEF Receive, R
<1> DEFINE l == R[NRx + 2]
<1>8. Quiet(s, l.s)
  BY <1>6 DEF Received
<1>9. l.on = TRUE => FALSE
  <2> SUFFICES ASSUME l.on = TRUE PROVE FALSE
    OBVIOUS
  <2>1. Away(j, l.s.xq.rba) + (NRx + 2) = Away(j, s.xq.rba)
    BY <1>6 DEF Received
  <2> HIDE DEF l
  <2>2. l.s.xq.rba \in 0 .. NRx /\ s.xq.rba \in 0 .. NRx
    BY <1>8 DEF Quiet, Shaped
  <2> QED BY <2>1, <2>2 DEF Away
<1> QED BY <1>6, <1>7, <1>8, <1>9 DEF Received

LEMMA TurboRoundReceived ==
    ASSUME NEW s, Turbo(s), NEW l, {"s", "consumed"} \subseteq DOMAIN l, Quiet(s, l.s)
    PROVE  /\ {"s", "consumed"} \subseteq DOMAIN TurboReceiveRound(l)
           /\ Quiet(s, TurboReceiveRound(l).s)
<1> DEFINE i == l.s.xq.rbindx
           d == Deliver(l.s, i, Segment(l.s, QueMax + NTx))
           next == (i + 1) % NRx
           filled == [d EXCEPT !.xq.rbindx = next, !.mem.rx[i].valid = FALSE]
           m == [l EXCEPT !.s = filled, !.consumed = TRUE]
<1>1. TurboReceiveRound(l) \in {l, m}
  BY DEF TurboReceiveRound
<1>2. Quiet(s, d)
  <2>1. Shaped(l.s)
    BY DEF Quiet
  <2> QED BY <2>1, Delivered, QuietChain
<1> HIDE DEF d, next, i
<1>3. Quiet(s, filled)
  <2>1. /\ DOMAIN filled = DOMAIN d /\ DOMAIN filled.xq = DOMAIN d.xq
        /\ DOMAIN filled.mem = DOMAIN d.mem /\ DOMAIN filled.mem.rx = DOMAIN d.mem.rx
    BY <1>2 DEF Quiet, Shaped, Registers
  <2>2. /\ filled.xq.mode = d.xq.mode /\ filled.xq.units = d.xq.units
        /\ filled.xq.csr = d.xq.csr /\ filled.xq.rba = d.xq.rba /\ filled.net = d.net
    BY <1>2 DEF Quiet, Shaped, Registers
  <2>3. ASSUME NEW k \in 0 .. NRx PROVE DOMAIN filled.mem.rx[k] = DOMAIN d.mem.rx[k]
    <3>1. filled.mem.rx = [d.mem.rx EXCEPT ![i] = [d.mem.rx[i] EXCEPT !.valid = FALSE]]
      BY <1>2 DEF Quiet, Shaped
    <3> HIDE DEF filled
    <3> QED BY <1>2, <3>1 DEF Quiet, Shaped
  <2> HIDE DEF filled
  <2> QED BY <1>2, <2>1, <2>2, <2>3 DEF Quiet, Shaped, Enabled, Turbo
<1> HIDE DEF filled
<1>4. {"s", "consumed"} \subseteq DOMAIN m /\ m.s = filled
  OBVIOUS
<1> QED BY <1>1, <1>3, <1>4

LEMMA TurboReceiveQuiet ==
    ASSUME NEW s, Shaped(s), Turbo(s)
    PROVE  Quiet(s, TurboReceive(s))
<1> DEFINE R == TurboReceiveRounds(s)
           Fine(l) == {"s", "consumed"} \subseteq DOMAIN l /\ Quiet(s, l.s)
           B == {n \in 0 .. NRx : Fine(R[n])}
<1>1. /\ R[0] = [s |-> s, consumed |-> FALSE]
      /\ \A n \in 0 .. NRx - 1 : R[n + 1] = TurboReceiveRound(R[n])
  BY TurboReceiveLoop
<1> HIDE DEF R
<1>2. 0 \in B
  <2>1. R[0].s = s /\ DOMAIN R[0] = {"s", "consumed"}
    BY <1>1
  <2> QED BY <2>1, QuietSame, Sizes
<1>3. ASSUME NEW n \in 0 .. NRx - 1, n \in B PROVE n + 1 \in B
  <2>1. Fine(TurboReceiveRound(R[n]))
    BY <1>3, TurboRoundReceived
  <2> QED BY <1>1, <2>1, Sizes
<1>4. 0 .. NRx \subseteq B
  <2> HIDE DEF B
  <2> QED BY <1>2, <1>3, Climb, Sizes
<1> DEFINE last == R[NRx].s
<1>5. Quiet(s, last) /\ Shaped(last)
  BY <1>4, Sizes DEF Quiet
<1>6. TurboReceive(s) \in {last, xq_setint(last)}
  BY DEF TurboReceive, R
<1> HIDE DEF last
<1>7. Quiet(s, xq_setint(last))
  BY <1>5, SetInt, QuietChain DEF Silent
<1> QED BY <1>5, <1>6, <1>7

(* A handler of the receive side, in normal mode, leaves nothing to do.     *)
Usable(s) == Shaped(s) /\ (~Turbo(s) => ListEnds(s))

LEMMA UsableChain == ASSUME NEW s, NEW t, Usable(s), Quiet(s, t) PROVE Usable(t)
BY Sizes DEF Usable, Quiet, ListEnds, Turbo

LEMMA Processed ==
    ASSUME NEW s, Usable(s)
    PROVE  /\ Quiet(s, xq_process_rbdl(s))
           /\ ~Turbo(s) => Drained(xq_process_rbdl(s))
<1>1. CASE Turbo(s)
  <2>1. xq_process_rbdl(s) \in {s, TurboReceive(s)}
    BY <1>1 DEF xq_process_rbdl, xq_process_turbo_rbdl
  <2> QED BY <1>1, <2>1, QuietSame, TurboReceiveQuiet DEF Usable
<1>2. CASE ~Turbo(s) /\ "RL" \notin s.xq.csr
  <2>1. xq_process_rbdl(s) = Receive(s)
    BY <1>2 DEF xq_process_rbdl
  <2> QED BY <1>2, <2>1, ReceiveDrains DEF Usable
<1>3. CASE ~Turbo(s) /\ "RL" \in s.xq.csr
  <2>1. xq_process_rbdl(s) = s
    BY <1>3 DEF xq_process_rbdl
  <2> QED BY <1>3, <2>1, QuietSame DEF Usable, Drained
<1> QED BY <1>1, <1>2, <1>3

LEMMA Dispatched ==
    ASSUME NEW s, Usable(s), NEW i \in 0 .. NRx
    PROVE  /\ Quiet(s, xq_dispatch_rbdl(s, i))
           /\ ~Turbo(s) => Drained(xq_dispatch_rbdl(s, i))
<1> DEFINE c == xq_csr_set_clr(s, {}, {"RL"})
           valid == s.mem.rx[i].valid
           t == [c EXCEPT !.xq.rba = i, !.xq.rvalid = valid]
           z == xq_dispatch_rbdl(s, i)
<1>1. z = IF t.xq.q # <<>> THEN xq_process_rbdl(t) ELSE t
  BY DEF xq_dispatch_rbdl
<1>2. Quiet(s, c)
  BY CsrQuiet DEF Usable
<1> HIDE DEF c, valid, z
<1>3. Quiet(s, t)
  BY <1>2 DEF Quiet, Shaped, Registers, Enabled
<1> HIDE DEF t
<1>4. Usable(t) /\ (Turbo(t) <=> Turbo(s))
  BY <1>3, UsableChain DEF Quiet, Turbo
<1>5. Quiet(t, xq_process_rbdl(t)) /\ (~Turbo(t) => Drained(xq_process_rbdl(t)))
  BY <1>4, Processed
<1>6. CASE t.xq.q # <<>>
  BY <1>1, <1>3, <1>4, <1>5, <1>6, QuietChain DEF z
<1>7. CASE t.xq.q = <<>>
  BY <1>1, <1>3, <1>7 DEF Drained, z
<1> QED BY <1>6, <1>7

LEMMA ReadQuiet == ASSUME NEW s, Shaped(s) PROVE Quiet(s, eth_read_all(s))
<1> DEFINE R == ReadRounds(s)
           N == Len(s.net)
           B == {n \in 0 .. N : Quiet(s, R[n])}
<1>1. N \in Nat
  <2>1. s.net \in Seq(Frames)
    BY DEF Shaped, Incoming
  <2> QED BY <2>1
<1>2. R[0] = s /\ \A n \in 0 .. N - 1 : R[n + 1] = xq_read_callback(R[n], s.net[n + 1])
  BY <1>1, ReadLoop
<1> HIDE DEF R, N
<1>3. 0 \in B
  BY <1>1, <1>2, QuietSame
<1>4. ASSUME NEW n \in 0 .. N - 1, n \in B PROVE n + 1 \in B
  <2> DEFINE r == R[n]
             p == s.net[n + 1]
  <2>1. Quiet(s, r) /\ Shaped(r)
    BY <1>4 DEF Quiet
  <2> HIDE DEF r, p
  <2>2. Quiet(s, ethq_insert(r, p))
    BY <2>1, Inserted, QuietChain
  <2>3. xq_read_callback(r, p) \in {r, ethq_insert(r, p)}
    BY DEF xq_read_callback
  <2>4. Quiet(s, xq_read_callback(r, p))
    BY <2>1, <2>2, <2>3
  <2> QED BY <1>1, <1>2, <2>4 DEF r, p
<1>5. 0 .. N \subseteq B
  <2> HIDE DEF B
  <2> QED BY <1>1, <1>3, <1>4, Climb
<1> DEFINE last == R[N]
           z == [last EXCEPT !.net = <<>>]
<1>6. Quiet(s, last)
  BY <1>1, <1>5
<1>7. eth_read_all(s) = z
  BY DEF eth_read_all, R, N
<1> HIDE DEF last
<1>8. Quiet(s, z)
  <2>1. Incoming(<<>>)
    BY DEF Incoming
  <2> QED BY <1>6, <2>1 DEF Quiet, Shaped, Enabled
<1> QED BY <1>7, <1>8

LEMMA Pumped ==
    ASSUME NEW s, Usable(s)
    PROVE  /\ Quiet(s, Pump(s))
           /\ ~Turbo(s) => Drained(Pump(s))
<1>1. CASE s.xq.q # <<>> /\ (Turbo(s) \/ "RL" \notin s.xq.csr)
  <2>1. Pump(s) = xq_process_rbdl(s)
    BY <1>1 DEF Pump
  <2> QED BY <2>1, Processed
<1>2. CASE ~(s.xq.q # <<>> /\ (Turbo(s) \/ "RL" \notin s.xq.csr))
  <2>1. Pump(s) = s
    BY <1>2 DEF Pump
  <2> QED BY <1>2, <2>1, QuietSame DEF Usable, Drained
<1> QED BY <1>1, <1>2

(* The polling unit drains the queue and comes again.                      *)
Serves(s, t) ==
    /\ Good(t)
    /\ t.xq.mode = s.xq.mode
    /\ Enabled(t) <=> Enabled(s)
    /\ s.xq.units \subseteq t.xq.units
    /\ t.xq.units \subseteq s.xq.units \cup {"Poll", "Rcv"}

LEMMA ServesChain ==
    ASSUME NEW s, NEW t, NEW u, Serves(s, t), Serves(t, u)
    PROVE  Serves(s, u)
BY DEF Serves

LEMMA Activated ==
    ASSUME NEW s, Shaped(s), NEW u
    PROVE  LET t == Activate(s, u)
           IN  /\ Shaped(t)
               /\ t.xq.units = s.xq.units \cup {u}
               /\ t.mem = s.mem /\ t.net = s.net
               /\ t.xq.mode = s.xq.mode /\ t.xq.csr = s.xq.csr /\ t.xq.q = s.xq.q
BY DEF Activate, Shaped, Registers

LEMMA HalfUsable == ASSUME NEW s, Half(s) PROVE Usable(s) /\ (Normal(s) <=> ~Turbo(s))
BY DEF Half, Usable, Shaped, Normal, Turbo

LEMMA Polls == ASSUME NEW s, Half(s) PROVE Serves(s, xq_svc(s))
<1> DEFINE a == Pump(s)
           b == eth_read_all(a)
           c == Pump(b)
           t == IF Turbo(s) \/ Enabled(s) THEN c ELSE s
           z == Activate(t, "Poll")
<1>1. xq_svc(s) = IF Turbo(t) THEN t ELSE z
  BY DEF xq_svc, Enabled
<1>2. Usable(s) /\ Quiet(s, a)
  BY HalfUsable, Pumped
<1>3. Usable(a)
  <2> HIDE DEF a
  <2> QED BY <1>2, UsableChain
<1>4. Quiet(a, b)
  <2> HIDE DEF a
  <2> QED BY <1>3, ReadQuiet DEF Usable
<1>5. Usable(b)
  <2> HIDE DEF a, b
  <2> QED BY <1>3, <1>4, UsableChain
<1>6. Quiet(b, c) /\ (~Turbo(b) => Drained(c))
  <2> HIDE DEF b
  <2> QED BY <1>5, Pumped
<1> HIDE DEF a, b, c
<1>7. Quiet(s, c) /\ (~Turbo(s) => Drained(c))
  <2>1. Quiet(s, b)
    BY <1>2, <1>4, QuietChain
  <2> QED BY <1>6, <2>1, QuietChain DEF Quiet, Turbo
<1>8. Quiet(s, t) /\ Usable(t) /\ (Normal(s) => Awaited(t))
  <2>1. CASE Turbo(s) \/ Enabled(s)
    <3>1. t = c
      BY <2>1
    <3> QED BY <1>2, <1>7, <3>1, UsableChain, HalfUsable DEF Awaited
  <2>2. CASE ~(Turbo(s) \/ Enabled(s))
    <3>1. t = s
      BY <2>2
    <3> QED BY <1>2, <3>1, QuietSame DEF Usable, Half
  <2> QED BY <2>1, <2>2
<1> HIDE DEF t
<1>9. /\ Shaped(z) /\ z.xq.units = t.xq.units \cup {"Poll"}
      /\ z.mem = t.mem /\ z.xq.mode = t.xq.mode /\ z.xq.csr = t.xq.csr /\ z.xq.q = t.xq.q
  <2>1. Shaped(t)
    BY <1>8 DEF Usable
  <2> QED BY <2>1, Activated
<1> HIDE DEF z
<1>10. CASE Turbo(t)
  <2>1. Serves(s, t)
    BY <1>8, <1>10 DEF Serves, Quiet, Good, Half, Normal, Turbo
  <2> QED BY <1>1, <1>10, <2>1
<1>11. CASE ~Turbo(t)
  <2>1. ListEnds(z) /\ Awaited(z) /\ Polled(z)
    BY <1>8, <1>9, <1>11, HalfUsable DEF ListEnds, Awaited, Drained, Polled, Usable, Quiet, Turbo,
       Half, Shaped, Normal
  <2>2. Serves(s, z)
    BY <1>8, <1>9, <2>1 DEF Serves, Quiet, Good, Half, Enabled
  <2> QED BY <1>1, <1>11, <2>2
<1> QED BY <1>10, <1>11

-----------------------------------------------------------------------------
(* Transmission                                                            *)

LEMMA QuietServes ==
    ASSUME NEW s, Good(s), NEW t, Quiet(s, t), Normal(s) => Awaited(t)
    PROVE  Serves(s, t)
<1>1. Normal(s) => ListEnds(t)
  BY Sizes DEF Good, Half, Quiet, ListEnds, Normal, Turbo
<1> QED BY <1>1 DEF Serves, Quiet, Good, Half, Normal, Polled, Shaped

LEMMA CsrServes ==
    ASSUME NEW s, Good(s), NEW set, NEW clr, "RE" \notin set, "RE" \notin clr, "RL" \notin clr
    PROVE  Serves(s, xq_csr_set_clr(s, set, clr))
<1> DEFINE z == xq_csr_set_clr(s, set, clr)
<1>1. CsrWritten(s, set, clr, z) /\ Quiet(s, z)
  BY CsrSetClr, CsrQuiet DEF Good, Half
<1> HIDE DEF z
<1>2. Normal(s) => Awaited(z)
  BY <1>1 DEF CsrWritten, Good, Half, Awaited, Drained
<1>3. Serves(s, z)
  BY <1>1, <1>2, QuietServes
<1> QED BY <1>3 DEF z

LEMMA IntServes ==
    ASSUME NEW s, Good(s)
    PROVE  Serves(s, xq_setint(s)) /\ Serves(s, xq_clrint(s)) /\ Serves(s, s)
<1>1. ASSUME NEW t, Silent(s, t) PROVE Serves(s, t)
  BY <1>1, QuietServes DEF Silent, Good, Half, Awaited, Drained, Quiet
<1> QED BY <1>1, SetInt, ClrInt, SilentSame DEF Good, Half

LEMMA LoopServes == ASSUME NEW s, Good(s), NEW d PROVE Serves(s, LoopBack(s, d))
<1> DEFINE t == IF d.setup \/ HasReceiveBuffer(s) THEN ethq_insert(s, d.pkt) ELSE s
           u == xq_csr_set_clr(t, {"XI"}, {})
           z == Activate(u, "Rcv")
<1>1. LoopBack(s, d) = IF "RL" \notin u.xq.csr THEN z ELSE u
  BY DEF LoopBack
<1>2. Quiet(s, t)
  BY Inserted, QuietSame DEF Good, Half
<1> HIDE DEF t
<1>3. Quiet(s, u)
  BY <1>2, CsrQuiet, QuietChain DEF Quiet
<1> HIDE DEF u
<1>4. CASE "RL" \in u.xq.csr
  <2>1. Serves(s, u)
    BY <1>3, <1>4, QuietServes DEF Awaited, Drained
  <2> QED BY <1>1, <1>4, <2>1
<1>5. CASE "RL" \notin u.xq.csr
  <2>1. /\ Shaped(z) /\ z.xq.units = u.xq.units \cup {"Rcv"} /\ z.mem = u.mem
        /\ z.xq.mode = u.xq.mode /\ z.xq.csr = u.xq.csr
    BY <1>3, Activated DEF Quiet
  <2> HIDE DEF z
  <2>2. Normal(s) => ListEnds(z) /\ Awaited(z) /\ Polled(z)
    BY <1>3, <2>1, Sizes DEF Good, Half, Quiet, ListEnds, Awaited, Polled, Enabled, Normal, Turbo
  <2>3. Serves(s, z)
    BY <1>3, <2>1, <2>2 DEF Serves, Good, Half, Quiet, Normal, Enabled
  <2> QED BY <1>1, <1>5, <2>3
<1> QED BY <1>4, <1>5

Sent(s, l) == {"s", "i", "on"} \subseteq DOMAIN l /\ Serves(s, l.s)

LEMMA RoundSent ==
    ASSUME NEW s, NEW l, Sent(s, l)
    PROVE  Sent(s, TransmitRound(l))
<1> DEFINE r == l.s
           d == r.mem.tx[l.i]
           listed == xq_csr_set_clr(r, {"XL"}, {})
           error == xq_nxm_error(r)
           looped == LoopBack(r, d)
           written == xq_write_callback(r)
           polled == xq_svc(written)
           Leave(t) == [l EXCEPT !.s = t, !.on = FALSE]
           Go(t) == [l EXCEPT !.s = t, !.i = @ + 1]
           m == TransmitRound(l)
<1>1. m \in {Leave(listed), Leave(error), Go(r), Go(looped), Go(polled)}
  <2>1. m = CASE ~d.valid -> Leave(listed)
              [] d.valid /\ d.bad -> Leave(error)
              [] d.valid /\ ~d.bad /\ ~d.last -> Go(r)
              [] d.valid /\ ~d.bad /\ d.last /\ Looped(r, d) -> Go(looped)
              [] OTHER -> Go(polled)
    BY DEF TransmitRound
  <2> HIDE DEF m, d, r, Leave, Go, listed, error, looped, polled
  <2> QED BY <2>1
<1>2. Good(r) /\ Serves(s, r)
  BY DEF Sent, Serves
<1> HIDE DEF r, d
<1>3. Serves(r, listed)
  BY <1>2, CsrServes
<1>4. Serves(r, error)
  <2> DEFINE set == {"NI", "XI", "XL", "RL"}
  <2>1. "RE" \notin set
    OBVIOUS
  <2> HIDE DEF set
  <2>2. Serves(r, xq_csr_set_clr(r, set, {}))
    BY <1>2, <2>1, CsrServes
  <2> QED BY <2>2 DEF xq_nxm_error, set
<1>5. Serves(r, looped)
  BY <1>2, LoopServes
<1>6. Serves(r, written)
  BY <1>2, CsrServes DEF xq_write_callback
<1> HIDE DEF listed, error, looped, written
<1>7. Serves(r, polled)
  BY <1>6, Polls, ServesChain DEF Serves, Good
<1> HIDE DEF polled
<1>8. \A t \in {r, listed, error, looped, polled} : Serves(s, t)
  BY <1>2, <1>3, <1>4, <1>5, <1>7, ServesChain
<1>9. /\ m.s \in {r, listed, error, looped, polled}
      /\ DOMAIN m = DOMAIN l
  <2>1. \A t : Leave(t).s = t /\ DOMAIN Leave(t) = DOMAIN l /\ Go(t).s = t /\ DOMAIN Go(t) = DOMAIN l
    BY DEF Sent
  <2> HIDE DEF m, Leave, Go
  <2> QED BY <1>1, <2>1
<1> HIDE DEF m
<1>10. Sent(s, m)
  BY <1>8, <1>9 DEF Sent
<1> QED BY <1>10 DEF m

LEMMA TransmitServes == ASSUME NEW s, Good(s) PROVE Serves(s, Transmit(s))
<1> DEFINE R == TransmitRounds(s)
           B == {n \in 0 .. NTx + 1 : Sent(s, R[n])}
<1>1. /\ R[0] = [s |-> s, i |-> 0, on |-> TRUE]
      /\ \A n \in 0 .. NTx : R[n + 1] = TransmitNext(R[n])
  BY TransmitLoop
<1> HIDE DEF R
<1>2. 0 \in B
  <2>1. R[0].s = s /\ DOMAIN R[0] = {"s", "i", "on"}
    BY <1>1
  <2>2. Serves(s, s)
    BY IntServes
  <2> QED BY <2>1, <2>2, Sizes DEF Sent
<1>3. ASSUME NEW n \in 0 .. (NTx + 1) - 1, n \in B PROVE n + 1 \in B
  <2> DEFINE l == R[n]
  <2>1. TransmitNext(l) \in {l, TransmitRound(l)}
    BY DEF TransmitNext
  <2>2. Sent(s, l)
    BY <1>3
  <2> HIDE DEF l
  <2>3. Sent(s, TransmitNext(l))
    BY <2>1, <2>2, RoundSent
  <2> QED BY <1>1, <2>3, Sizes DEF l
<1>4. 0 .. NTx + 1 \subseteq B
  <2> HIDE DEF B
  <2> QED BY <1>2, <1>3, Climb, Sizes
<1>5. Serves(s, R[NTx + 1].s)
  BY <1>4, Sizes DEF Sent
<1> QED BY <1>5 DEF Transmit, R

LEMMA SendServes == ASSUME NEW s, Good(s) PROVE Serves(s, xq_dispatch_xbdl(s))
<1> DEFINE t == xq_csr_set_clr(s, {}, {"XL"})
<1>1. Serves(s, t)
  BY CsrServes
<1> HIDE DEF t
<1>2. Serves(s, Transmit(t))
  BY <1>1, TransmitServes, ServesChain DEF Serves
<1> QED BY <1>2 DEF xq_dispatch_xbdl, t

(* In turbo mode only the shape matters.                                   *)
LEMMA TurboServes ==
    ASSUME NEW s, Good(s), Turbo(s), NEW t, Quiet(s, t)
    PROVE  Serves(s, t)
BY QuietServes DEF Normal, Turbo

LEMMA TurboRoundSent ==
    ASSUME NEW s, Turbo(s), NEW l, {"s", "consumed"} \subseteq DOMAIN l, Quiet(s, l.s)
    PROVE  /\ {"s", "consumed"} \subseteq DOMAIN TurboTransmitRound(l)
           /\ Quiet(s, TurboTransmitRound(l).s)
<1> DEFINE r == l.s
           i == r.xq.tbindx
           d == r.mem.tx[i]
           next == (i + 1) % NTx
           t == [r EXCEPT !.xq.tbindx = next, !.mem.tx[i].valid = FALSE]
           sent == IF d.last /\ r.xq.loop THEN ethq_insert(t, d.pkt) ELSE t
           m == [l EXCEPT !.s = sent, !.consumed = TRUE]
<1>1. TurboTransmitRound(l) \in {l, m}
  BY DEF TurboTransmitRound
<1> HIDE DEF d, next, i, r
<1>2. Quiet(s, r)
  BY DEF r
<1>3. Quiet(s, t)
  <2>1. /\ DOMAIN t = DOMAIN r /\ DOMAIN t.xq = DOMAIN r.xq
        /\ DOMAIN t.mem = DOMAIN r.mem /\ t.mem.rx = r.mem.rx /\ t.net = r.net
    BY <1>2 DEF Quiet, Shaped, Registers
  <2>2. /\ t.xq.mode = r.xq.mode /\ t.xq.units = r.xq.units
        /\ t.xq.csr = r.xq.csr /\ t.xq.rba = r.xq.rba
    BY <1>2 DEF Quiet, Shaped, Registers
  <2> HIDE DEF t
  <2> QED BY <1>2, <2>1, <2>2 DEF Quiet, Shaped, Enabled
<1> HIDE DEF t
<1>4. Quiet(s, sent)
  BY <1>3, Inserted, QuietChain DEF Quiet
<1> HIDE DEF sent
<1>5. {"s", "consumed"} \subseteq DOMAIN m /\ m.s = sent
  OBVIOUS
<1> QED BY <1>1, <1>4, <1>5

LEMMA TurboSendServes ==
    ASSUME NEW s, Good(s), Turbo(s)
    PROVE  Serves(s, xq_process_turbo_xbdl(s))
<1> DEFINE R == TurboTransmitRounds(s)
           Fine(l) == {"s", "consumed"} \subseteq DOMAIN l /\ Quiet(s, l.s)
           B == {n \in 0 .. NTx : Fine(R[n])}
<1>1. /\ R[0] = [s |-> s, consumed |-> FALSE]
      /\ \A n \in 0 .. NTx - 1 : R[n + 1] = TurboTransmitRound(R[n])
  BY TurboTransmitLoop
<1> HIDE DEF R
<1>2. 0 \in B
  <2>1. R[0].s = s /\ DOMAIN R[0] = {"s", "consumed"}
    BY <1>1
  <2> QED BY <2>1, QuietSame, Sizes DEF Good, Half
<1>3. ASSUME NEW n \in 0 .. NTx - 1, n \in B PROVE n + 1 \in B
  <2>1. Fine(TurboTransmitRound(R[n]))
    BY <1>3, TurboRoundSent
  <2> QED BY <1>1, <2>1, Sizes
<1>4. 0 .. NTx \subseteq B
  <2> HIDE DEF B
  <2> QED BY <1>2, <1>3, Climb, Sizes
<1> DEFINE last == R[NTx].s
           told == xq_setint(last)
           polled == xq_svc(told)
<1>5. Serves(s, last)
  BY <1>4, Sizes, TurboServes
<1>6. xq_process_turbo_xbdl(s) \in {s, last, polled}
  BY DEF xq_process_turbo_xbdl, TurboTransmit, R
<1> HIDE DEF last
<1>7. Serves(s, told)
  BY <1>5, IntServes, ServesChain DEF Serves
<1> HIDE DEF told
<1>8. Serves(s, polled)
  BY <1>7, Polls, ServesChain DEF Serves, Good
<1> QED BY <1>5, <1>6, <1>8, IntServes

-----------------------------------------------------------------------------
(* Registers and resets                                                    *)

(* Only the units differ.                                                  *)
Requeued(s, units, t) ==
    /\ Shaped(t)
    /\ t.mem = s.mem /\ t.net = s.net
    /\ t.xq.mode = s.xq.mode /\ t.xq.csr = s.xq.csr /\ t.xq.q = s.xq.q
    /\ t.xq.units = units

LEMMA Started ==
    ASSUME NEW s, Shaped(s), NEW u
    PROVE  Requeued(s, s.xq.units \cup {u}, Activate(s, u))
BY Activated DEF Requeued

LEMMA Stopped ==
    ASSUME NEW s, Shaped(s), NEW U
    PROVE  Requeued(s, s.xq.units \ U, [s EXCEPT !.xq.units = @ \ U])
BY DEF Requeued, Shaped, Registers

LEMMA ReceiverStopped ==
    ASSUME NEW s, Shaped(s)
    PROVE  Requeued(s, s.xq.units \ {"Poll", "Start"}, xq_stop_receiver(s))
BY Stopped DEF xq_stop_receiver

(* Either reset leaves an idle receiver.                                   *)
Idle(s, t) ==
    /\ Shaped(t)
    /\ t.mem = s.mem
    /\ Normal(t) /\ ~Enabled(t) /\ Drained(t)
    /\ t.xq.units \subseteq s.xq.units

Kept == {"XL", "RL"}

LEMMA Cleared ==
    ASSUME NEW s, Shaped(s), Normal(s), NEW clr, "RE" \in clr, "RL" \notin clr, NEW t,
           CsrWritten(s, Kept, clr, t)
    PROVE  Idle(s, t) /\ t.xq.units = s.xq.units
BY DEF CsrWritten, Idle, Kept, Normal, Enabled, Drained

LEMMA SwReset == ASSUME NEW s, Shaped(s) PROVE Idle(s, xq_sw_reset(s))
<1> DEFINE n == [s EXCEPT !.xq.mode = "normal", !.xq.srr = "none"]
           t == IF Turbo(s) THEN n ELSE s
           clr == (RW \cup W1 \cup {"NI"}) \ Kept
           u == xq_csr_set_clr(t, Kept, clr)
           v == xq_clrint(u)
           w == ethq_clear(v)
           z == xq_stop_receiver(w)
<1>1. xq_sw_reset(s) = z
  BY DEF xq_sw_reset, Kept
<1>2. Shaped(t) /\ Normal(t) /\ t.mem = s.mem /\ t.xq.units = s.xq.units
  <2>1. Shaped(n) /\ Normal(n) /\ n.mem = s.mem /\ n.xq.units = s.xq.units
    BY DEF Shaped, Registers, Normal
  <2> HIDE DEF n
  <2> QED BY <2>1 DEF Shaped, Normal, Turbo
<1>3. "RE" \in clr /\ "RL" \notin clr
  BY DEF RW, Kept
<1> HIDE DEF t, clr
<1>4. Idle(t, u) /\ u.xq.units = t.xq.units
  BY <1>2, <1>3, CsrSetClr, Cleared
<1> HIDE DEF u
<1>5. Silent(u, v)
  BY <1>4, ClrInt DEF Idle
<1> HIDE DEF v
<1>6. Shaped(w) /\ w.xq = [v.xq EXCEPT !.q = <<>>] /\ w.mem = v.mem
  BY <1>5 DEF ethq_clear, Silent, Quiet, Shaped, Registers
<1>7. w.xq.mode = v.xq.mode /\ w.xq.csr = v.xq.csr /\ w.xq.units = v.xq.units
  BY <1>5, <1>6 DEF Silent, Quiet, Shaped, Registers
<1> HIDE DEF w
<1>8. Requeued(w, w.xq.units \ {"Poll", "Start"}, z)
  BY <1>6, ReceiverStopped
<1> HIDE DEF z
<1>9. Idle(s, z)
  BY <1>2, <1>4, <1>5, <1>6, <1>7, <1>8 DEF Idle, Silent, Quiet, Requeued, Normal, Enabled, Drained
<1> QED BY <1>1, <1>9

LEMMA BusResetIdle == ASSUME NEW s, Shaped(s) PROVE Idle(s, xq_reset(s))
<1> DEFINE n == [s EXCEPT !.xq.mode = "normal"]
           clr == (RW \cup W1 \cup {"NI"}) \ Kept
           u == xq_csr_set_clr(n, Kept, clr)
           v == xq_clrint(u)
           w == ethq_clear(v)
           z == [w EXCEPT !.xq.units = @ \ {"Poll", "Start"}]
<1>1. xq_reset(s) = z
  BY DEF xq_reset, Kept
<1>2. Shaped(n) /\ Normal(n) /\ n.mem = s.mem /\ n.xq.units = s.xq.units
  BY DEF Shaped, Registers, Normal
<1>3. "RE" \in clr /\ "RL" \notin clr
  BY DEF RW, Kept
<1> HIDE DEF n, clr
<1>4. Idle(n, u) /\ u.xq.units = n.xq.units
  BY <1>2, <1>3, CsrSetClr, Cleared
<1> HIDE DEF u
<1>5. Silent(u, v)
  BY <1>4, ClrInt DEF Idle
<1> HIDE DEF v
<1>6. Shaped(w) /\ w.xq = [v.xq EXCEPT !.q = <<>>] /\ w.mem = v.mem
  BY <1>5 DEF ethq_clear, Silent, Quiet, Shaped, Registers
<1>7. w.xq.mode = v.xq.mode /\ w.xq.csr = v.xq.csr /\ w.xq.units = v.xq.units
  BY <1>5, <1>6 DEF Silent, Quiet, Shaped, Registers
<1> HIDE DEF w
<1>8. Requeued(w, w.xq.units \ {"Poll", "Start"}, z)
  BY <1>6, Stopped
<1> HIDE DEF z
<1>9. Idle(s, z)
  BY <1>2, <1>4, <1>5, <1>6, <1>7, <1>8 DEF Idle, Silent, Quiet, Requeued, Normal, Enabled, Drained
<1> QED BY <1>1, <1>9

(* A write of the CSR enables the receiver only if that was written.       *)
Wrote(s, data, t) ==
    /\ Good(t) /\ Normal(t)
    /\ Enabled(t) => "RE" \in data
    /\ "Srqr" \in t.xq.units => "Srqr" \in s.xq.units

LEMMA IdleGood ==
    ASSUME NEW s, NEW t, Idle(s, t), ListEnds(t)
    PROVE  Good(t)
BY DEF Idle, Good, Half, Awaited, Polled

LEMMA WriteCsr ==
    ASSUME NEW s, Good(s), Normal(s), NEW data
    PROVE  Wrote(s, data, xq_wr_csr(s, data))
<1> DEFINE set == RW \cap data
           clr == (RW \cup W1 \cup {"NI"})
                  \ ((RW \cap data) \cup (W1 \ data) \cup IF "XI" \in data THEN {} ELSE {"NI"})
           t == IF "RE" \in data \ s.xq.csr THEN Activate(s, "Start") ELSE s
           u == IF "RE" \in s.xq.csr \ data THEN xq_stop_receiver(t) ELSE t
           v == xq_csr_set_clr(u, set, clr)
           boot == xq_process_bootrom(v)
           reset == xq_sw_reset(s)
<1>1. xq_wr_csr(s, data) \in {v, boot, reset}
  <2>1. xq_wr_csr(s, data) =
            CASE "SR" \in s.xq.csr \ data -> reset
              [] "SR" \notin s.xq.csr \ data /\ {"BD", "EL"} \subseteq v.xq.csr -> boot
              [] OTHER -> v
    BY DEF xq_wr_csr
  <2> HIDE DEF v, boot, reset
  <2> QED BY <2>1
<1>2. /\ "RE" \in set \ clr <=> "RE" \in data
      /\ "RE" \notin data => "RE" \in clr
      /\ "RL" \notin set \cup clr
  BY DEF RW, W1
<1>3. Shaped(s) /\ ListEnds(s) /\ Awaited(s) /\ Polled(s)
  BY DEF Good, Half
<1> HIDE DEF set, clr
<1>4. Requeued(s, IF "RE" \in data \ s.xq.csr THEN s.xq.units \cup {"Start"} ELSE s.xq.units, t)
  BY <1>3, Started DEF Requeued
<1> HIDE DEF t
<1>5. Requeued(t, IF "RE" \in s.xq.csr \ data THEN t.xq.units \ {"Poll", "Start"} ELSE t.xq.units, u)
  BY <1>4, ReceiverStopped DEF Requeued
<1> HIDE DEF u
<1>6. CsrWritten(u, set, clr, v)
  BY <1>5, CsrSetClr DEF Requeued
<1> HIDE DEF v
<1>7. /\ Shaped(v) /\ Normal(v) /\ v.mem = s.mem /\ v.xq.q = s.xq.q
      /\ v.xq.csr = (s.xq.csr \cup set) \ clr
  BY <1>4, <1>5, <1>6 DEF Requeued, CsrWritten, Normal
<1>8. /\ "Rcv" \in s.xq.units => "Rcv" \in v.xq.units
      /\ "Srqr" \in v.xq.units => "Srqr" \in s.xq.units
      /\ "RE" \in data /\ "RE" \in s.xq.csr => v.xq.units = s.xq.units
      /\ "RE" \in data /\ "RE" \notin s.xq.csr => "Start" \in v.xq.units
  BY <1>4, <1>5, <1>6 DEF Requeued, CsrWritten
<1>9. Enabled(v) <=> "RE" \in data
  BY <1>2, <1>7 DEF Enabled
<1>10. ListEnds(v) /\ Awaited(v) /\ Polled(v)
  BY <1>2, <1>3, <1>7, <1>8, <1>9 DEF ListEnds, Awaited, Drained, Polled, Enabled
<1>11. Wrote(s, data, v)
  BY <1>7, <1>8, <1>9, <1>10 DEF Wrote, Good, Half
<1>12. Wrote(s, data, boot)
  <2> DEFINE p == [src |-> "boot", id |-> 0, size |-> 2]
             w == ethq_insert(v, p)
             z == xq_process_rbdl(w)
  <2>1. Quiet(v, w)
    BY <1>7, Inserted
  <2>2. Usable(v) /\ ~Turbo(v)
    BY <1>7, <1>10 DEF Usable, Normal, Turbo
  <2> HIDE DEF w
  <2>3. Usable(w) /\ ~Turbo(w)
    BY <2>1, <2>2, UsableChain DEF Quiet, Turbo
  <2>4. Quiet(v, z) /\ Drained(z)
    BY <2>1, <2>3, Processed, QuietChain
  <2> HIDE DEF z
  <2>5. Serves(v, z)
    BY <1>11, <2>4, QuietServes DEF Wrote, Awaited
  <2>6. Wrote(s, data, z)
    BY <1>11, <2>5 DEF Wrote, Serves, Normal
  <2> QED BY <2>6 DEF boot, z, w, xq_process_bootrom
<1> HIDE DEF boot
<1>13. Wrote(s, data, reset)
  <2>1. Idle(s, reset)
    BY <1>3, SwReset
  <2> HIDE DEF reset
  <2>2. ListEnds(reset)
    BY <1>3, <2>1 DEF Idle, ListEnds
  <2> QED BY <2>1, <2>2, IdleGood DEF Wrote, Idle
<1> HIDE DEF reset
<1> QED BY <1>1, <1>11, <1>12, <1>13

-----------------------------------------------------------------------------
(* The steps                                                               *)

LEMMA Became ==
    ASSUME NEW s, Good(s), Becomes(s)
    PROVE  Good(State') /\ xq' = s.xq
<1> DEFINE t == [xq |-> xq', mem |-> mem', net |-> net']
<1>1. xq' = s.xq /\ t.xq = s.xq /\ t.mem = s.mem /\ t.net = s.net /\ DOMAIN t = {"xq", "mem", "net"}
  BY DEF Becomes
<1>2. State' = t
  BY DEF State
<1> HIDE DEF t
<1>3. Shaped(t)
  BY <1>1 DEF Good, Half, Shaped
<1>4. Good(t)
  BY <1>1, <1>3 DEF Good, Half, Normal, ListEnds, Awaited, Drained, Polled, Enabled
<1> QED BY <1>1, <1>2, <1>4

(* The driver's part, in terms of the registers alone.                     *)
DrvPart(x, d) ==
    /\ {"pc", "want", "seen", "rix", "busy", "tix", "log"} \subseteq DOMAIN d
    /\ d.rix \in 0 .. NRx - 1
    /\ d.pc = "write" => x.mode = "normal" /\ "RE" \notin d.seen
    /\ x.mode = "normal" /\ "RE" \in x.csr => "RE" \in d.want
    /\ x.mode = "normal" /\ "Srqr" \in x.units => "RE" \notin d.want
    /\ d.pc \in {"down", "waiting", "stopping"} => "RE" \notin d.want
    /\ x.mode = "turbo" => "RE" \notin d.want

Counted(c) == "net" \in DOMAIN c /\ c.net \in Nat

LEMMA DrvParts ==
    /\ DrvInv <=> DrvPart(xq, drv) /\ Counted(count)
    /\ DrvInv' <=> DrvPart(xq', drv') /\ Counted(count')
BY DEF DrvInv, DrvPart, Counted, Normal, Enabled, State

LEMMA StateIs == State.xq = xq /\ State.mem = mem /\ State.net = net
BY DEF State

(* A service that takes place, and leaves mode and driver as they are.     *)
LEMMA ServiceKeeps ==
    ASSUME XqInv, NEW z, Good(z), Becomes(z), UNCHANGED <<drv, count>>,
           z.xq.mode = xq.mode, "RE" \in z.xq.csr => "RE" \in xq.csr,
           "Srqr" \in z.xq.units => "Srqr" \in xq.units
    PROVE  XqInv'
<1>1. Good(State') /\ xq' = z.xq
  BY Became
<1>2. DrvPart(xq', drv') /\ Counted(count')
  BY <1>1, DrvParts DEF XqInv, DrvPart
<1> QED BY <1>1, <1>2, DrvParts DEF XqInv

Taken(u, t) == Requeued(State, xq.units \ {u}, t)

LEMMA TakenUnit ==
    ASSUME XqInv, NEW u
    PROVE  Taken(u, [State EXCEPT !.xq.units = @ \ {u}])
<1> DEFINE s == State
           t == [s EXCEPT !.xq.units = @ \ {u}]
<1>1. Shaped(s) /\ s.xq = xq
  BY StateIs DEF XqInv, Good, Half
<1> HIDE DEF s
<1>2. Requeued(s, s.xq.units \ {u}, t)
  BY <1>1, Stopped
<1> QED BY <1>1, <1>2 DEF Taken, s

LEMMA StepPoll == ASSUME XqInv, PollSvc PROVE XqInv'
<1> DEFINE t == [State EXCEPT !.xq.units = @ \ {"Poll"}]
           z == xq_svc(t)
<1>1. Becomes(z) /\ UNCHANGED <<drv, count>>
  BY DEF PollSvc, Service
<1>2. Taken("Poll", t)
  BY TakenUnit
<1> HIDE DEF t
<1>3. Half(t)
  BY <1>2, StateIs DEF Taken, Requeued, XqInv, Good, Half, Normal, ListEnds, Awaited, Drained
<1>4. Serves(t, z)
  BY <1>3, Polls
<1> HIDE DEF z
<1>5. /\ Good(z) /\ z.xq.mode = xq.mode /\ ("RE" \in z.xq.csr => "RE" \in xq.csr)
      /\ "Srqr" \in z.xq.units => "Srqr" \in xq.units
  BY <1>2, <1>4, StateIs DEF Serves, Taken, Requeued, Enabled
<1> QED BY <1>1, <1>5, ServiceKeeps

LEMMA StepStart == ASSUME XqInv, xq_startsvc PROVE XqInv'
<1> DEFINE t == [State EXCEPT !.xq.units = @ \ {"Start"}]
           z == xq_start_receiver(t)
<1>1. Becomes(z) /\ UNCHANGED <<drv, count>>
  BY DEF xq_startsvc, Service
<1>2. Taken("Start", t)
  BY TakenUnit
<1> HIDE DEF t
<1>3. Requeued(t, IF Turbo(t) THEN t.xq.units ELSE t.xq.units \cup {"Poll"}, z)
  <2>1. Shaped(t)
    BY <1>2 DEF Taken, Requeued
  <2>2. Requeued(t, t.xq.units \cup {"Poll"}, Activate(t, "Poll"))
    BY <2>1, Started
  <2>3. Requeued(t, t.xq.units, t)
    BY <2>1 DEF Requeued
  <2>4. CASE Turbo(t)
    BY <2>3, <2>4 DEF xq_start_receiver
  <2>5. CASE ~Turbo(t)
    BY <2>2, <2>5 DEF xq_start_receiver
  <2> QED BY <2>4, <2>5
<1> HIDE DEF z
<1>4. Good(z)
  BY <1>2, <1>3, StateIs
     DEF Taken, Requeued, XqInv, Good, Half, Normal, Turbo, ListEnds, Awaited, Drained, Polled
<1>5. /\ z.xq.mode = xq.mode /\ ("RE" \in z.xq.csr => "RE" \in xq.csr)
      /\ "Srqr" \in z.xq.units => "Srqr" \in xq.units
  BY <1>2, <1>3, StateIs DEF Taken, Requeued
<1> QED BY <1>1, <1>4, <1>5, ServiceKeeps

LEMMA StepReceive == ASSUME XqInv, xq_receivesvc PROVE XqInv'
<1> DEFINE t == [State EXCEPT !.xq.units = @ \ {"Rcv"}]
           z == xq_process_rbdl(t)
<1>1. Becomes(z) /\ UNCHANGED <<drv, count>>
  BY DEF xq_receivesvc, Service
<1>2. Taken("Rcv", t)
  BY TakenUnit
<1> HIDE DEF t
<1>3. Usable(t)
  BY <1>2, StateIs DEF Taken, Requeued, XqInv, Good, Half, Normal, Turbo, ListEnds, Usable, Shaped
<1>4. Quiet(t, z) /\ (~Turbo(t) => Drained(z))
  BY <1>3, Processed
<1> HIDE DEF z
<1>5. Usable(z)
  BY <1>3, <1>4, UsableChain
<1>6. Good(z)
  BY <1>2, <1>4, <1>5, StateIs
     DEF Taken, Requeued, XqInv, Good, Half, Normal, Turbo, Usable, Quiet, Awaited, Polled, Enabled
<1>7. /\ z.xq.mode = xq.mode /\ ("RE" \in z.xq.csr => "RE" \in xq.csr)
      /\ "Srqr" \in z.xq.units => "Srqr" \in xq.units
  BY <1>2, <1>4, StateIs DEF Taken, Requeued, Quiet, Enabled
<1> QED BY <1>1, <1>6, <1>7, ServiceKeeps

(* STOP in normal mode finds the receiver disabled: the driver has not     *)
(* enabled it while the request was under way.                             *)
LEMMA StepSrqr == ASSUME XqInv, xq_srqrsvc PROVE XqInv'
<1> DEFINE t == [State EXCEPT !.xq.units = @ \ {"Srqr"}]
           r == [t EXCEPT !.xq.icr = TRUE, !.xq.rbindx = 0, !.xq.tbindx = 0]
           strt == xq_start_receiver(r)
           stop == xq_stop_receiver(t)
           z == xq_wr_srqr_action(t)
<1>1. Becomes(z) /\ UNCHANGED <<drv, count>> /\ "Srqr" \in xq.units
  BY DEF xq_srqrsvc, Service
<1>2. Taken("Srqr", t)
  BY TakenUnit
<1>3. z \in {xq_setint(strt), xq_setint(stop), xq_setint(t)}
  BY DEF xq_wr_srqr_action
<1> HIDE DEF t, z
<1>4. Normal(t) => ~Enabled(t)
  BY <1>1, <1>2, DrvParts, StateIs DEF XqInv, DrvPart, Taken, Requeued, Normal, Enabled
<1>5. Good(t)
  BY <1>2, <1>4, StateIs
     DEF Taken, Requeued, XqInv, Good, Half, Normal, ListEnds, Awaited, Drained, Polled
<1>6. Requeued(t, t.xq.units, r)
  BY <1>5 DEF Requeued, Good, Half, Shaped, Registers
<1> HIDE DEF r
<1>7. Requeued(t, IF Turbo(t) THEN t.xq.units ELSE t.xq.units \cup {"Poll"}, strt)
  <2> DEFINE a == Activate(r, "Poll")
  <2>1. strt = IF Turbo(r) THEN r ELSE a
    BY DEF xq_start_receiver
  <2>2. Requeued(r, r.xq.units \cup {"Poll"}, a)
    BY <1>6, Started DEF Requeued
  <2> HIDE DEF a, strt
  <2> QED BY <1>6, <2>1, <2>2 DEF Requeued, Turbo
<1>8. Requeued(t, t.xq.units \ {"Poll", "Start"}, stop)
  BY <1>5, ReceiverStopped DEF Good, Half
<1> HIDE DEF strt, stop
<1>9. \A u \in {strt, stop, t} : Good(u) /\ u.xq.mode = t.xq.mode /\ u.xq.csr = t.xq.csr
                                 /\ ("Srqr" \in u.xq.units => "Srqr" \in t.xq.units)
  BY <1>4, <1>5, <1>7, <1>8
     DEF Requeued, Good, Half, Normal, Enabled, Turbo, ListEnds, Awaited, Drained, Polled
<1>10. \A u \in {strt, stop, t} : Serves(u, xq_setint(u))
  BY <1>9, IntServes
<1>11. PICK u \in {strt, stop, t} : z = xq_setint(u) /\ Serves(u, z)
  BY <1>3, <1>10
<1>12. /\ Good(z) /\ z.xq.mode = xq.mode /\ ("RE" \in z.xq.csr => "RE" \in xq.csr)
       /\ "Srqr" \in z.xq.units => "Srqr" \in xq.units
  BY <1>1, <1>2, <1>9, <1>11, StateIs DEF Serves, Taken, Requeued, Enabled
<1> QED BY <1>1, <1>12, ServiceKeeps

LEMMA StepArrive == ASSUME XqInv, Arrive PROVE XqInv'
<1>1. PICK f \in Frames : net' = Append(net, f)
  <2>1. count.net + 1 \in Nat
    BY DrvParts DEF XqInv, Counted
  <2> QED BY <2>1 DEF Arrive, Frames
<1>2. UNCHANGED <<xq, mem, drv>>
  BY DEF Arrive
<1>3. Counted(count')
  <2>1. Counted(count)
    BY DrvParts DEF XqInv
  <2>2. DOMAIN count' = DOMAIN count /\ (count'.net = count.net + 1)
    BY <2>1 DEF Arrive, Counted
  <2> QED BY <2>1, <2>2 DEF Counted
<1>4. Incoming(net')
  <2>1. Incoming(net)
    BY StateIs DEF XqInv, Good, Half, Shaped
  <2> QED BY <1>1, <2>1 DEF Incoming
<1> DEFINE z == [xq |-> xq, mem |-> mem, net |-> net']
<1>5. z.xq = State.xq /\ z.mem = State.mem /\ z.net = net' /\ DOMAIN z = DOMAIN State
  BY DEF State
<1>6. Becomes(z)
  BY <1>2 DEF Becomes
<1> HIDE DEF z
<1>7. Good(z)
  <2>1. Shaped(z)
    BY <1>4, <1>5 DEF XqInv, Good, Half, Shaped
  <2> QED BY <1>5, <2>1 DEF XqInv, Good, Half, Normal, ListEnds, Awaited, Drained, Polled, Enabled
<1>8. Good(State')
  BY <1>6, <1>7, Became
<1> QED BY <1>2, <1>3, <1>8, DrvParts DEF XqInv

LEMMA FreshEnds ==
    /\ DOMAIN FreshRx = 0 .. NRx
    /\ \A i \in 0 .. NRx : {"valid", "st"} \subseteq DOMAIN FreshRx[i]
    /\ NRx - 1 \in 0 .. NRx - 1 /\ ~FreshRx[NRx - 1].valid
<1>1. NRx - 1 \in 0 .. NRx - 1 /\ NRx - 1 \in 0 .. NRx
  BY Sizes
<1>2. \A i \in 0 .. NRx : FreshRx[i] = Buffer(i # NRx - 1)
  BY DEF FreshRx
<1>3. DOMAIN FreshRx = 0 .. NRx
  BY DEF FreshRx
<1>4. \A v : DOMAIN Buffer(v) = {"valid", "st"} /\ Buffer(v).valid = v
  BY DEF Buffer
<1> QED BY <1>1, <1>2, <1>3, <1>4

(* New rings after a reset.                                                *)
LEMMA Anew ==
    ASSUME XqInv, NEW s, Shaped(s), Normal(s), ~Enabled(s), Awaited(s), DownAfterReset(s),
           Counted(count')
    PROVE  XqInv'
<1> DEFINE rings == [rx |-> FreshRx, tx |-> FreshTx]
           z == [s EXCEPT !.mem = rings]
<1>1. Becomes(z) /\ \E f : drv' = Down(f)
  BY DEF DownAfterReset
<1>2. z.mem = rings /\ z.xq = s.xq /\ z.net = s.net /\ DOMAIN z = DOMAIN s
  BY DEF Shaped
<1>3. rings.rx = FreshRx /\ {"rx", "tx"} \subseteq DOMAIN rings
  OBVIOUS
<1> HIDE DEF z, rings
<1>4. Shaped(z)
  BY <1>2, <1>3, FreshEnds DEF Shaped
<1>5. ListEnds(z) /\ Awaited(z) /\ ~Enabled(z) /\ Normal(z)
  BY <1>2, <1>3, FreshEnds DEF ListEnds, Awaited, Drained, Enabled, Normal
<1>6. Good(z)
  BY <1>4, <1>5 DEF Good, Half, Polled
<1>7. Good(State') /\ xq' = z.xq
  BY <1>1, <1>6, Became
<1>8. /\ DOMAIN drv' = {"pc", "want", "seen", "rix", "busy", "tix", "log", "floor"}
      /\ drv'.pc = "down" /\ drv'.want = {} /\ drv'.rix = 0
  BY <1>1 DEF Down
<1>9. DrvPart(xq', drv')
  BY <1>5, <1>7, <1>8, Sizes DEF DrvPart, Normal, Enabled
<1> QED BY <1>7, <1>9, DrvParts DEF XqInv

LEMMA StepBusReset == ASSUME XqInv, BusReset PROVE XqInv'
<1> DEFINE s == State
           z == xq_reset(s)
<1>1. DownAfterReset(z) /\ Counted(count')
  BY DrvParts DEF BusReset, XqInv, Counted
<1>2. Shaped(s)
  BY DEF XqInv, Good, Half
<1> HIDE DEF s
<1>3. Idle(s, z)
  BY <1>2, BusResetIdle
<1> HIDE DEF z
<1> QED BY <1>1, <1>3, Anew DEF Idle, Awaited

LEMMA StepSoftReset == ASSUME XqInv, SoftReset PROVE XqInv'
<1> DEFINE s == State
           w == xq_wr_csr(s, {"SR"})
           z == IF xq.mode = "turbo" THEN xq_sw_reset(s) ELSE xq_wr_csr(s, {})
<1>1. Good(s) /\ Shaped(s) /\ s.xq = xq
  BY StateIs DEF XqInv, Good, Half
<1>2. CASE xq.mode = "normal" /\ Becomes(w) /\ drv' = [drv EXCEPT !.pc = "resetting"]
           /\ UNCHANGED count
  <2> HIDE DEF s
  <2>1. Wrote(s, {"SR"}, w)
    BY <1>1, <1>2, WriteCsr DEF Normal
  <2> HIDE DEF w
  <2>2. Good(State') /\ xq' = w.xq
    BY <1>2, <2>1, Became DEF Wrote
  <2>3. "RE" \notin w.xq.csr /\ ("Srqr" \in w.xq.units => "Srqr" \in xq.units)
        /\ w.xq.mode = "normal"
    BY <1>1, <2>1 DEF Wrote, Enabled, Normal
  <2>4. DrvPart(xq, drv) /\ Counted(count)
    BY DrvParts DEF XqInv
  <2>5. DrvPart(xq', drv') /\ Counted(count')
    BY <1>2, <2>2, <2>3, <2>4 DEF DrvPart, Counted
  <2> QED BY <2>2, <2>5, DrvParts DEF XqInv
<1>3. CASE DownAfterReset(z) /\ count' = [count EXCEPT !.resets = @ + 1]
  <2>1. Counted(count')
    BY <1>3, DrvParts DEF XqInv, Counted
  <2>2. CASE xq.mode = "turbo"
    <3>1. z = xq_sw_reset(s)
      BY <2>2
    <3> HIDE DEF s, z
    <3>2. Idle(s, z)
      BY <1>1, <3>1, SwReset
    <3> QED BY <1>3, <2>1, <3>2, Anew DEF Idle, Awaited
  <2>3. CASE xq.mode # "turbo"
    <3>1. z = xq_wr_csr(s, {})
      BY <2>3
    <3> HIDE DEF s, z
    <3>2. Normal(s)
      BY <1>1, <2>3 DEF Shaped, Normal
    <3>3. Wrote(s, {}, z)
      BY <1>1, <3>1, <3>2, WriteCsr
    <3> QED BY <1>3, <2>1, <3>3, Anew DEF Wrote, Good, Half
  <2> QED BY <2>2, <2>3
<1> QED BY <1>2, <1>3 DEF SoftReset, s

(* The driver's steps that do not touch the rings.                         *)
LEMMA DriverKeeps ==
    ASSUME XqInv, NEW z, Good(z), Becomes(z), UNCHANGED count, DrvPart(z.xq, drv')
    PROVE  XqInv'
<1>1. Good(State') /\ xq' = z.xq
  BY Became
<1> QED BY <1>1, DrvParts DEF XqInv, Counted

LEMMA StepBegin == ASSUME XqInv, Start PROVE XqInv'
<1> DEFINE s == State
<1>1. PICK c \in CsrModes : Becomes(xq_wr_csr(s, c)) /\ drv' = [drv EXCEPT !.pc = "init", !.want = c]
  BY DEF Start
<1> DEFINE z == xq_wr_csr(s, c)
<1>2. Good(s) /\ s.xq = xq /\ DrvPart(xq, drv) /\ Normal(s)
  BY StateIs, DrvParts DEF XqInv, Start, Settled, Normal
<1> HIDE DEF s
<1>3. Wrote(s, c, z)
  BY <1>2, WriteCsr
<1> HIDE DEF z
<1>4. DrvPart(z.xq, drv')
  BY <1>1, <1>2, <1>3 DEF DrvPart, Wrote, Enabled, Normal, Start, Settled
<1>5. Good(z) /\ Becomes(z) /\ UNCHANGED count
  BY <1>1, <1>3 DEF z, Wrote, Start
<1> QED BY <1>4, <1>5, DriverKeeps

LEMMA StepBoot == ASSUME XqInv, Boot PROVE XqInv'
<1> DEFINE s == State
           t == xq_dispatch_rbdl(s, 0)
           z == xq_wr_csr(t, {"EL", "BD"})
<1>1. Becomes(z) /\ drv' = [drv EXCEPT !.pc = "scan"] /\ UNCHANGED count
  BY DEF Boot
<1>2. Good(s) /\ s.xq = xq /\ DrvPart(xq, drv) /\ Normal(s)
  BY StateIs, DrvParts DEF XqInv, Boot, Settled, Normal
<1> HIDE DEF s
<1>3. Usable(s) /\ ~Turbo(s) /\ 0 \in 0 .. NRx
  BY <1>2, HalfUsable, Sizes DEF Good, Normal, Turbo
<1>4. Quiet(s, t) /\ Drained(t)
  BY <1>3, Dispatched
<1> HIDE DEF t
<1>5. Serves(s, t) /\ Normal(t)
  BY <1>2, <1>4, QuietServes DEF Awaited, Quiet, Normal
<1>6. Wrote(t, {"EL", "BD"}, z)
  BY <1>5, WriteCsr DEF Serves
<1> HIDE DEF z
<1>7. z.xq.mode = "normal" /\ "RE" \notin z.xq.csr /\ ("Srqr" \in z.xq.units => "Srqr" \in xq.units)
  BY <1>2, <1>4, <1>6 DEF Wrote, Quiet, Normal, Enabled
<1>8. DrvPart(z.xq, drv')
  BY <1>1, <1>2, <1>7 DEF DrvPart, Boot, Settled
<1> QED BY <1>1, <1>6, <1>8, DriverKeeps DEF Wrote

LEMMA StepGiveList == ASSUME XqInv, GiveList PROVE XqInv'
<1> DEFINE s == State
           z == xq_dispatch_rbdl(s, 0)
<1>1. Becomes(z) /\ drv' = [drv EXCEPT !.pc = "idle"] /\ UNCHANGED count
  BY DEF GiveList
<1>2. Good(s) /\ s.xq = xq /\ DrvPart(xq, drv)
  BY StateIs, DrvParts DEF XqInv
<1> HIDE DEF s
<1>3. Usable(s) /\ 0 \in 0 .. NRx /\ (Normal(s) <=> ~Turbo(s))
  BY <1>2, HalfUsable, Sizes DEF Good
<1>4. Quiet(s, z) /\ (Normal(s) => Awaited(z))
  BY <1>3, Dispatched DEF Awaited
<1> HIDE DEF z
<1>5. Serves(s, z)
  BY <1>2, <1>4, QuietServes
<1>6. DrvPart(z.xq, drv')
  BY <1>1, <1>2, <1>4 DEF DrvPart, Quiet, Enabled
<1> QED BY <1>1, <1>5, <1>6, DriverKeeps DEF Serves

LEMMA StepEnterTurbo == ASSUME XqInv, EnterTurbo PROVE XqInv'
<1> DEFINE t == [xq EXCEPT !.mode = "turbo", !.srr = "TRBO", !.units = @ \ {"Poll"}]
           rx == [i \in 0 .. NRx |-> Buffer(i < NRx)]
           m == [mem EXCEPT !.rx = rx]
           z == [State EXCEPT !.xq = t, !.mem = m]
<1>1. UNCHANGED <<drv, count>> /\ drv.pc = "down"
  BY DEF EnterTurbo
<1>2. Becomes(z)
  BY DEF EnterTurbo, xq_enter_turbo, State, Becomes
<1>3. Shaped(State) /\ State.xq = xq /\ State.mem = mem /\ DrvPart(xq, drv)
  BY StateIs, DrvParts DEF XqInv, Good, Half
<1>4. z.xq = t /\ z.mem = m /\ z.net = net /\ {"xq", "mem", "net"} \subseteq DOMAIN z
  BY DEF State
<1>5. DOMAIN t = DOMAIN xq /\ t.mode = "turbo" /\ t.rba = xq.rba
  BY <1>3 DEF Shaped, Registers
<1>6. DOMAIN m = DOMAIN mem /\ m.rx = rx
  BY <1>3 DEF Shaped
<1>7. DOMAIN rx = 0 .. NRx /\ \A i \in 0 .. NRx : {"valid", "st"} \subseteq DOMAIN rx[i]
  BY DEF Buffer
<1> HIDE DEF z, t, m, rx
<1>8. Shaped(z)
  BY <1>3, <1>4, <1>5, <1>6, <1>7, StateIs DEF Shaped
<1>9. Good(z)
  BY <1>4, <1>5, <1>8 DEF Good, Half, Normal
<1>10. DrvPart(z.xq, drv')
  BY <1>1, <1>3, <1>4, <1>5 DEF DrvPart
<1> QED BY <1>1, <1>2, <1>9, <1>10, DriverKeeps

LEMMA StepStartTurbo == ASSUME XqInv, StartTurbo PROVE XqInv'
<1> DEFINE s == State
           a == [s EXCEPT !.xq.srr = "STRT"]
           b == Activate(a, "Srqr")
<1>1. PICK loop \in BOOLEAN : Becomes([b EXCEPT !.xq.loop = loop])
  BY DEF StartTurbo, xq_wr_srqr_set
<1> DEFINE z == [b EXCEPT !.xq.loop = loop]
<1>2. drv.pc = "down" /\ drv' = [drv EXCEPT !.pc = "waiting"] /\ UNCHANGED count
  BY DEF StartTurbo
<1>3. Good(s) /\ s.xq = xq /\ DrvPart(xq, drv)
  BY StateIs, DrvParts DEF XqInv
<1> HIDE DEF s
<1>4. Requeued(s, s.xq.units, a)
  BY <1>3 DEF Requeued, Good, Half, Shaped, Registers
<1> HIDE DEF a
<1>5. Requeued(s, s.xq.units \cup {"Srqr"}, b)
  BY <1>4, Started DEF Requeued
<1> HIDE DEF b
<1>6. Requeued(s, s.xq.units \cup {"Srqr"}, z)
  BY <1>5 DEF Requeued, Shaped, Registers
<1> HIDE DEF z
<1>7. Good(z)
  BY <1>3, <1>6 DEF Requeued, Good, Half, Normal, ListEnds, Awaited, Drained, Polled, Enabled
<1>8. DrvPart(z.xq, drv')
  BY <1>2, <1>3, <1>6 DEF DrvPart, Requeued
<1>9. Becomes(z)
  BY <1>1 DEF z
<1> QED BY <1>2, <1>7, <1>8, <1>9, DriverKeeps

LEMMA StepStopTurbo == ASSUME XqInv, StopTurbo PROVE XqInv'
<1> DEFINE s == State
           a == [s EXCEPT !.xq.srr = "STOP"]
           z == Activate(a, "Srqr")
<1>1. Becomes(z)
  BY DEF StopTurbo, xq_wr_srqr_set
<1>2. xq.mode = "turbo" /\ drv' = [drv EXCEPT !.pc = "stopping"] /\ UNCHANGED count
  BY DEF StopTurbo
<1>3. Good(s) /\ s.xq = xq /\ DrvPart(xq, drv)
  BY StateIs, DrvParts DEF XqInv
<1> HIDE DEF s
<1>4. Requeued(s, s.xq.units, a)
  BY <1>3 DEF Requeued, Good, Half, Shaped, Registers
<1> HIDE DEF a
<1>5. Requeued(s, s.xq.units \cup {"Srqr"}, z)
  BY <1>4, Started DEF Requeued
<1> HIDE DEF z
<1>6. Good(z)
  BY <1>2, <1>3, <1>5 DEF Requeued, Good, Half, Normal
<1>7. DrvPart(z.xq, drv')
  BY <1>2, <1>3, <1>5 DEF DrvPart, Requeued
<1> QED BY <1>1, <1>2, <1>6, <1>7, DriverKeeps

LEMMA StepInt == ASSUME XqInv, xq_int PROVE XqInv'
<1> DEFINE s == State
           z == xq_clrint(s)
<1>1. Becomes(z) /\ UNCHANGED count
  BY DEF xq_int
<1>2. Good(s) /\ s.xq = xq /\ DrvPart(xq, drv)
  BY StateIs, DrvParts DEF XqInv
<1> HIDE DEF s
<1>3. Silent(s, z)
  BY <1>2, ClrInt DEF Good, Half
<1>4. Serves(s, z)
  BY <1>2, IntServes
<1> HIDE DEF z
<1>5. \/ drv' = [drv EXCEPT !.pc = "ack"]
      \/ drv.pc \in {"stopping", "down"} /\ drv' = [drv EXCEPT !.pc = "down"]
  BY DEF xq_int
<1>6. DrvPart(z.xq, drv')
  BY <1>2, <1>3, <1>5 DEF DrvPart, Silent, Quiet
<1> QED BY <1>1, <1>4, <1>6, DriverKeeps DEF Serves

LEMMA StepAcknowledge == ASSUME XqInv, Acknowledge PROVE XqInv'
<1> DEFINE s == State
           data == drv.want \cup drv.seen
           w == xq_wr_csr(s, data)
           i == [s EXCEPT !.xq.icr = FALSE]
           z == xq_wr_icr(s, FALSE)
           busy == drv.busy /\ ~(xq.mode = "turbo" \/ "XI" \in drv.seen)
<1>1. Good(s) /\ s.xq = xq /\ DrvPart(xq, drv)
  BY StateIs, DrvParts DEF XqInv
<1>2. UNCHANGED count /\ drv' = [drv EXCEPT !.pc = "scan", !.busy = busy]
  BY DEF Acknowledge
<1> HIDE DEF busy
<1>3. CASE drv.pc = "write" /\ Becomes(w)
  <2>1. Normal(s)
    BY <1>1, <1>3 DEF DrvPart, Normal
  <2> HIDE DEF s, data
  <2>2. Wrote(s, data, w)
    BY <1>1, <2>1, WriteCsr
  <2> HIDE DEF w
  <2>3. "RE" \in data => "RE" \in drv.want
    BY <1>1, <1>3 DEF DrvPart, data
  <2>4. DrvPart(w.xq, drv')
    BY <1>1, <1>2, <2>1, <2>2, <2>3 DEF DrvPart, Wrote, Enabled, Normal
  <2> QED BY <1>2, <1>3, <2>2, <2>4, DriverKeeps DEF Wrote
<1>4. CASE drv.pc = "ack" /\ xq.mode = "turbo" /\ Becomes(z)
  <2>1. z = i
    BY DEF xq_wr_icr
  <2> HIDE DEF s
  <2>2. Requeued(s, s.xq.units, i)
    BY <1>1 DEF Requeued, Good, Half, Shaped, Registers
  <2> HIDE DEF i, z
  <2>3. Good(z)
    BY <1>1, <1>4, <2>1, <2>2 DEF Requeued, Good, Half, Normal
  <2>4. DrvPart(z.xq, drv')
    BY <1>1, <1>2, <1>4, <2>1, <2>2 DEF DrvPart, Requeued
  <2> QED BY <1>2, <1>4, <2>3, <2>4, DriverKeeps
<1> QED BY <1>3, <1>4 DEF Acknowledge

(* The driver's own steps.                                                 *)
LEMMA StepOwn == ASSUME XqInv, ReadCsr \/ EndScan PROVE XqInv'
<1>1. UNCHANGED <<xq, mem, net, count>>
  BY DEF ReadCsr, EndScan
<1>2. Good(State) /\ State.xq = xq /\ DrvPart(xq, drv) /\ Becomes(State)
  BY <1>1, StateIs, DrvParts DEF XqInv, Becomes
<1>3. DrvPart(xq, drv')
  <2>1. CASE ReadCsr
    <3>1. "RE" \notin xq.csr \cap W1
      BY DEF W1
    <3> QED BY <1>2, <2>1, <3>1 DEF ReadCsr, DrvPart
  <2>2. CASE EndScan
    BY <1>2, <2>2 DEF EndScan, DrvPart
  <2> QED BY <2>1, <2>2
<1> QED BY <1>1, <1>2, <1>3, DriverKeeps

LEMMA StepReadSegment == ASSUME XqInv, ReadSegment PROVE XqInv'
<1> DEFINE i == drv.rix
           h == (i + NRx - 1) % NRx
           turbo == [mem.rx EXCEPT ![i] = Buffer(TRUE)]
           normal == [[mem.rx EXCEPT ![h] = Buffer(TRUE)] EXCEPT ![i] = Buffer(FALSE)]
           rx == IF xq.mode = "turbo" THEN turbo ELSE normal
           m == [mem EXCEPT !.rx = rx]
           next == (i + 1) % NRx
           log == Append(drv.log, mem.rx[i].st)
           z == [State EXCEPT !.mem = m]
<1>1. Shaped(State) /\ State.xq = xq /\ State.mem = mem /\ State.net = net /\ DrvPart(xq, drv)
  BY StateIs, DrvParts DEF XqInv, Good, Half
<1>2. z.xq = xq /\ z.mem = m /\ z.net = net /\ {"xq", "mem", "net"} \subseteq DOMAIN z
  BY DEF State
<1>3. UNCHANGED <<xq, net, count>> /\ mem' = m
  BY DEF ReadSegment
<1>4. drv' = [drv EXCEPT !.rix = next, !.log = log]
  BY DEF ReadSegment
<1>5. next \in 0 .. NRx - 1 /\ i \in 0 .. NRx - 1
  BY <1>1, Sizes DEF DrvPart
<1>6. \A v : DOMAIN Buffer(v) = {"valid", "st"} /\ Buffer(v).valid = v
  BY DEF Buffer
<1>7. /\ DOMAIN rx = 0 .. NRx
      /\ \A k \in 0 .. NRx : {"valid", "st"} \subseteq DOMAIN rx[k]
      /\ xq.mode # "turbo" => ~rx[i].valid
  <2>1. DOMAIN mem.rx = 0 .. NRx /\ \A k \in 0 .. NRx : {"valid", "st"} \subseteq DOMAIN mem.rx[k]
    BY <1>1 DEF Shaped
  <2>2. i \in 0 .. NRx
    BY <1>5, Sizes
  <2> HIDE DEF h, i
  <2>3. DOMAIN turbo = 0 .. NRx /\ \A k \in 0 .. NRx : {"valid", "st"} \subseteq DOMAIN turbo[k]
    BY <1>6, <2>1
  <2>4. DOMAIN normal = 0 .. NRx /\ \A k \in 0 .. NRx : {"valid", "st"} \subseteq DOMAIN normal[k]
    BY <1>6, <2>1
  <2>5. normal[i] = Buffer(FALSE)
    BY <2>1, <2>2
  <2> HIDE DEF turbo, normal
  <2> QED BY <1>6, <2>3, <2>4, <2>5
<1>8. DOMAIN m = DOMAIN mem /\ m.rx = rx
  BY <1>1 DEF Shaped
<1>9. Becomes(z)
  BY <1>2, <1>3 DEF Becomes
<1> HIDE DEF z, m, rx, i, next, log
<1>10. Shaped(z)
  BY <1>1, <1>2, <1>7, <1>8 DEF Shaped
<1>11. Good(z)
  <2>1. Normal(z) => ListEnds(z)
    BY <1>2, <1>5, <1>7, <1>8 DEF ListEnds, Normal
  <2>2. Normal(z) => Awaited(z) /\ Polled(z)
    BY <1>1, <1>2 DEF XqInv, Good, Half, Awaited, Drained, Polled, Enabled, Normal
  <2> QED BY <1>10, <2>1, <2>2 DEF Good, Half
<1>12. DrvPart(z.xq, drv')
  BY <1>1, <1>2, <1>4, <1>5 DEF DrvPart
<1> QED BY <1>3, <1>9, <1>11, <1>12, DriverKeeps

LEMMA StepRelist == ASSUME XqInv, Relist PROVE XqInv'
<1> DEFINE s == State
           r == xq_process_turbo_rbdl(s)
           i == [r EXCEPT !.xq.icr = TRUE]
           ring == xq_wr_icr(r, TRUE)
           list == xq_dispatch_rbdl(s, drv.rix)
<1>1. Good(s) /\ s.xq = xq /\ s.mem = mem /\ s.net = net /\ DrvPart(xq, drv)
  BY StateIs, DrvParts DEF XqInv
<1>2. drv' = [drv EXCEPT !.pc = "idle"] /\ UNCHANGED count
  BY DEF Relist
<1>3. ASSUME NEW z, Serves(s, z), z.xq.units \subseteq s.xq.units, Becomes(z)
      PROVE  XqInv'
  <2> HIDE DEF s
  <2>1. DrvPart(z.xq, drv')
    BY <1>1, <1>2, <1>3 DEF DrvPart, Serves, Enabled
  <2> QED BY <1>2, <1>3, <2>1, DriverKeeps DEF Serves
<1>4. CASE xq.mode = "turbo" /\ Becomes(ring)
  <2> HIDE DEF s
  <2>1. Turbo(s) /\ Shaped(s)
    BY <1>1, <1>4 DEF Turbo, Good, Half
  <2>2. Quiet(s, r)
    BY <2>1, TurboReceiveQuiet, QuietSame DEF xq_process_turbo_rbdl
  <2> HIDE DEF r
  <2>3. Requeued(r, r.xq.units, i)
    BY <2>2 DEF Requeued, Quiet, Shaped, Registers
  <2>4. ring \in {i, xq_setint(i)}
    BY DEF xq_wr_icr
  <2> HIDE DEF i, ring
  <2>5. Quiet(s, i)
    BY <2>1, <2>2, <2>3 DEF Requeued, Quiet, Enabled
  <2>6. Quiet(i, xq_setint(i))
    BY <2>3, SetInt DEF Requeued, Silent
  <2>7. Quiet(s, ring)
    BY <2>4, <2>5, <2>6, QuietChain
  <2>8. Serves(s, ring)
    BY <1>1, <2>1, <2>7, TurboServes
  <2> QED BY <1>3, <1>4, <2>7, <2>8 DEF Quiet
<1>5. CASE xq.mode = "normal" /\ Becomes(list)
  <2> HIDE DEF s
  <2>1. Usable(s) /\ ~Turbo(s) /\ drv.rix \in 0 .. NRx
    BY <1>1, <1>5, HalfUsable, Sizes DEF Good, Turbo, DrvPart
  <2>2. Quiet(s, list) /\ Drained(list)
    BY <2>1, Dispatched
  <2> HIDE DEF list
  <2>3. Serves(s, list)
    BY <1>1, <2>2, QuietServes DEF Awaited
  <2> QED BY <1>3, <1>5, <2>2, <2>3 DEF Quiet
<1>6. CASE xq.mode = "normal" /\ UNCHANGED <<xq, mem, net>>
  <2>1. Becomes(s)
    BY <1>1, <1>6 DEF Becomes
  <2>2. Serves(s, s)
    BY <1>1, IntServes
  <2> QED BY <1>3, <2>1, <2>2
<1> QED BY <1>4, <1>5, <1>6 DEF Relist

LEMMA NewTx ==
    ASSUME NEW s, Good(s), NEW tx
    PROVE  Good([s EXCEPT !.mem.tx = tx]) /\ [s EXCEPT !.mem.tx = tx].xq = s.xq
<1> DEFINE z == [s EXCEPT !.mem.tx = tx]
<1>1. /\ z.xq = s.xq /\ z.net = s.net /\ DOMAIN z = DOMAIN s
      /\ DOMAIN z.mem = DOMAIN s.mem /\ z.mem.rx = s.mem.rx
  BY DEF Good, Half, Shaped
<1> HIDE DEF z
<1>2. Good(z)
  BY <1>1 DEF Good, Half, Shaped, Normal, ListEnds, Awaited, Drained, Polled, Enabled
<1> QED BY <1>1, <1>2 DEF z

LEMMA StepSend == ASSUME XqInv, Send PROVE XqInv'
<1> DEFINE s == State
           t(tx) == [s EXCEPT !.mem.tx = tx]
<1>1. PICK m \in Messages :
          /\ \/ xq.mode = "normal" /\ Becomes(xq_dispatch_xbdl(t(Listed(m))))
             \/ xq.mode = "turbo" /\ Becomes(xq_process_turbo_xbdl(t(Ringed(m))))
          /\ drv' = [drv EXCEPT !.busy = TRUE, !.tix = (@ + Len(m)) % NTx]
          /\ count' = [count EXCEPT !.own = @ + Last(m).nth]
  BY DEF Send
<1>2. Good(s) /\ s.xq = xq /\ DrvPart(xq, drv) /\ Counted(count)
  BY StateIs, DrvParts DEF XqInv
<1> DEFINE tix == (drv.tix + Len(m)) % NTx
           own == count.own + Last(m).nth
<1>3. drv' = [drv EXCEPT !.busy = TRUE, !.tix = tix] /\ count' = [count EXCEPT !.own = own]
  BY <1>1
<1> HIDE DEF s, tix, own
<1>4. \A tx : Good(t(tx)) /\ t(tx).xq = xq
  BY <1>2, NewTx
<1>5. PICK z : Good(z) /\ Becomes(z) /\ z.xq.mode = xq.mode
               /\ ("RE" \in z.xq.csr => "RE" \in xq.csr)
               /\ ("Srqr" \in z.xq.units => "Srqr" \in xq.units)
  <2>1. CASE xq.mode = "normal" /\ Becomes(xq_dispatch_xbdl(t(Listed(m))))
    <3> DEFINE a == t(Listed(m))
    <3>1. Good(a) /\ a.xq = xq
      BY <1>4
    <3> HIDE DEF a
    <3>2. Serves(a, xq_dispatch_xbdl(a))
      BY <3>1, SendServes
    <3>3. Becomes(xq_dispatch_xbdl(a))
      BY <2>1 DEF a
    <3> DEFINE y == xq_dispatch_xbdl(a)
    <3> HIDE DEF y
    <3>4. Serves(a, y) /\ Becomes(y)
      BY <3>2, <3>3 DEF y
    <3> QED BY <3>1, <3>4 DEF Serves, Enabled
  <2>2. CASE xq.mode = "turbo" /\ Becomes(xq_process_turbo_xbdl(t(Ringed(m))))
    <3> DEFINE a == t(Ringed(m))
    <3>1. Good(a) /\ a.xq = xq
      BY <1>4
    <3> HIDE DEF a
    <3>2. Serves(a, xq_process_turbo_xbdl(a))
      BY <2>2, <3>1, TurboSendServes DEF Turbo
    <3>3. Becomes(xq_process_turbo_xbdl(a))
      BY <2>2 DEF a
    <3> DEFINE y == xq_process_turbo_xbdl(a)
    <3> HIDE DEF y
    <3>4. Serves(a, y) /\ Becomes(y)
      BY <3>2, <3>3 DEF y
    <3> QED BY <3>1, <3>4 DEF Serves, Enabled
  <2> QED BY <1>1, <2>1, <2>2
<1>6. Good(State') /\ xq' = z.xq
  BY <1>5, Became
<1>7. Counted(count')
  BY <1>2, <1>3 DEF Counted
<1>8. DrvPart(xq', drv')
  BY <1>2, <1>3, <1>5, <1>6 DEF DrvPart
<1> QED BY <1>6, <1>7, <1>8, DrvParts DEF XqInv

-----------------------------------------------------------------------------
(* The theorem                                                             *)

LEMMA XqInit == Init => XqInv
<1> SUFFICES ASSUME Init PROVE XqInv
  OBVIOUS
<1>1. /\ Registers = DOMAIN xq /\ xq.mode = "normal" /\ xq.rba = 0 /\ xq.q = <<>>
      /\ xq.csr = {"RL", "XL"} /\ xq.units = {}
  BY DEF Init, Registers
<1>2. mem.rx = FreshRx /\ DOMAIN mem = {"rx", "tx"}
  BY DEF Init
<1>3. Incoming(net)
  BY DEF Init, Incoming
<1>4. DOMAIN State = {"xq", "mem", "net"} /\ State.xq = xq /\ State.mem = mem /\ State.net = net
  BY DEF State
<1>5. Shaped(State)
  BY <1>1, <1>2, <1>3, <1>4, FreshEnds, Sizes DEF Shaped
<1>6. ListEnds(State) /\ Awaited(State) /\ Polled(State)
  <2>1. ListEnds(State)
    <3> DEFINE j == NRx - 1
    <3>1. j \in 0 .. NRx - 1 /\ ~State.mem.rx[j].valid
      BY <1>2, <1>4, FreshEnds
    <3> HIDE DEF j
    <3> QED BY <3>1 DEF ListEnds
  <2> QED BY <1>1, <1>4, <2>1 DEF Awaited, Drained, Polled, Enabled
<1>7. DrvPart(xq, drv) /\ Counted(count)
  BY <1>1, Sizes DEF Init, Down, DrvPart, Counted
<1> QED BY <1>5, <1>6, <1>7, DrvParts DEF XqInv, Good, Half

LEMMA XqStep == XqInv /\ [Next]_vars => XqInv'
<1> SUFFICES ASSUME XqInv, [Next]_vars PROVE XqInv'
  OBVIOUS
<1>1. CASE Units
  BY <1>1, StepPoll, StepStart, StepReceive, StepSrqr DEF Units
<1>2. CASE Arrive
  BY <1>2, StepArrive
<1>3. CASE Driver
  BY <1>3, StepBegin, StepGiveList, StepBoot, StepEnterTurbo, StepStartTurbo, StepStopTurbo,
     StepInt, StepOwn, StepAcknowledge, StepReadSegment, StepRelist, StepSend, StepSoftReset,
     StepBusReset DEF Driver
<1>4. CASE UNCHANGED vars
  <2>1. Becomes(State) /\ UNCHANGED <<drv, count>> /\ Good(State)
    BY <1>4, StateIs DEF vars, Becomes, XqInv
  <2> QED BY <2>1, StateIs, ServiceKeeps
<1> QED BY <1>1, <1>2, <1>3, <1>4 DEF Next

LEMMA XqInvMeans == XqInv => KeepsPolling
BY StateIs DEF XqInv, Good, Half, Normal, Awaited, Drained, Polled, Enabled, KeepsPolling

(* xq_svc, xq_wr_csr, xq_stop_receiver, xq_process_rbdl: while the         *)
(* receiver is enabled its polling or the start of it is queued, and a     *)
(* packet for which the list has room has a unit that comes for it; with   *)
(* lists and a queue of every size, every way a driver enables the         *)
(* receiver, and every order of frames, sendings, resets and services.     *)
THEOREM PollingKept == Spec => []KeepsPolling
<1>1. Spec => []XqInv
  BY XqInit, XqStep, PTL DEF Spec
<1> QED BY <1>1, XqInvMeans, PTL

-----------------------------------------------------------------------------
(* Nothing is forgotten: the invariant                                     *)

(* The packets of the read queue fit into the receive list.                *)
Packets == [src : {"net", "own", "boot"}, id : Nat, size : 1 .. NRx - 1]
Queued == {e \in [pkt : Packets, used : Nat] : e.used < e.pkt.size}
Packed(x) == x.q \in Seq(Queued)

Full(rx, i) == rx[i].st # Free
Some(rx) == \E i \in 0 .. NRx : Full(rx, i)
Ended(rx) == \E i \in 0 .. NRx : Full(rx, i) /\ Ends(rx[i].st)

(* How far behind descriptor r is descriptor i, and the one the controller *)
(* comes to next.                                                          *)
Off(i, r) == IF r <= i THEN i - r ELSE i - r + NRx
Depth(x, r) == Off(IF x.rba = NRx THEN 0 ELSE x.rba, r)

(* The list of a driver that reads at r: the descriptor before r is not    *)
(* valid, and those from r to the controller's are filled.                 *)
Valid(rx, r) ==
    /\ rx[NRx].valid /\ ~Full(rx, NRx)
    /\ \A i \in 0 .. NRx - 1 : rx[i].valid <=> Off(i, r) # NRx - 1
Ring(x, rx, r) ==
    /\ Valid(rx, r)
    /\ \A i \in 0 .. NRx - 1 : Full(rx, i) <=> Off(i, r) < Depth(x, r)

(* The controller stopped at the end of a packet, or at that of the list.  *)
AtEnd(x, rx, r) == \A i \in 0 .. NRx - 1 : Off(i, r) + 1 = Depth(x, r) => Ends(rx[i].st)
Open(x, rx, r) == "RL" \notin x.csr => Depth(x, r) < NRx - 1 /\ AtEnd(x, rx, r)

(* The end of a packet is known by RI, and RI and XI call the driver, but  *)
(* for the bits E that it has seen.                                        *)
Told(x, rx) == Ended(rx) => "RI" \in x.csr
Called(x, E) == "IE" \in x.csr /\ ~(x.csr \cap W1 \subseteq E) => x.irq

Seen(d) == CASE d.pc = "ack" -> W1 [] d.pc = "write" -> d.seen [] OTHER -> {}
Waits == {"idle", "ack", "write"}

(* After a reset.                                                          *)
Blank(x, rx) == rx = FreshRx /\ "RL" \in x.csr /\ x.csr \cap W1 = {}
Rests(x, rx, d) ==
    /\ Blank(x, rx) /\ x.q = <<>> /\ x.csr \cap {"IE", "SR", "RE"} = {}
    /\ d.rix = 0 /\ d.tix = 0 /\ ~d.busy

Reads(x, rx, d) ==
    /\ Ring(x, rx, d.rix) /\ Open(x, rx, d.rix)
    /\ d.pc # "scan" => Told(x, rx)
    /\ d.pc \in Waits /\ "RL" \in x.csr => "XI" \in x.csr \/ Ended(rx)
    /\ d.pc = "relist" /\ "RL" \in x.csr /\ Full(rx, d.rix) => Ended(rx)

ListInv(x, rx, d) ==
    /\ d.pc \in {"down", "init", "resetting", "scan", "relist"} \cup Waits
    /\ Called(x, Seen(d))
    /\ d.busy => "XI" \in x.csr
    /\ "Srqr" \in x.units => d.pc \in {"down", "resetting"}
    /\ d.pc = "down" => Rests(x, rx, d)
    /\ d.pc = "init" => Blank(x, rx) /\ d.rix = 0
    /\ d.pc = "resetting" <=> "SR" \in x.csr
    /\ d.pc = "write" => d.seen \subseteq W1
    /\ d.pc \in {"scan", "relist"} \cup Waits => Reads(x, rx, d)

(* The ring of a driver that reads at r, in turbo mode.                    *)
Circle(x, rx, r) ==
    /\ x.rbindx \in 0 .. NRx - 1 /\ ~Full(rx, NRx)
    /\ \A i \in 0 .. NRx - 1 : rx[i].valid <=> ~Full(rx, i)
    /\ \/ x.rbindx = r /\ \A i \in 0 .. NRx - 1 : Full(rx, i)
       \/ \A i \in 0 .. NRx - 1 : Full(rx, i) <=> Off(i, r) < Off(x.rbindx, r)

Coming(x) == x.irq \/ x.pending
NewRx == [i \in 0 .. NRx |-> Buffer(i < NRx)]
Starting(x, rx, d) == rx = NewRx /\ x.q = <<>> /\ d.rix = 0 /\ d.tix = 0 /\ ~d.busy

Turns(x, rx, d) ==
    /\ x.srr = "STRT" /\ "Srqr" \notin x.units
    /\ Circle(x, rx, d.rix)
    /\ x.tbindx = d.tix /\ d.tix \in 0 .. NTx - 1
    /\ x.icr <=> d.pc \in {"idle", "ack"}
    /\ x.icr => ~x.pending
    /\ d.pc \in {"idle", "relist"} /\ Some(rx) => Coming(x)
    /\ d.busy => Coming(x) \/ d.pc = "ack"

RingInv(x, rx, d) ==
    /\ d.pc \in {"down", "waiting", "stopping", "idle", "ack", "scan", "relist"}
    /\ "Poll" \notin x.units
    /\ d.pc = "down" /\ x.srr = "TRBO" => Starting(x, rx, d) /\ ~x.irq /\ "Srqr" \notin x.units
    /\ d.pc = "waiting" => /\ Starting(x, rx, d) /\ x.srr = "STRT"
                           /\ IF "Srqr" \in x.units THEN ~x.irq
                              ELSE x.rbindx = 0 /\ x.tbindx = 0 /\ x.icr /\ ~x.pending
    /\ d.pc = "stopping" => x.srr = "STOP"
    /\ d.pc = "down" => x.srr # "STRT"
    /\ d.pc \in {"idle", "ack", "scan", "relist"} => Turns(x, rx, d)

Owned(c) == "own" \in DOMAIN c /\ c.own \in Nat
CallPart(x, rx, d) ==
    /\ Packed(x)
    /\ d.want \subseteq {"EL", "IL", "IE", "RE"}
    /\ IF x.mode = "normal" THEN ListInv(x, rx, d) ELSE RingInv(x, rx, d)

CallInv == CallPart(xq, mem.rx, drv) /\ Owned(count)

-----------------------------------------------------------------------------
(* Delivered in order: the invariant                                       *)

(* Segments, as the driver reads them.                                     *)
Segments == [pkt : Packets, from : Nat, upto : Nat \ {0}, ovf : BOOLEAN]
Numbered == {"net", "own"}

(* The property, of any sequence of segments.                              *)
Joined(log, j) ==
    IF j = 1 THEN log[1].from = 0 ELSE Continues(log[j - 1], log[j]) \/ Begins(log[j - 1], log[j])
Rises(log, j, floor) ==
    /\ log[j].pkt.src \in Numbered => log[j].pkt.id > floor[log[j].pkt.src]
    /\ \A k \in 1 .. j - 1 :
           log[k].pkt.src = log[j].pkt.src /\ log[j].from = 0 /\ log[j].pkt.src # "boot" =>
               log[k].pkt.id < log[j].pkt.id
Accounted(log, j, floor, local) ==
    log[j].pkt.src = "net" /\ log[j].from = 0 =>
        LET before == OfNet(log, j - 1)
            prev == IF before = {} THEN floor.net
                    ELSE log[CHOOSE k \in before : \A h \in before : h <= k].pkt.id
        IN  \/ prev + 1 .. log[j].pkt.id - 1 \subseteq local
            \/ \E k \in 1 .. j : log[k].ovf /\ \A h \in before : h < k

InOrder(log, floor, local) ==
    \A j \in 1 .. Len(log) : Joined(log, j) /\ Rises(log, j, floor) /\ Accounted(log, j, floor, local)

(* The last segment from the network, its packet, and a loss noted since.  *)
LastNet(log, h) ==
    /\ h \in 0 .. Len(log) /\ (h # 0 => log[h].pkt.src = "net")
    /\ \A k \in h + 1 .. Len(log) : log[k].pkt.src # "net"
NetId(log, h, floor) == IF h = 0 THEN floor.net ELSE log[h].pkt.id
Flaw(log, h) == \E k \in h + 1 .. Len(log) : log[k].ovf

(* The queue goes on where the log ends.                                   *)
Linked(log, q, loss) ==
    /\ \A i \in 2 .. Len(q) : q[i].used = 0
    /\ loss /\ q # <<>> => q[1].used = 0
    /\ q # <<>> /\ q[1].used > 0 =>
           log # <<>> /\ log[Len(log)].pkt = q[1].pkt /\ log[Len(log)].upto = q[1].used
    /\ log # <<>> /\ ~Ends(log[Len(log)]) => loss \/ (q # <<>> /\ q[1].used > 0)

(* Every source numbers its packets: top is the last number there was.     *)
Behind(log, q, floor, top) ==
    /\ \A x \in Numbered : floor[x] \in Nat /\ top[x] \in Nat /\ floor[x] <= top[x]
    /\ \A k \in 1 .. Len(log) : log[k].pkt.src \in Numbered => log[k].pkt.id <= top[log[k].pkt.src]
    /\ \A i \in 1 .. Len(q) :
           q[i].pkt.src \in Numbered =>
               /\ floor[q[i].pkt.src] < q[i].pkt.id /\ q[i].pkt.id <= top[q[i].pkt.src]
               /\ \A k \in 1 .. i - 1 : q[k].pkt.src = q[i].pkt.src => q[k].pkt.id < q[i].pkt.id
               /\ q[i].used = 0 =>
                      \A k \in 1 .. Len(log) : log[k].pkt.src = q[i].pkt.src => log[k].pkt.id < q[i].pkt.id

(* What came since from the network waits, or was answered.                *)
Here(q, local, id) == id \in local \/ \E i \in 1 .. Len(q) : q[i].pkt.src = "net" /\ q[i].pkt.id = id
Whole(log, q, loss, floor, top, local) ==
    /\ \A i \in 1 .. Len(q) :
           q[i].pkt.src = "net" => \A id \in q[i].pkt.id + 1 .. top.net : Here(q, local, id)
    /\ \E h : /\ LastNet(log, h)
              /\ \/ loss
                 \/ Flaw(log, h)
                 \/ \A id \in NetId(log, h, floor) + 1 .. top.net : Here(q, local, id)

Flow(log, q, loss, floor, top, local) ==
    /\ log \in Seq(Segments) /\ q \in Seq(Queued) /\ loss \in BOOLEAN
    /\ InOrder(log, floor, local)
    /\ Linked(log, q, loss)
    /\ Behind(log, q, floor, top)
    /\ Whole(log, q, loss, floor, top, local)

(* The first n buffers from r on are filled, and come after the log.       *)
Slot(r, k) == IF r + k < NRx THEN r + k ELSE r + k - NRx
Buffers(rx, r, n) == n \in 0 .. NRx /\ \A i \in 0 .. NRx - 1 : Full(rx, i) <=> Off(i, r) < n
Got(log, rx, r, n) ==
    [j \in 1 .. Len(log) + n |-> IF j <= Len(log) THEN log[j] ELSE rx[Slot(r, j - Len(log) - 1)].st]

(* Frames that wait for eth_read, after number base.                       *)
Stocked(frames, base, local) ==
    /\ base \in Nat
    /\ \A k \in 1 .. Len(frames) :
           IF frames[k].src = "net" THEN frames[k].id = base + k ELSE base + k \in local

Tops(base, own) == [net |-> base, own |-> own]

(* What has been read (w.log), what is filled, what waits in the queue and *)
(* what waits in the network, of w.total frames and own packets up to own. *)
Streams(s, r, w, own) ==
    LET base == w.total - Len(s.net)
    IN  /\ w.log \in Seq(Segments) /\ w.total \in Nat
        /\ Stocked(s.net, base, w.local)
        /\ \E n : /\ Buffers(s.mem.rx, r, n)
                  /\ Flow(Got(w.log, s.mem.rx, r, n), s.xq.q, s.xq.loss, w.floor, Tops(base, own), w.local)

LEMMA Lists == NRx > 2 /\ NRx \in Nat /\ NTx \in Nat /\ NTx > 0 /\ QueMax \in Nat /\ QueMax > 0
BY XqAssumption, DriverAssumption

-----------------------------------------------------------------------------
(* Log and ring                                                            *)

LEMMA Slots ==
    ASSUME NEW r \in 0 .. NRx - 1
    PROVE  /\ \A k \in 0 .. NRx - 1 : Slot(r, k) \in 0 .. NRx - 1 /\ Off(Slot(r, k), r) = k
           /\ \A i \in 0 .. NRx - 1 : Off(i, r) \in 0 .. NRx - 1 /\ Slot(r, Off(i, r)) = i
<1> USE Lists
<1>1. ASSUME NEW k \in 0 .. NRx - 1 PROVE Slot(r, k) \in 0 .. NRx - 1 /\ Off(Slot(r, k), r) = k
  BY DEF Slot, Off
<1>2. ASSUME NEW i \in 0 .. NRx - 1 PROVE Off(i, r) \in 0 .. NRx - 1 /\ Slot(r, Off(i, r)) = i
  BY DEF Slot, Off
<1> QED BY <1>1, <1>2

LEMMA SequenceIs ==
    ASSUME NEW S, NEW D \in Seq(S)
    PROVE  Len(D) \in Nat /\ DOMAIN D = 1 .. Len(D) /\ \A j \in 1 .. Len(D) : D[j] \in S
OBVIOUS

LEMMA SequenceEqual ==
    ASSUME NEW S, NEW D \in Seq(S), NEW m, m = Len(D), NEW E, E = [j \in 1 .. m |-> E[j]],
           \A j \in 1 .. m : E[j] = D[j]
    PROVE  E = D
<1>1. D = [j \in 1 .. m |-> D[j]]
  OBVIOUS
<1> QED BY <1>1

(* What D is made of.                                                      *)
Made(D, log, rx, r, n) ==
    /\ DOMAIN D = 1 .. Len(log) + n
    /\ D = [j \in 1 .. Len(log) + n |-> D[j]]
    /\ \A j \in 1 .. Len(log) : D[j] = log[j]
    /\ \A k \in 1 .. n : D[Len(log) + k] = rx[Slot(r, k - 1)].st

LEMMA GotIs ==
    ASSUME NEW log, Len(log) \in Nat, NEW n \in Nat, NEW rx, NEW r
    PROVE  Made(Got(log, rx, r, n), log, rx, r, n)
<1> DEFINE l == Len(log)
           D == Got(log, rx, r, n)
<1>1. l \in Nat
  OBVIOUS
<1> HIDE DEF l
<1>2. D = [j \in 1 .. l + n |-> IF j <= l THEN log[j] ELSE rx[Slot(r, j - l - 1)].st]
  BY DEF Got, l
<1> HIDE DEF D
<1>3. DOMAIN D = 1 .. l + n /\ D = [j \in 1 .. l + n |-> D[j]]
  BY <1>2
<1>4. ASSUME NEW j \in 1 .. l PROVE D[j] = log[j]
  BY <1>1, <1>2
<1>5. ASSUME NEW k \in 1 .. n PROVE D[l + k] = rx[Slot(r, k - 1)].st
  <2> DEFINE j == l + k
  <2>1. j \in 1 .. l + n /\ ~(j <= l) /\ j - l - 1 = k - 1
    BY <1>1
  <2> HIDE DEF j
  <2>2. D[j] = rx[Slot(r, j - l - 1)].st
    BY <1>2, <2>1
  <2> QED BY <2>1, <2>2 DEF j
<1> QED BY <1>1, <1>3, <1>4, <1>5 DEF l, D, Made

LEMMA GotLen ==
    ASSUME NEW log, Len(log) \in Nat, NEW n \in Nat, NEW rx, NEW r, Got(log, rx, r, n) \in Seq(Segments)
    PROVE  Len(Got(log, rx, r, n)) = Len(log) + n
<1> DEFINE D == Got(log, rx, r, n)
           l == Len(log)
<1>1. l \in Nat /\ DOMAIN D = 1 .. l + n
  BY GotIs DEF Made
<1>2. Len(D) \in Nat /\ DOMAIN D = 1 .. Len(D)
  OBVIOUS
<1> HIDE DEF D, l
<1>3. Len(D) = l + n
  BY <1>1, <1>2
<1> QED BY <1>3 DEF D, l

LEMMA LogLen == ASSUME NEW log \in Seq(Segments) PROVE Len(log) \in Nat
OBVIOUS

(* A segment more in the ring.                                             *)
Puts(rx, ry, i, seg) == ry[i].st = seg /\ \A k \in 0 .. NRx - 1 : k # i => ry[k].st = rx[k].st

LEMMA GotMore ==
    ASSUME NEW log \in Seq(Segments), NEW n \in 0 .. NRx - 1, NEW rx, NEW r \in 0 .. NRx - 1,
           Got(log, rx, r, n) \in Seq(Segments), NEW ry, NEW seg \in Segments, NEW i, i = Slot(r, n),
           Puts(rx, ry, i, seg)
    PROVE  Got(log, ry, r, n + 1) = Append(Got(log, rx, r, n), seg)
<1> DEFINE l == Len(log)
           D == Got(log, rx, r, n)
           E == Got(log, ry, r, n + 1)
           A == Append(D, seg)
           next == n + 1
<1>1. n \in Nat /\ next \in Nat /\ l \in Nat /\ next = n + 1
  BY LogLen, Lists
<1> HIDE DEF next
<1>2. Made(D, log, rx, r, n) /\ Made(Got(log, ry, r, next), log, ry, r, next)
  BY <1>1, GotIs
<1>3. Len(D) = l + n
  BY <1>1, GotLen
<1>4. D \in Seq(Segments) /\ E = Got(log, ry, r, next)
  BY DEF next
<1> HIDE DEF D, E
<1>5. /\ \A j \in 1 .. l : D[j] = log[j]
      /\ \A k \in 1 .. n : D[l + k] = rx[Slot(r, k - 1)].st
      /\ E = [j \in 1 .. l + next |-> E[j]]
      /\ \A j \in 1 .. l : E[j] = log[j]
      /\ \A k \in 1 .. next : E[l + k] = ry[Slot(r, k - 1)].st
  BY <1>2, <1>4 DEF Made
<1> HIDE DEF l
<1>6. /\ A \in Seq(Segments) /\ Len(A) = l + next /\ A[l + next] = seg
      /\ \A j \in 1 .. l + n : A[j] = D[j]
  <2>1. A \in Seq(Segments) /\ Len(A) = Len(D) + 1 /\ A[Len(D) + 1] = seg
        /\ \A j \in 1 .. Len(D) : A[j] = D[j]
    BY <1>4
  <2>2. l + next = Len(D) + 1
    BY <1>1, <1>3
  <2> QED BY <1>3, <2>1, <2>2
<1> HIDE DEF A
<1>7. ASSUME NEW j \in 1 .. l + next PROVE E[j] = A[j]
  <2>1. CASE j <= l
    <3>1. j \in 1 .. l /\ j \in 1 .. l + n
      BY <1>1, <2>1
    <3> QED BY <1>5, <1>6, <3>1
  <2>2. CASE j > l /\ j <= l + n
    <3> DEFINE k == j - l
    <3>1. /\ k \in 1 .. n /\ k \in 1 .. next /\ j = l + k /\ k - 1 \in 0 .. NRx - 1 /\ k - 1 # n
          /\ n \in 0 .. NRx - 1 /\ j \in 1 .. l + n
      BY <1>1, <2>2, Lists
    <3> HIDE DEF k
    <3>2. Slot(r, k - 1) \in 0 .. NRx - 1 /\ Slot(r, k - 1) # i
      BY <3>1, Slots
    <3>3. E[j] = ry[Slot(r, k - 1)].st /\ D[j] = rx[Slot(r, k - 1)].st
      BY <1>5, <3>1
    <3>4. A[j] = D[j]
      BY <1>6, <3>1
    <3> QED BY <3>2, <3>3, <3>4 DEF Puts
  <2>3. CASE j = l + next
    <3>1. next \in 1 .. next /\ next - 1 = n
      BY <1>1
    <3>2. E[j] = ry[Slot(r, n)].st
      BY <1>5, <2>3, <3>1
    <3>3. A[j] = seg
      BY <1>6, <2>3
    <3> QED BY <3>2, <3>3 DEF Puts
  <2> QED BY <1>1, <2>1, <2>2, <2>3
<1>8. E = A
  BY <1>5, <1>6, <1>7, SequenceEqual
<1> QED BY <1>8 DEF E, A, D

(* The driver has read descriptor r.                                       *)
LEMMA GotRead ==
    ASSUME NEW log \in Seq(Segments), NEW n \in 1 .. NRx, NEW rx, NEW r \in 0 .. NRx - 1,
           Got(log, rx, r, n) \in Seq(Segments), NEW ry, NEW next, next = IF r + 1 = NRx THEN 0 ELSE r + 1,
           \A k \in 1 .. n - 1 : ry[Slot(r, k)].st = rx[Slot(r, k)].st
    PROVE  /\ rx[r].st \in Segments
           /\ Append(log, rx[r].st) \in Seq(Segments)
           /\ Got(Append(log, rx[r].st), ry, next, n - 1) = Got(log, rx, r, n)
<1> DEFINE l == Len(log)
           seg == rx[r].st
           D == Got(log, rx, r, n)
           lo == Append(log, seg)
           E == Got(lo, ry, next, n - 1)
           m == n - 1
<1>1. n \in Nat /\ m \in Nat /\ l \in Nat /\ n = m + 1
  BY LogLen, Lists
<1>2. Made(D, log, rx, r, n)
  BY <1>1, GotIs
<1>3. Len(D) = l + n
  BY <1>1, GotLen
<1>4. Slot(r, 0) = r
  BY Lists DEF Slot
<1>5. D \in Seq(Segments) /\ E = Got(lo, ry, next, m)
  OBVIOUS
<1> HIDE DEF D, E, m
<1>6. /\ \A j \in 1 .. l : D[j] = log[j]
      /\ \A k \in 1 .. n : D[l + k] = rx[Slot(r, k - 1)].st
  BY <1>2 DEF Made
<1> HIDE DEF l
<1>7. D[l + 1] = seg /\ l + 1 \in 1 .. l + n
  <2> DEFINE k == 1
  <2>1. k \in 1 .. n /\ k - 1 = 0
    BY <1>1
  <2> HIDE DEF k
  <2>2. D[l + k] = rx[Slot(r, k - 1)].st
    BY <1>6, <2>1
  <2>3. D[l + k] = seg
    BY <1>4, <2>1, <2>2
  <2>4. l + 1 \in 1 .. l + n
    BY <1>1
  <2> QED BY <2>3, <2>4 DEF k
<1>8. seg \in Segments
  BY <1>3, <1>5, <1>7, SequenceIs
<1> HIDE DEF seg
<1>9. lo \in Seq(Segments) /\ Len(lo) = l + 1 /\ lo[l + 1] = seg /\ \A j \in 1 .. l : lo[j] = log[j]
  BY <1>8 DEF l
<1> HIDE DEF lo
<1>10. Len(lo) \in Nat /\ Made(E, lo, ry, next, m)
  BY <1>1, <1>5, <1>9, GotIs
<1> DEFINE l1 == l + 1
<1>11. l1 \in Nat /\ l1 = l + 1
  BY <1>1
<1> HIDE DEF l1
<1>12. /\ E = [j \in 1 .. l1 + m |-> E[j]]
       /\ \A j \in 1 .. l1 : E[j] = lo[j]
       /\ \A k \in 1 .. m : E[l1 + k] = ry[Slot(next, k - 1)].st
  BY <1>9, <1>10, <1>11 DEF Made
<1>13. ASSUME NEW j \in 1 .. l1 + m PROVE E[j] = D[j]
  <2>1. CASE j <= l
    <3>1. j \in 1 .. l /\ j \in 1 .. l1
      BY <1>1, <1>11, <2>1
    <3> QED BY <1>6, <1>9, <1>12, <3>1
  <2>2. CASE j = l1
    <3>1. l1 \in 1 .. l1
      BY <1>1, <1>11
    <3> QED BY <1>7, <1>9, <1>11, <1>12, <2>2, <3>1
  <2>3. CASE j > l1
    <3> DEFINE k == j - l1
               kk == k + 1
    <3>1. k \in 1 .. m /\ k \in 1 .. n - 1 /\ j = l1 + k /\ kk \in 1 .. n /\ j = l + kk /\ kk - 1 = k
      BY <1>1, <1>11, <2>3
    <3> HIDE DEF k, kk
    <3>2. Slot(next, k - 1) = Slot(r, k)
      BY <3>1, <1>1, Lists DEF Slot
    <3>3. E[j] = ry[Slot(next, k - 1)].st /\ D[j] = rx[Slot(r, kk - 1)].st
      BY <1>6, <1>12, <3>1
    <3> QED BY <3>1, <3>2, <3>3
  <2> QED BY <1>1, <1>11, <2>1, <2>2, <2>3
<1>14. l1 + m = Len(D)
  BY <1>1, <1>3, <1>11
<1>15. E = D
  BY <1>5, <1>12, <1>13, <1>14, SequenceEqual
<1> QED BY <1>8, <1>9, <1>15 DEF D, E, lo, seg

LEMMA GotSame ==
    ASSUME NEW log \in Seq(Segments), NEW n \in 0 .. NRx, NEW rx, NEW ry, NEW r \in 0 .. NRx - 1,
           \A k \in 0 .. NRx - 1 : ry[k].st = rx[k].st
    PROVE  Got(log, ry, r, n) = Got(log, rx, r, n)
<1> DEFINE l == Len(log)
<1>1. l \in Nat
  BY LogLen
<1> HIDE DEF l
<1>2. ASSUME NEW j \in 1 .. l + n
      PROVE  (IF j <= l THEN log[j] ELSE ry[Slot(r, j - l - 1)].st) =
                 (IF j <= l THEN log[j] ELSE rx[Slot(r, j - l - 1)].st)
  <2>1. CASE j <= l
    BY <2>1
  <2>2. CASE ~(j <= l)
    <3> DEFINE k == j - l - 1
    <3>1. k \in 0 .. NRx - 1
      BY <1>1, <2>2, Lists
    <3> HIDE DEF k
    <3>2. ry[Slot(r, k)].st = rx[Slot(r, k)].st
      BY <3>1, Slots
    <3> QED BY <3>2 DEF k
  <2> QED BY <2>1, <2>2
<1> QED BY <1>2 DEF Got, l

LEMMA GotNone ==
    ASSUME NEW log \in Seq(Segments), NEW rx, NEW r
    PROVE  Got(log, rx, r, 0) = log
<1> DEFINE D == Got(log, rx, r, 0)
<1>1. Made(D, log, rx, r, 0)
  BY LogLen, GotIs
<1> HIDE DEF D
<1>2. Len(log) + 0 = Len(log)
  BY LogLen
<1>3. D = [j \in 1 .. Len(log) |-> D[j]] /\ \A j \in 1 .. Len(log) : D[j] = log[j]
  BY <1>1, <1>2 DEF Made
<1>4. D = log
  BY <1>3, SequenceEqual
<1> QED BY <1>4 DEF D

-----------------------------------------------------------------------------
(* The log and the queue                                                   *)

LEMMA Greatest ==
    ASSUME NEW n \in Nat, NEW S, S \subseteq 1 .. n, S # {}
    PROVE  \E k \in S : \A h \in S : h <= k
<1> DEFINE Below(m) == {k \in S : k <= m}
           B == {m \in 0 .. n : Below(m) # {} => \E k \in Below(m) : \A h \in Below(m) : h <= k}
<1>0. \A k \in S : k \in Nat /\ k > 0 /\ k <= n
  OBVIOUS
<1>1. 0 \in B
  <2>1. \A k \in S : ~(k <= 0)
    BY <1>0
  <2>2. Below(0) = {}
    BY <2>1
  <2> HIDE DEF Below
  <2> QED BY <2>2
<1>2. ASSUME NEW m \in 0 .. n - 1, m \in B PROVE m + 1 \in B
  <2>1. CASE m + 1 \in S
    <3>1. m + 1 \in Below(m + 1) /\ \A h \in Below(m + 1) : h <= m + 1
      BY <2>1
    <3> QED BY <3>1
  <2>2. CASE m + 1 \notin S
    <3>1. ASSUME NEW k \in S PROVE k <= m + 1 <=> k <= m
      <4>1. k \in Nat /\ k # m + 1
        BY <1>0, <2>2
      <4> QED BY <4>1
    <3>2. Below(m + 1) = Below(m)
      BY <3>1
    <3> QED BY <1>2, <3>2
  <2> QED BY <2>1, <2>2
<1>3. n \in B
  <2> HIDE DEF B
  <2>1. 0 .. n \subseteq B
    BY <1>1, <1>2, Climb
  <2> QED BY <2>1
<1>4. Below(n) = S
  BY <1>0
<1> QED BY <1>3, <1>4

(* The last of the network's segments before j.                            *)
LastBefore(log, j) == CHOOSE k \in OfNet(log, j - 1) : \A h \in OfNet(log, j - 1) : h <= k

LEMMA LastBeforeIs ==
    ASSUME NEW log, NEW j \in Nat, j > 0, OfNet(log, j - 1) # {}
    PROVE  LET c == LastBefore(log, j)
           IN  c \in 1 .. j - 1 /\ c \in OfNet(log, j - 1) /\ \A h \in OfNet(log, j - 1) : h <= c
<1>1. j - 1 \in Nat /\ OfNet(log, j - 1) \subseteq 1 .. j - 1
  BY DEF OfNet
<1>2. \E k \in OfNet(log, j - 1) : \A h \in OfNet(log, j - 1) : h <= k
  BY <1>1, Greatest
<1>3. LastBefore(log, j) \in OfNet(log, j - 1) /\ \A h \in OfNet(log, j - 1) : h <= LastBefore(log, j)
  BY <1>2 DEF LastBefore
<1> QED BY <1>1, <1>3

(* A segment is judged by those up to it.                                  *)
Right(log, j, floor, local) == Joined(log, j) /\ Rises(log, j, floor) /\ Accounted(log, j, floor, local)

LEMMA RightAlike ==
    ASSUME NEW log, NEW D, NEW j \in Nat, j > 0, \A k \in 1 .. j : D[k] = log[k],
           NEW floor, NEW local, NEW more, local \subseteq more, Right(log, j, floor, local)
    PROVE  Right(D, j, floor, more)
<1>0. \A k \in 1 .. j : D[k] = log[k]
  OBVIOUS
<1>1. j \in 1 .. j /\ D[j] = log[j]
  <2>1. j \in 1 .. j
    OBVIOUS
  <2> QED BY <1>0, <2>1
<1>2. Joined(D, j)
  <2>1. CASE j = 1
    BY <1>1, <2>1 DEF Right, Joined
  <2>2. CASE j # 1
    <3>1. j - 1 \in 1 .. j
      BY <2>2
    <3>2. D[j - 1] = log[j - 1]
      BY <1>0, <3>1
    <3> QED BY <1>1, <2>2, <3>2 DEF Right, Joined
  <2> QED BY <2>1, <2>2
<1>3. Rises(D, j, floor)
  <2>1. \A k \in 1 .. j - 1 : k \in 1 .. j
    OBVIOUS
  <2>2. \A k \in 1 .. j - 1 : D[k] = log[k]
    BY <1>0, <2>1
  <2> QED BY <1>1, <2>2 DEF Right, Rises
<1>4. Accounted(D, j, floor, more)
  <2> SUFFICES ASSUME D[j].pkt.src = "net", D[j].from = 0 PROVE Accounted(D, j, floor, more)
    BY DEF Accounted
  <2>1. OfNet(D, j - 1) = OfNet(log, j - 1)
    <3>1. \A k \in 1 .. j - 1 : k \in 1 .. j
      OBVIOUS
    <3>2. \A k \in 1 .. j - 1 : D[k] = log[k]
      BY <1>0, <3>1
    <3> QED BY <3>2 DEF OfNet
  <2> DEFINE before == OfNet(log, j - 1)
             c == LastBefore(log, j)
             prev(f) == IF before = {} THEN floor.net ELSE f[c].pkt.id
  <2>2. LastBefore(D, j) = c
    BY <2>1 DEF LastBefore
  <2>3. prev(D) = prev(log)
    <3>1. CASE before = {}
      BY <3>1
    <3>2. CASE before # {}
      <4>1. c \in 1 .. j - 1
        BY <3>2, LastBeforeIs
      <4>2. c \in 1 .. j
        BY <4>1
      <4>3. D[c] = log[c]
        BY <1>0, <4>2
      <4> QED BY <4>3
    <3> QED BY <3>1, <3>2
  <2>4. \/ prev(log) + 1 .. log[j].pkt.id - 1 \subseteq local
        \/ \E k \in 1 .. j : log[k].ovf /\ \A h \in before : h < k
    BY <1>1 DEF Right, Accounted, LastBefore
  <2> HIDE DEF before, c
  <2>5. \/ prev(D) + 1 .. D[j].pkt.id - 1 \subseteq more
        \/ \E k \in 1 .. j : D[k].ovf /\ \A h \in before : h < k
    BY <1>1, <2>3, <2>4
  <2>6. OfNet(D, j - 1) = before
    BY <2>1 DEF before
  <2> QED BY <2>2, <2>5, <2>6 DEF Accounted, LastBefore, before, c
<1> QED BY <1>2, <1>3, <1>4 DEF Right

LEMMA InOrderIs ==
    ASSUME NEW log, NEW floor, NEW local
    PROVE  InOrder(log, floor, local) <=> \A j \in 1 .. Len(log) : Right(log, j, floor, local)
BY DEF InOrder, Right

LEMMA InOrderPart ==
    ASSUME NEW log \in Seq(Segments), NEW D \in Seq(Segments), Len(D) <= Len(log),
           \A k \in 1 .. Len(D) : D[k] = log[k],
           NEW floor, NEW local, NEW more, local \subseteq more, InOrder(log, floor, local)
    PROVE  InOrder(D, floor, more)
<1> DEFINE l == Len(log)
           d == Len(D)
<1>1. l \in Nat /\ d \in Nat /\ d <= l
  BY LogLen
<1>2. \A j \in 1 .. l : Right(log, j, floor, local)
  BY InOrderIs
<1>3. \A k \in 1 .. d : D[k] = log[k]
  OBVIOUS
<1> HIDE DEF l, d
<1>4. ASSUME NEW j \in 1 .. d PROVE Right(D, j, floor, more)
  <2>1. j \in 1 .. l /\ j \in Nat /\ j > 0 /\ \A k \in 1 .. j : k \in 1 .. d
    BY <1>1
  <2>2. Right(log, j, floor, local)
    BY <1>2, <2>1
  <2>3. \A k \in 1 .. j : D[k] = log[k]
    BY <1>3, <2>1
  <2> QED BY <2>1, <2>2, <2>3, RightAlike
<1> QED BY <1>4, InOrderIs DEF d

LEMMA LogIs ==
    ASSUME NEW log \in Seq(Segments)
    PROVE  /\ Len(log) \in Nat /\ (log = <<>> <=> Len(log) = 0)
           /\ \A k \in 1 .. Len(log) :
                  /\ log[k] \in Segments
                  /\ log[k].pkt.id \in Nat /\ log[k].pkt.src \in {"net", "own", "boot"}
                  /\ log[k].from \in Nat /\ log[k].upto \in Nat /\ log[k].upto > 0 /\ log[k].ovf \in BOOLEAN
<1>1. Len(log) \in Nat /\ (log = <<>> <=> Len(log) = 0)
  OBVIOUS
<1>2. ASSUME NEW k \in 1 .. Len(log)
      PROVE  /\ log[k] \in Segments
             /\ log[k].pkt.id \in Nat /\ log[k].pkt.src \in {"net", "own", "boot"}
             /\ log[k].from \in Nat /\ log[k].upto \in Nat /\ log[k].upto > 0 /\ log[k].ovf \in BOOLEAN
  <2>1. log[k] \in Segments
    OBVIOUS
  <2>2. log[k].pkt \in Packets /\ log[k].from \in Nat /\ log[k].upto \in Nat \ {0} /\ log[k].ovf \in BOOLEAN
    BY <2>1 DEF Segments
  <2>3. log[k].pkt.id \in Nat /\ log[k].pkt.src \in {"net", "own", "boot"}
    BY <2>2 DEF Packets
  <2> QED BY <2>1, <2>2, <2>3
<1> QED BY <1>1, <1>2

LEMMA QueueIs ==
    ASSUME NEW q \in Seq(Queued)
    PROVE  /\ Len(q) \in Nat /\ (q = <<>> <=> Len(q) = 0)
           /\ \A i \in 1 .. Len(q) :
                  /\ q[i] \in Queued /\ q[i].pkt \in Packets
                  /\ q[i].pkt.id \in Nat /\ q[i].pkt.src \in {"net", "own", "boot"} /\ q[i].pkt.size \in Nat
                  /\ q[i].used \in Nat /\ q[i].used < q[i].pkt.size
<1>1. Len(q) \in Nat /\ (q = <<>> <=> Len(q) = 0)
  OBVIOUS
<1>2. ASSUME NEW i \in 1 .. Len(q)
      PROVE  /\ q[i] \in Queued /\ q[i].pkt \in Packets
             /\ q[i].pkt.id \in Nat /\ q[i].pkt.src \in {"net", "own", "boot"} /\ q[i].pkt.size \in Nat
             /\ q[i].used \in Nat /\ q[i].used < q[i].pkt.size
  <2>1. q[i] \in Queued
    OBVIOUS
  <2>2. q[i].pkt \in Packets /\ q[i].used \in Nat /\ q[i].used < q[i].pkt.size
    BY <2>1 DEF Queued
  <2>3. q[i].pkt.size \in 1 .. NRx - 1
    BY <2>2 DEF Packets
  <2>4. q[i].pkt.size \in Nat
    BY <2>3, Lists
  <2> QED BY <2>1, <2>2, <2>4 DEF Packets
<1> QED BY <1>1, <1>2

LEMMA HereMore ==
    ASSUME NEW q, NEW local, NEW more, local \subseteq more, NEW id, Here(q, local, id)
    PROVE  Here(q, more, id)
BY DEF Here

(* Frames that were answered, or numbers that will be used.                *)
LEMMA FlowWiden ==
    ASSUME NEW log, NEW q, NEW loss, NEW floor, NEW top, NEW local, Flow(log, q, loss, floor, top, local),
           NEW top2, NEW more, local \subseteq more, \A x \in Numbered : top2[x] \in Nat /\ top[x] <= top2[x],
           \A id \in top.net + 1 .. top2.net : id \in more
    PROVE  Flow(log, q, loss, floor, top2, more)
<1>1. /\ log \in Seq(Segments) /\ q \in Seq(Queued) /\ loss \in BOOLEAN
      /\ InOrder(log, floor, local)
      /\ Linked(log, q, loss)
      /\ Behind(log, q, floor, top)
      /\ Whole(log, q, loss, floor, top, local)
  BY DEF Flow
<1>2. InOrder(log, floor, more)
  BY <1>1, LogLen, InOrderPart
<1>3. \A x \in Numbered : top[x] \in Nat /\ floor[x] \in Nat /\ floor[x] <= top[x]
  BY <1>1 DEF Behind
<1>4. Behind(log, q, floor, top2)
  <2>1. \A x \in Numbered : floor[x] \in Nat /\ top2[x] \in Nat /\ floor[x] <= top2[x]
    BY <1>3
  <2>2. ASSUME NEW k \in 1 .. Len(log), log[k].pkt.src \in Numbered
        PROVE  log[k].pkt.id <= top2[log[k].pkt.src]
    <3>1. log[k].pkt.id <= top[log[k].pkt.src] /\ log[k].pkt.id \in Nat
      BY <1>1, <2>2, LogIs DEF Behind
    <3> QED BY <1>3, <2>1, <2>2, <3>1
  <2>3. ASSUME NEW i \in 1 .. Len(q), q[i].pkt.src \in Numbered
        PROVE  q[i].pkt.id <= top2[q[i].pkt.src]
    <3>1. q[i].pkt.id <= top[q[i].pkt.src] /\ q[i].pkt.id \in Nat
      BY <1>1, <2>3, QueueIs DEF Behind
    <3> QED BY <1>3, <2>1, <2>3, <3>1
  <2> QED BY <1>1, <2>1, <2>2, <2>3 DEF Behind
<1>5. ASSUME NEW n \in Nat, \A id \in n + 1 .. top.net : Here(q, local, id)
      PROVE  \A id \in n + 1 .. top2.net : Here(q, more, id)
  <2> SUFFICES ASSUME NEW id \in n + 1 .. top2.net PROVE Here(q, more, id)
    OBVIOUS
  <2>0. top.net \in Nat /\ top2.net \in Nat
    BY <1>3 DEF Numbered
  <2>1. CASE id <= top.net
    <3>1. id \in n + 1 .. top.net
      BY <2>0, <2>1
    <3> QED BY <1>5, <3>1, HereMore
  <2>2. CASE id > top.net
    <3>1. id \in top.net + 1 .. top2.net
      BY <2>0, <2>2
    <3> QED BY <3>1 DEF Here
  <2> QED BY <2>0, <2>1, <2>2
<1>6. Whole(log, q, loss, floor, top2, more)
  <2>1. ASSUME NEW i \in 1 .. Len(q), q[i].pkt.src = "net"
        PROVE  \A id \in q[i].pkt.id + 1 .. top2.net : Here(q, more, id)
    <3>1. q[i].pkt.id \in Nat
      BY <1>1, QueueIs
    <3>2. \A id \in q[i].pkt.id + 1 .. top.net : Here(q, local, id)
      BY <1>1, <2>1 DEF Whole
    <3> QED BY <1>5, <3>1, <3>2
  <2>2. PICK h : /\ LastNet(log, h)
                 /\ \/ loss
                    \/ Flaw(log, h)
                    \/ \A id \in NetId(log, h, floor) + 1 .. top.net : Here(q, local, id)
    BY <1>1 DEF Whole
  <2>3. NetId(log, h, floor) \in Nat
    <3>1. CASE h = 0
      BY <1>3, <3>1 DEF NetId, Numbered
    <3>2. CASE h # 0
      <4>1. h \in 1 .. Len(log)
        BY <2>2, <3>2, <1>1, LogLen DEF LastNet
      <4> QED BY <1>1, <3>2, <4>1, LogIs DEF NetId
    <3> QED BY <3>1, <3>2
  <2>4. \/ loss
        \/ Flaw(log, h)
        \/ \A id \in NetId(log, h, floor) + 1 .. top2.net : Here(q, more, id)
    BY <2>2, <2>3, <1>5
  <2> QED BY <2>1, <2>2, <2>4 DEF Whole
<1> QED BY <1>1, <1>2, <1>4, <1>6 DEF Flow

(* A packet comes into the queue: what numbers there are then.             *)
Admits(top, top2, p) ==
    /\ p \in Packets
    /\ \A x \in Numbered : top2[x] \in Nat /\ top[x] <= top2[x]
    /\ p.src \in Numbered => top[p.src] < p.id /\ p.id <= top2[p.src]
    /\ \A id \in top.net + 1 .. top2.net : p.src = "net" /\ p.id = id

LEMMA Appended ==
    ASSUME NEW q \in Seq(Queued), NEW p \in Packets, NEW q2, q2 = Append(q, [pkt |-> p, used |-> 0])
    PROVE  /\ q2 \in Seq(Queued) /\ Len(q2) = Len(q) + 1
           /\ q2[Len(q) + 1].pkt = p /\ q2[Len(q) + 1].used = 0
           /\ \A i \in 1 .. Len(q) : q2[i] = q[i]
<1> DEFINE e == [pkt |-> p, used |-> 0]
<1>1. e \in Queued
  <2>1. p.size \in 1 .. NRx - 1
    BY DEF Packets
  <2>2. 0 < p.size
    BY <2>1, Lists
  <2> QED BY <2>2 DEF Queued
<1>2. e.pkt = p /\ e.used = 0
  OBVIOUS
<1> HIDE DEF e
<1>3. q2 \in Seq(Queued) /\ Len(q2) = Len(q) + 1 /\ q2[Len(q) + 1] = e /\ \A i \in 1 .. Len(q) : q2[i] = q[i]
  BY <1>1 DEF e
<1> QED BY <1>2, <1>3

LEMMA FlowAppend ==
    ASSUME NEW log, NEW q, NEW loss, NEW floor, NEW top, NEW local, Flow(log, q, loss, floor, top, local),
           NEW top2, NEW p, Admits(top, top2, p), NEW q2, q2 = Append(q, [pkt |-> p, used |-> 0])
    PROVE  Flow(log, q2, loss, floor, top2, local)
<1> DEFINE n == Len(q)
           m == n + 1
<1>1. /\ log \in Seq(Segments) /\ q \in Seq(Queued) /\ loss \in BOOLEAN
      /\ InOrder(log, floor, local)
      /\ Linked(log, q, loss)
      /\ Behind(log, q, floor, top)
      /\ Whole(log, q, loss, floor, top, local)
  BY DEF Flow
<1>2. n \in Nat /\ m \in Nat /\ m = n + 1 /\ m > 0 /\ (q = <<>> <=> n = 0)
  BY <1>1, QueueIs
<1>3. /\ q2 \in Seq(Queued) /\ Len(q2) = m
      /\ q2[m].pkt = p /\ q2[m].used = 0
      /\ \A i \in 1 .. n : q2[i] = q[i]
  BY <1>1, Appended DEF Admits
<1>4. \A x \in Numbered : top[x] \in Nat /\ floor[x] \in Nat /\ floor[x] <= top[x]
                          /\ top2[x] \in Nat /\ top[x] <= top2[x]
  BY <1>1 DEF Behind, Admits
<1>5. p.src \in Numbered => p.id \in Nat /\ top[p.src] < p.id /\ p.id <= top2[p.src]
  BY DEF Admits, Packets
<1>6. \A i \in 1 .. n : q[i].pkt.id \in Nat /\ q[i].used \in Nat
  BY <1>1, QueueIs
<1>7. \A k \in 1 .. Len(log) : log[k].pkt.id \in Nat
  BY <1>1, LogIs
<1>8. \A i \in 1 .. m : i \in 1 .. n \/ i = m
  BY <1>2
<1> HIDE DEF n, m
<1>9. Linked(log, q2, loss)
  <2>1. CASE n = 0
    BY <1>1, <1>2, <1>3, <2>1 DEF Linked
  <2>2. CASE n # 0
    <3>1. 1 \in 1 .. n /\ q # <<>> /\ q2 # <<>>
      BY <1>2, <1>3, <2>2
    <3>2. q2[1] = q[1]
      BY <1>3, <3>1
    <3>3. ASSUME NEW i \in 2 .. m PROVE q2[i].used = 0
      <4>1. CASE i = m
        BY <1>3, <4>1
      <4>2. CASE i # m
        <5>1. i \in 1 .. n /\ i \in 2 .. n
          BY <1>2, <4>2
        <5> QED BY <1>1, <1>3, <5>1 DEF Linked, n
      <4> QED BY <4>1, <4>2
    <3> QED BY <1>1, <1>3, <3>1, <3>2, <3>3 DEF Linked
  <2> QED BY <2>1, <2>2
<1>10. Behind(log, q2, floor, top2)
  <2>1. \A x \in Numbered : floor[x] \in Nat /\ top2[x] \in Nat /\ floor[x] <= top2[x]
    BY <1>4
  <2>2. ASSUME NEW k \in 1 .. Len(log), log[k].pkt.src \in Numbered
        PROVE  log[k].pkt.id <= top2[log[k].pkt.src]
    <3>1. log[k].pkt.id <= top[log[k].pkt.src]
      BY <1>1, <2>2 DEF Behind
    <3> QED BY <1>4, <1>7, <2>2, <3>1
  <2>3. ASSUME NEW i \in 1 .. m, q2[i].pkt.src \in Numbered
        PROVE  /\ floor[q2[i].pkt.src] < q2[i].pkt.id /\ q2[i].pkt.id <= top2[q2[i].pkt.src]
               /\ \A k \in 1 .. i - 1 : q2[k].pkt.src = q2[i].pkt.src => q2[k].pkt.id < q2[i].pkt.id
               /\ q2[i].used = 0 =>
                      \A k \in 1 .. Len(log) : log[k].pkt.src = q2[i].pkt.src => log[k].pkt.id < q2[i].pkt.id
    <3>1. CASE i \in 1 .. n
      <4> DEFINE x == q[i].pkt.src
      <4>1. q2[i] = q[i]
        BY <1>3, <3>1
      <4>2. \A k \in 1 .. i - 1 : q2[k] = q[k]
        <5>1. \A k \in 1 .. i - 1 : k \in 1 .. n
          BY <1>2, <3>1
        <5> QED BY <1>3, <5>1
      <4>3. /\ floor[x] < q[i].pkt.id /\ q[i].pkt.id <= top[x]
            /\ \A k \in 1 .. i - 1 : q[k].pkt.src = x => q[k].pkt.id < q[i].pkt.id
            /\ q[i].used = 0 =>
                   \A k \in 1 .. Len(log) : log[k].pkt.src = x => log[k].pkt.id < q[i].pkt.id
        BY <1>1, <2>3, <3>1, <4>1 DEF Behind, n
      <4>4. x \in Numbered /\ q[i].pkt.id \in Nat
        BY <1>6, <2>3, <3>1, <4>1
      <4> HIDE DEF x
      <4>5. q[i].pkt.id <= top2[x]
        BY <1>4, <4>3, <4>4
      <4> QED BY <4>1, <4>2, <4>3, <4>5 DEF x
    <3>2. CASE i = m
      <4> DEFINE x == p.src
      <4>1. x \in Numbered /\ p.id \in Nat /\ top[x] < p.id /\ p.id <= top2[x] /\ floor[x] < p.id
        BY <1>3, <1>4, <1>5, <2>3, <3>2
      <4>2. ASSUME NEW k \in 1 .. i - 1, q2[k].pkt.src = x PROVE q2[k].pkt.id < p.id
        <5>1. k \in 1 .. n
          BY <1>2, <3>2
        <5>2. q2[k] = q[k] /\ q[k].pkt.src = x /\ q[k].pkt.id \in Nat
          BY <1>3, <1>6, <4>2, <5>1
        <5>3. q[k].pkt.id <= top[x]
          BY <1>1, <4>1, <5>1, <5>2 DEF Behind, n
        <5>4. top[x] \in Nat
          BY <1>4, <4>1
        <5>5. p.id \in Nat /\ top[x] < p.id
          BY <4>1
        <5> HIDE DEF x
        <5>6. q[k].pkt.id < p.id
          BY <5>2, <5>3, <5>4, <5>5
        <5> QED BY <5>2, <5>6
      <4>3. ASSUME NEW k \in 1 .. Len(log), log[k].pkt.src = x PROVE log[k].pkt.id < p.id
        <5>1. log[k].pkt.id <= top[x]
          BY <1>1, <4>1, <4>3 DEF Behind
        <5> QED BY <1>4, <1>7, <4>1, <5>1
      <4> QED BY <1>3, <3>2, <4>1, <4>2, <4>3
    <3> QED BY <1>8, <3>1, <3>2
  <2> QED BY <1>3, <2>1, <2>2, <2>3 DEF Behind
<1>11. ASSUME NEW id, Here(q, local, id) PROVE Here(q2, local, id)
  <2>1. \A i \in 1 .. n : i \in 1 .. m
    BY <1>2
  <2> QED BY <1>3, <1>11, <2>1 DEF Here, n
<1>12. ASSUME NEW id \in top.net + 1 .. top2.net PROVE Here(q2, local, id)
  <2>1. p.src = "net" /\ p.id = id
    BY DEF Admits
  <2>2. m \in 1 .. m
    BY <1>2
  <2> QED BY <1>3, <2>1, <2>2 DEF Here
<1>13. ASSUME NEW a \in Nat, \A id \in a + 1 .. top.net : Here(q, local, id)
       PROVE  \A id \in a + 1 .. top2.net : Here(q2, local, id)
  <2> SUFFICES ASSUME NEW id \in a + 1 .. top2.net PROVE Here(q2, local, id)
    OBVIOUS
  <2>0. top.net \in Nat /\ top2.net \in Nat
    BY <1>4 DEF Numbered
  <2>1. CASE id <= top.net
    <3>1. id \in a + 1 .. top.net
      BY <2>0, <2>1
    <3> QED BY <1>11, <1>13, <3>1
  <2>2. CASE id > top.net
    <3>1. id \in top.net + 1 .. top2.net
      BY <2>0, <2>2
    <3> QED BY <1>12, <3>1
  <2> QED BY <2>0, <2>1, <2>2
<1>14. Whole(log, q2, loss, floor, top2, local)
  <2>1. ASSUME NEW i \in 1 .. m, q2[i].pkt.src = "net"
        PROVE  \A id \in q2[i].pkt.id + 1 .. top2.net : Here(q2, local, id)
    <3>1. CASE i \in 1 .. n
      <4>1. q2[i] = q[i] /\ q[i].pkt.id \in Nat
        BY <1>3, <1>6, <3>1
      <4>2. \A id \in q[i].pkt.id + 1 .. top.net : Here(q, local, id)
        BY <1>1, <2>1, <3>1, <4>1 DEF Whole, n
      <4> QED BY <1>13, <4>1, <4>2
    <3>2. CASE i = m
      <4>1. p.id \in Nat /\ top.net \in Nat /\ top2.net \in Nat /\ top.net < p.id
        BY <1>3, <1>4, <1>5, <2>1, <3>2 DEF Numbered
      <4>2. ASSUME NEW id \in p.id + 1 .. top2.net PROVE FALSE
        <5>1. id \in top.net + 1 .. top2.net
          BY <4>1
        <5>2. p.id = id
          BY <5>1 DEF Admits
        <5> QED BY <4>1, <5>2
      <4> QED BY <1>3, <3>2, <4>2
    <3> QED BY <1>8, <3>1, <3>2
  <2>2. PICK h : /\ LastNet(log, h)
                 /\ \/ loss
                    \/ Flaw(log, h)
                    \/ \A id \in NetId(log, h, floor) + 1 .. top.net : Here(q, local, id)
    BY <1>1 DEF Whole
  <2>3. NetId(log, h, floor) \in Nat
    <3>1. CASE h = 0
      BY <1>4, <3>1 DEF NetId, Numbered
    <3>2. CASE h # 0
      <4>1. h \in 1 .. Len(log)
        BY <2>2, <3>2, <1>1, LogLen DEF LastNet
      <4> QED BY <1>7, <3>2, <4>1 DEF NetId
    <3> QED BY <3>1, <3>2
  <2>4. \/ loss
        \/ Flaw(log, h)
        \/ \A id \in NetId(log, h, floor) + 1 .. top2.net : Here(q2, local, id)
    BY <2>2, <2>3, <1>13
  <2> QED BY <1>3, <2>1, <2>2, <2>4 DEF Whole
<1> QED BY <1>1, <1>3, <1>9, <1>10, <1>14 DEF Flow

(* What is left of the queue when its first packet is gone (g = 1), or     *)
(* when a part of it is (g = 0).                                           *)
Rest(q, q2, g) ==
    /\ g \in {0, 1} /\ q # <<>> /\ q2 \in Seq(Queued)
    /\ Len(q2) = Len(q) - g
    /\ \A i \in 1 .. Len(q2) :
           /\ q2[i].pkt = q[i + g].pkt
           /\ i + g > 1 => q2[i].used = q[i + g].used
           /\ i + g = 1 => q2[i].used # 0

(* The log with a segment of the first packet, or without.                 *)
Grown(log, D, q) ==
    /\ Len(D) \in Nat
    /\ \A k \in 1 .. Len(D) : (k \in 1 .. Len(log) /\ D[k] = log[k]) \/ D[k].pkt = q[1].pkt

LEMMA BehindRest ==
    ASSUME NEW log, NEW q \in Seq(Queued), NEW floor, NEW top, Behind(log, q, floor, top),
           \A i \in 2 .. Len(q) : q[i].used = 0, NEW q2, NEW g, Rest(q, q2, g), NEW D, Grown(log, D, q)
    PROVE  Behind(D, q2, floor, top)
<1> DEFINE n == Len(q)
           n2 == Len(q2)
<1>1. n \in Nat /\ n2 \in Nat /\ n2 = n - g /\ g \in {0, 1} /\ n > 0 /\ 1 \in 1 .. n
  BY QueueIs DEF Rest
<1>2. /\ \A x \in Numbered : floor[x] \in Nat /\ top[x] \in Nat /\ floor[x] <= top[x]
      /\ \A k \in 1 .. Len(log) : log[k].pkt.src \in Numbered => log[k].pkt.id <= top[log[k].pkt.src]
      /\ \A i \in 1 .. n :
             q[i].pkt.src \in Numbered =>
                 /\ floor[q[i].pkt.src] < q[i].pkt.id /\ q[i].pkt.id <= top[q[i].pkt.src]
                 /\ \A k \in 1 .. i - 1 : q[k].pkt.src = q[i].pkt.src => q[k].pkt.id < q[i].pkt.id
                 /\ q[i].used = 0 =>
                        \A k \in 1 .. Len(log) : log[k].pkt.src = q[i].pkt.src => log[k].pkt.id < q[i].pkt.id
  BY DEF Behind
<1>3. \A i \in 1 .. n2 :
          /\ q2[i].pkt = q[i + g].pkt
          /\ i + g > 1 => q2[i].used = q[i + g].used
          /\ i + g = 1 => q2[i].used # 0
  BY DEF Rest
<1>4. \A i \in 2 .. n : q[i].used = 0
  OBVIOUS
<1>5. \A k \in 1 .. Len(D) : (k \in 1 .. Len(log) /\ D[k] = log[k]) \/ D[k].pkt = q[1].pkt
  BY DEF Grown
<1> HIDE DEF n, n2
<1>6. ASSUME NEW k \in 1 .. Len(D), D[k].pkt.src \in Numbered PROVE D[k].pkt.id <= top[D[k].pkt.src]
  BY <1>1, <1>2, <1>5, <1>6
<1>7. ASSUME NEW i \in 1 .. n2, q2[i].pkt.src \in Numbered
      PROVE  /\ floor[q2[i].pkt.src] < q2[i].pkt.id /\ q2[i].pkt.id <= top[q2[i].pkt.src]
             /\ \A k \in 1 .. i - 1 : q2[k].pkt.src = q2[i].pkt.src => q2[k].pkt.id < q2[i].pkt.id
             /\ q2[i].used = 0 =>
                    \A k \in 1 .. Len(D) : D[k].pkt.src = q2[i].pkt.src => D[k].pkt.id < q2[i].pkt.id
  <2> DEFINE j == i + g
             p == q[j].pkt
  <2>1. j \in 1 .. n /\ q2[i].pkt = p /\ (j > 1 => q2[i].used = q[j].used) /\ (j = 1 => q2[i].used # 0)
    BY <1>1, <1>3
  <2>2. \A k \in 1 .. i - 1 : k \in 1 .. n2 /\ k + g \in 1 .. j - 1
    BY <1>1
  <2>3. j > 1 => j \in 2 .. n /\ 1 \in 1 .. j - 1
    BY <2>1, <1>1
  <2> HIDE DEF j
  <2>4. /\ floor[p.src] < p.id /\ p.id <= top[p.src]
        /\ \A k \in 1 .. j - 1 : q[k].pkt.src = p.src => q[k].pkt.id < p.id
        /\ q[j].used = 0 =>
               \A k \in 1 .. Len(log) : log[k].pkt.src = p.src => log[k].pkt.id < p.id
    BY <1>2, <1>7, <2>1
  <2> HIDE DEF p
  <2>5. ASSUME NEW k \in 1 .. i - 1, q2[k].pkt.src = p.src PROVE q2[k].pkt.id < p.id
    <3>1. q2[k].pkt = q[k + g].pkt /\ k + g \in 1 .. j - 1
      BY <1>3, <2>2
    <3> QED BY <2>4, <2>5, <3>1
  <2>6. ASSUME q2[i].used = 0, NEW k \in 1 .. Len(D), D[k].pkt.src = p.src PROVE D[k].pkt.id < p.id
    <3>1. j \in 2 .. n /\ 1 \in 1 .. j - 1
      BY <1>1, <2>1, <2>3, <2>6
    <3>2. q[j].used = 0
      BY <1>4, <3>1
    <3> QED BY <1>5, <2>4, <2>6, <3>1, <3>2
  <2> QED BY <2>1, <2>4, <2>5, <2>6
<1> QED BY <1>2, <1>6, <1>7 DEF Behind, n2

LEMMA HereRest ==
    ASSUME NEW q \in Seq(Queued), NEW q2, NEW g, Rest(q, q2, g), NEW local, NEW id, Here(q, local, id),
           q[1].pkt.src = "net" => q[1].pkt.id # id
    PROVE  Here(q2, local, id)
<1>1. CASE id \in local
  BY <1>1 DEF Here
<1>2. CASE \E i \in 1 .. Len(q) : q[i].pkt.src = "net" /\ q[i].pkt.id = id
  <2>1. PICK i \in 1 .. Len(q) : q[i].pkt.src = "net" /\ q[i].pkt.id = id
    BY <1>2
  <2> DEFINE j == i - g
  <2>2. i # 1
    BY <2>1
  <2>3. j \in 1 .. Len(q2) /\ j + g = i
    BY <2>2, QueueIs DEF Rest
  <2> HIDE DEF j
  <2>4. q2[j].pkt = q[i].pkt
    BY <2>3 DEF Rest
  <2> QED BY <2>1, <2>3, <2>4 DEF Here
<1> QED BY <1>1, <1>2 DEF Here

(* Behind any packet of the queue comes all that the network brought since.*)
Followed(q, top, local) ==
    \A i \in 1 .. Len(q) :
        q[i].pkt.src = "net" => \A id \in q[i].pkt.id + 1 .. top.net : Here(q, local, id)

LEMMA FollowedRest ==
    ASSUME NEW log, NEW q \in Seq(Queued), NEW floor, NEW top, NEW local, Behind(log, q, floor, top),
           NEW q2, NEW g, Rest(q, q2, g), Followed(q, top, local)
    PROVE  Followed(q2, top, local)
<1> SUFFICES ASSUME NEW i \in 1 .. Len(q2), q2[i].pkt.src = "net",
                    NEW id \in q2[i].pkt.id + 1 .. top.net
             PROVE  Here(q2, local, id)
  BY DEF Followed
<1> DEFINE j == i + g
<1>1. j \in 1 .. Len(q) /\ q2[i].pkt = q[j].pkt /\ 1 \in 1 .. Len(q)
  BY QueueIs DEF Rest
<1>2. q[j].pkt.src = "net" /\ id \in q[j].pkt.id + 1 .. top.net
  BY <1>1
<1>3. Here(q, local, id)
  BY <1>1, <1>2 DEF Followed
<1>4. q[j].pkt.id \in Nat /\ q[1].pkt.id \in Nat /\ j \in Nat /\ top.net \in Nat
  BY <1>1, QueueIs DEF Behind, Numbered
<1>5. ASSUME q[1].pkt.src = "net" PROVE q[1].pkt.id # id
  <2>1. CASE j = 1
    BY <1>2, <1>4, <2>1
  <2>2. CASE j # 1
    <3>1. 1 \in 1 .. j - 1
      BY <1>1, <2>2
    <3>2. q[1].pkt.id < q[j].pkt.id
      BY <1>1, <1>2, <1>5, <3>1 DEF Behind, Numbered
    <3> QED BY <1>2, <1>4, <3>2
  <2> QED BY <2>1, <2>2
<1> QED BY <1>3, <1>5, HereRest

LEMMA FlowIs ==
    ASSUME NEW log, NEW q, NEW loss, NEW floor, NEW top, NEW local, Flow(log, q, loss, floor, top, local)
    PROVE  /\ log \in Seq(Segments) /\ q \in Seq(Queued) /\ loss \in BOOLEAN
           /\ InOrder(log, floor, local)
           /\ Linked(log, q, loss) /\ \A i \in 2 .. Len(q) : q[i].used = 0
           /\ Behind(log, q, floor, top)
           /\ Followed(q, top, local)
           /\ \E h : /\ LastNet(log, h)
                     /\ \/ loss
                        \/ Flaw(log, h)
                        \/ \A id \in NetId(log, h, floor) + 1 .. top.net : Here(q, local, id)
BY DEF Flow, Whole, Linked, Followed

LEMMA Shortened ==
    ASSUME NEW q \in Seq(Queued), q # <<>>, NEW q2, q2 = Tail(q)
    PROVE  /\ Rest(q, q2, 1)
           /\ \A i \in 1 .. Len(q2) : q2[i].used = q[i + 1].used
<1>1. q2 \in Seq(Queued) /\ Len(q2) = Len(q) - 1 /\ \A i \in 1 .. Len(q) - 1 : q2[i] = q[i + 1]
  OBVIOUS
<1>2. \A i \in 1 .. Len(q2) : q2[i] = q[i + 1] /\ i + 1 > 1 /\ i + 1 # 1
  BY <1>1, QueueIs
<1> QED BY <1>1, <1>2 DEF Rest

(* The queue has lost its first packet.                                    *)
LEMMA FlowDrop ==
    ASSUME NEW log, NEW q, NEW loss, NEW floor, NEW top, NEW local, Flow(log, q, loss, floor, top, local),
           q # <<>>, NEW q2, q2 = Tail(q)
    PROVE  Flow(log, q2, TRUE, floor, top, local)
<1>1. /\ log \in Seq(Segments) /\ q \in Seq(Queued)
      /\ InOrder(log, floor, local)
      /\ Linked(log, q, loss) /\ \A i \in 2 .. Len(q) : q[i].used = 0
      /\ Behind(log, q, floor, top)
      /\ Followed(q, top, local)
  BY FlowIs
<1>2. PICK h : LastNet(log, h)
  BY FlowIs
<1>3. Rest(q, q2, 1) /\ \A i \in 1 .. Len(q2) : q2[i].used = q[i + 1].used
  BY <1>1, Shortened
<1>4. q2 \in Seq(Queued) /\ Len(q2) \in Nat /\ Len(q) \in Nat /\ Len(q2) = Len(q) - 1
  BY <1>1, <1>3, QueueIs DEF Rest
<1>5. Behind(log, q2, floor, top)
  <2>1. Grown(log, log, q)
    BY <1>1, LogLen DEF Grown
  <2> QED BY <1>1, <1>3, <2>1, BehindRest
<1>6. \A i \in 1 .. Len(q2) : q2[i].used = 0
  <2>1. \A i \in 1 .. Len(q2) : i + 1 \in 2 .. Len(q)
    BY <1>4
  <2> QED BY <1>1, <1>3, <2>1
<1>7. Linked(log, q2, TRUE)
  <2>1. \A i \in 2 .. Len(q2) : i \in 1 .. Len(q2)
    OBVIOUS
  <2>2. q2 # <<>> => 1 \in 1 .. Len(q2)
    BY <1>4, QueueIs
  <2>3. q2 # <<>> => q2[1].used = 0
    BY <1>6, <2>2
  <2>4. q2 # <<>> => ~(q2[1].used > 0)
    BY <2>3
  <2> QED BY <1>6, <2>1, <2>3, <2>4 DEF Linked
<1>8. Followed(q2, top, local)
  BY <1>1, <1>3, FollowedRest
<1> QED BY <1>1, <1>2, <1>4, <1>5, <1>7, <1>8 DEF Flow, Whole, Followed

(* The segment that takes the first packet of the queue further.           *)
Advances(q, loss, seg, q2) ==
    /\ q # <<>> /\ seg \in Segments
    /\ seg.pkt = q[1].pkt /\ seg.from = q[1].used /\ seg.ovf = loss
    /\ ~Ends(seg) => seg.upto < seg.pkt.size
    /\ q2 = IF Ends(seg) THEN Tail(q) ELSE [q EXCEPT ![1].used = seg.upto]

LEMMA Advanced ==
    ASSUME NEW q \in Seq(Queued), \A i \in 2 .. Len(q) : q[i].used = 0, NEW loss, NEW seg, NEW q2,
           Advances(q, loss, seg, q2)
    PROVE  /\ \E g : Rest(q, q2, g) /\ (g = 1 <=> Ends(seg))
           /\ \A i \in 2 .. Len(q2) : q2[i].used = 0
           /\ IF Ends(seg) THEN \A i \in 1 .. Len(q2) : q2[i].used = 0
              ELSE q2 # <<>> /\ q2[1].pkt = seg.pkt /\ q2[1].used = seg.upto
<1>0. q # <<>> /\ seg \in Segments /\ seg.pkt = q[1].pkt /\ (~Ends(seg) => seg.upto < seg.pkt.size)
      /\ q2 = IF Ends(seg) THEN Tail(q) ELSE [q EXCEPT ![1].used = seg.upto]
  BY DEF Advances
<1>1. CASE Ends(seg)
  <2>1. q2 = Tail(q)
    BY <1>0, <1>1
  <2>2. Rest(q, q2, 1) /\ \A i \in 1 .. Len(q2) : q2[i].used = q[i + 1].used
    BY <1>0, <2>1, Shortened
  <2>3. Len(q2) = Len(q) - 1 /\ Len(q2) \in Nat /\ Len(q) \in Nat
    BY <2>2, QueueIs DEF Rest
  <2>4. \A i \in 1 .. Len(q2) : i + 1 \in 2 .. Len(q)
    BY <2>3
  <2>5. \A i \in 1 .. Len(q2) : q2[i].used = 0
    BY <2>2, <2>4
  <2>6. \A i \in 2 .. Len(q2) : i \in 1 .. Len(q2)
    OBVIOUS
  <2> QED BY <1>1, <2>2, <2>5, <2>6
<1>2. CASE ~Ends(seg)
  <2> DEFINE e == [q[1] EXCEPT !.used = seg.upto]
             n == Len(q)
  <2>1. n \in Nat /\ n > 0 /\ 1 \in 1 .. n /\ DOMAIN q = 1 .. n /\ \A i \in 1 .. n : q[i] \in Queued
    BY <1>0, QueueIs, SequenceIs
  <2>2. q[1] \in [pkt : Packets, used : Nat] /\ q[1].used < q[1].pkt.size
    BY <2>1 DEF Queued
  <2>3. seg.upto \in Nat /\ seg.upto # 0
    BY <1>0 DEF Segments
  <2>4. e \in [pkt : Packets, used : Nat] /\ e.pkt = q[1].pkt /\ e.used = seg.upto
    BY <2>2, <2>3
  <2>5. e \in Queued
    BY <1>0, <1>2, <2>4 DEF Queued
  <2>6. q2 = [q EXCEPT ![1] = e]
    BY <1>0, <1>2
  <2> HIDE DEF e, n
  <2>7. q2 \in Seq(Queued) /\ Len(q2) = n /\ q2[1] = e /\ \A i \in 1 .. n : i # 1 => q2[i] = q[i]
    BY <2>1, <2>5, <2>6 DEF n
  <2>8. \A i \in 2 .. n : i \in 1 .. n /\ i # 1
    BY <2>1
  <2>9. \A i \in 2 .. n : q2[i].used = 0
    BY <2>7, <2>8 DEF n
  <2>10. q2 # <<>>
    BY <2>1, <2>7, QueueIs
  <2>11. Rest(q, q2, 0)
    <3>1. \A i \in 1 .. n : i + 0 = i
      BY <2>1
    <3>2. n - 0 = n
      BY <2>1
    <3>3. \A i \in 1 .. n :
              q2[i].pkt = q[i].pkt /\ (i > 1 => q2[i].used = q[i].used) /\ (i = 1 => q2[i].used # 0)
      BY <2>1, <2>3, <2>4, <2>7
    <3>4. \A i \in 1 .. n :
              /\ q2[i].pkt = q[i + 0].pkt
              /\ i + 0 > 1 => q2[i].used = q[i + 0].used
              /\ i + 0 = 1 => q2[i].used # 0
      BY <3>1, <3>3
    <3> QED BY <1>0, <2>7, <3>2, <3>4, Zenon DEF Rest, n
  <2> QED BY <1>0, <1>2, <2>4, <2>7, <2>9, <2>10, <2>11 DEF n
<1> QED BY <1>1, <1>2

(* One more, at the end of the log.                                        *)
LEMMA Longer ==
    ASSUME NEW log \in Seq(Segments), NEW seg \in Segments, NEW D, D = Append(log, seg), NEW m, m = Len(log) + 1
    PROVE  /\ D \in Seq(Segments) /\ Len(D) = m /\ D[m] = seg /\ Len(log) \in Nat /\ m \in Nat /\ m > 0
           /\ D # <<>>
           /\ \A k \in 1 .. Len(log) : D[k] = log[k]
           /\ \A k \in 1 .. m : k \in 1 .. Len(log) \/ k = m
           /\ \A k \in 1 .. m - 1 : k \in 1 .. Len(log)
           /\ m \in 1 .. m
<1>1. Len(log) \in Nat
  BY LogLen
<1>2. D \in Seq(Segments) /\ Len(D) = Len(log) + 1 /\ D[Len(log) + 1] = seg
      /\ \A k \in 1 .. Len(log) : D[k] = log[k]
  OBVIOUS
<1>3. m \in Nat /\ m > 0 /\ m \in 1 .. m /\ \A k \in 1 .. m : k \in 1 .. Len(log) \/ k = m
  BY <1>1
<1>4. \A k \in 1 .. m - 1 : k \in 1 .. Len(log)
  BY <1>1
<1>5. D # <<>>
  BY <1>2, <1>3, LogIs
<1> QED BY <1>1, <1>2, <1>3, <1>4, <1>5

(* The new segment is in its place.                                        *)
LEMMA SegmentRight ==
    ASSUME NEW log, NEW q, NEW loss, NEW floor, NEW top, NEW local, Flow(log, q, loss, floor, top, local),
           NEW seg, NEW q2, Advances(q, loss, seg, q2), NEW D, D = Append(log, seg), NEW m, m = Len(log) + 1
    PROVE  Right(D, m, floor, local)
<1>1. /\ log \in Seq(Segments) /\ q \in Seq(Queued) /\ loss \in BOOLEAN
      /\ Linked(log, q, loss)
      /\ Behind(log, q, floor, top)
  BY FlowIs
<1>2. PICK h : /\ LastNet(log, h)
               /\ \/ loss
                  \/ Flaw(log, h)
                  \/ \A id \in NetId(log, h, floor) + 1 .. top.net : Here(q, local, id)
  BY FlowIs
<1>3. /\ q # <<>> /\ seg \in Segments
      /\ seg.pkt = q[1].pkt /\ seg.from = q[1].used /\ seg.ovf = loss
  BY DEF Advances
<1>4. /\ D \in Seq(Segments) /\ Len(D) = m /\ D[m] = seg /\ Len(log) \in Nat /\ m \in Nat /\ m > 0
      /\ \A k \in 1 .. Len(log) : D[k] = log[k]
      /\ \A k \in 1 .. m : k \in 1 .. Len(log) \/ k = m
      /\ \A k \in 1 .. m - 1 : k \in 1 .. Len(log)
      /\ m \in 1 .. m
  BY <1>1, <1>3, Longer
<1>5. /\ 1 \in 1 .. Len(q) /\ q[1].used \in Nat /\ q[1].pkt.id \in Nat
      /\ q[1].pkt.src \in {"net", "own", "boot"}
  BY <1>1, <1>3, QueueIs
<1>6. /\ q[1].used > 0 => log # <<>> /\ log[Len(log)].pkt = q[1].pkt /\ log[Len(log)].upto = q[1].used
      /\ log # <<>> /\ ~Ends(log[Len(log)]) => loss \/ (q # <<>> /\ q[1].used > 0)
  BY <1>1, <1>3 DEF Linked
<1>7. log = <<>> <=> Len(log) = 0
  BY <1>1, LogIs
<1>8. m = 1 \/ (m # 1 /\ m - 1 = Len(log) /\ m - 1 \in 1 .. Len(log))
  BY <1>4
<1>9. Joined(D, m)
  <2>1. CASE m = 1
    <3>1. Len(log) = 0 /\ seg.from = 0
      BY <1>3, <1>4, <1>5, <1>6, <1>7, <2>1
    <3> QED BY <1>4, <2>1, <3>1 DEF Joined
  <2>2. CASE m # 1
    <3>1. D[m - 1] = log[Len(log)] /\ log # <<>>
      BY <1>4, <1>7, <1>8, <2>2
    <3>2. Continues(log[Len(log)], seg) \/ Begins(log[Len(log)], seg)
      BY <1>3, <1>5, <1>6, <3>1 DEF Continues, Begins
    <3> QED BY <1>4, <2>2, <3>1, <3>2 DEF Joined
  <2> QED BY <2>1, <2>2
<1>10. seg.pkt.src \in Numbered =>
           /\ seg.pkt.id > floor[seg.pkt.src]
           /\ floor[seg.pkt.src] \in Nat /\ top[seg.pkt.src] \in Nat /\ seg.pkt.id <= top[seg.pkt.src]
           /\ seg.from = 0 =>
                  \A k \in 1 .. Len(log) : log[k].pkt.src = seg.pkt.src => log[k].pkt.id < seg.pkt.id
  BY <1>1, <1>3, <1>5 DEF Behind
<1>11. Rises(D, m, floor)
  <2>1. ASSUME NEW k \in 1 .. m - 1, D[k].pkt.src = seg.pkt.src, seg.from = 0, seg.pkt.src # "boot"
        PROVE  D[k].pkt.id < seg.pkt.id
    <3>1. k \in 1 .. Len(log) /\ D[k] = log[k]
      BY <1>4
    <3>2. seg.pkt.src \in Numbered
      BY <1>3, <1>5, <2>1 DEF Numbered
    <3> QED BY <1>10, <2>1, <3>1, <3>2
  <2> QED BY <1>4, <1>10, <2>1 DEF Rises
<1>12. Accounted(D, m, floor, local)
  <2> SUFFICES ASSUME seg.pkt.src = "net", seg.from = 0 PROVE Accounted(D, m, floor, local)
    BY <1>4 DEF Accounted
  <2> DEFINE before == OfNet(D, m - 1)
             prev == IF before = {} THEN floor.net ELSE D[LastBefore(D, m)].pkt.id
             id0 == seg.pkt.id
  <2>1. h \in 0 .. Len(log) /\ (h # 0 => log[h].pkt.src = "net")
        /\ \A k \in h + 1 .. Len(log) : log[k].pkt.src # "net"
    BY <1>2 DEF LastNet
  <2>2. \A k \in before : k \in 1 .. Len(log) /\ log[k].pkt.src = "net" /\ k <= h
    <3>1. ASSUME NEW k \in before PROVE k \in 1 .. Len(log) /\ log[k].pkt.src = "net" /\ k <= h
      <4>1. k \in 1 .. m - 1 /\ D[k].pkt.src = "net"
        BY DEF OfNet
      <4>2. k \in 1 .. Len(log) /\ log[k].pkt.src = "net"
        BY <1>4, <4>1
      <4>3. ~(k > h)
        BY <1>4, <2>1, <4>2
      <4> QED BY <1>4, <2>1, <4>2, <4>3
    <3> QED BY <3>1
  <2>3. h # 0 => h \in before
    <3>1. ASSUME h # 0 PROVE h \in before
      <4>1. h \in 1 .. m - 1 /\ h \in 1 .. Len(log)
        BY <1>4, <2>1, <3>1
      <4>2. D[h].pkt.src = "net"
        BY <1>4, <2>1, <3>1, <4>1
      <4> QED BY <4>1, <4>2 DEF OfNet
    <3> QED BY <3>1
  <2>4. prev = NetId(log, h, floor)
    <3>1. CASE h = 0
      <4>1. before = {}
        BY <2>2, <3>1
      <4> QED BY <3>1, <4>1 DEF NetId
    <3>2. CASE h # 0
      <4> DEFINE c == LastBefore(D, m)
      <4>1. before # {} /\ h \in before
        BY <2>3, <3>2
      <4>2. c \in before /\ \A k \in before : k <= c
        BY <1>4, <4>1, LastBeforeIs
      <4> HIDE DEF c
      <4>3. c = h
        <5>1. c \in 1 .. Len(log) /\ c <= h /\ h <= c
          BY <2>2, <4>1, <4>2
        <5> QED BY <1>4, <2>1, <5>1
      <4>4. D[h] = log[h]
        BY <1>4, <2>2, <4>1
      <4> QED BY <3>2, <4>1, <4>3, <4>4 DEF NetId, c
    <3> QED BY <3>1, <3>2
  <2>5. \A k \in before : k < m
    <3>1. \A k \in 1 .. Len(log) : k < m
      BY <1>4
    <3> QED BY <2>2, <3>1
  <2> HIDE DEF before, prev
  <2>6. \/ prev + 1 .. id0 - 1 \subseteq local
        \/ \E k \in 1 .. m : D[k].ovf /\ \A b \in before : b < k
    <3>1. CASE loss
      BY <1>3, <1>4, <2>5, <3>1
    <3>2. CASE Flaw(log, h)
      <4>1. PICK k \in h + 1 .. Len(log) : log[k].ovf
        BY <3>2 DEF Flaw
      <4>2. k \in 1 .. Len(log) /\ k \in 1 .. m /\ k > h
        BY <1>4, <2>1
      <4>3. D[k].ovf
        BY <1>4, <4>1, <4>2
      <4>4. \A b \in before : b < k
        BY <1>4, <2>1, <2>2, <4>2
      <4> QED BY <4>2, <4>3, <4>4
    <3>3. CASE \A id \in NetId(log, h, floor) + 1 .. top.net : Here(q, local, id)
      <4>1. prev \in Nat
        <5>1. CASE h = 0
          BY <1>1, <2>4, <5>1 DEF NetId, Behind, Numbered
        <5>2. CASE h # 0
          <6>1. h \in 1 .. Len(log)
            BY <1>4, <2>1, <5>2
          <6> QED BY <1>1, <2>4, <5>2, <6>1, LogIs DEF NetId
        <5> QED BY <5>1, <5>2
      <4>2. id0 \in Nat /\ top.net \in Nat /\ id0 <= top.net
        BY <1>3, <1>5, <1>10 DEF Numbered
      <4>3. ASSUME NEW id \in prev + 1 .. id0 - 1 PROVE id \in local
        <5>1. id \in prev + 1 .. top.net /\ id < id0 /\ id \in Nat
          BY <4>1, <4>2
        <5>2. Here(q, local, id)
          BY <2>4, <3>3, <5>1
        <5>3. ASSUME NEW i \in 1 .. Len(q), q[i].pkt.src = "net", q[i].pkt.id = id PROVE FALSE
          <6>1. CASE i = 1
            BY <1>3, <4>2, <5>1, <5>3, <6>1
          <6>2. CASE i # 1
            <7>1. 1 \in 1 .. i - 1
              BY <6>2, <5>3
            <7>2. q[1].pkt.id < q[i].pkt.id
              BY <1>1, <1>3, <5>3, <7>1 DEF Behind, Numbered
            <7> QED BY <1>3, <4>2, <5>1, <5>3, <7>2
          <6> QED BY <6>1, <6>2
        <5> QED BY <5>2, <5>3 DEF Here
      <4> QED BY <4>3
    <3> QED BY <1>2, <3>1, <3>2, <3>3
  <2> QED BY <1>4, <2>6 DEF Accounted, before, prev, LastBefore
<1> QED BY <1>9, <1>11, <1>12 DEF Right

LEMMA FlowDeliver ==
    ASSUME NEW log, NEW q, NEW loss, NEW floor, NEW top, NEW local, Flow(log, q, loss, floor, top, local),
           NEW seg, NEW q2, Advances(q, loss, seg, q2), NEW D, D = Append(log, seg)
    PROVE  Flow(D, q2, FALSE, floor, top, local)
<1> DEFINE m == Len(log) + 1
<1>1. /\ log \in Seq(Segments) /\ q \in Seq(Queued) /\ loss \in BOOLEAN
      /\ InOrder(log, floor, local)
      /\ Linked(log, q, loss) /\ \A i \in 2 .. Len(q) : q[i].used = 0
      /\ Behind(log, q, floor, top)
      /\ Followed(q, top, local)
  BY FlowIs
<1>2. PICK h : /\ LastNet(log, h)
               /\ \/ loss
                  \/ Flaw(log, h)
                  \/ \A id \in NetId(log, h, floor) + 1 .. top.net : Here(q, local, id)
  BY FlowIs
<1>3. /\ q # <<>> /\ seg \in Segments
      /\ seg.pkt = q[1].pkt /\ seg.from = q[1].used /\ seg.ovf = loss
      /\ seg.upto > 0
  BY DEF Advances, Segments
<1>4. /\ D \in Seq(Segments) /\ Len(D) = m /\ D[m] = seg /\ Len(log) \in Nat /\ m \in Nat /\ m > 0 /\ D # <<>>
      /\ m = Len(log) + 1
      /\ \A k \in 1 .. Len(log) : D[k] = log[k]
      /\ \A k \in 1 .. m : k \in 1 .. Len(log) \/ k = m
      /\ m \in 1 .. m
  BY <1>1, <1>3, Longer
<1>5. Right(D, m, floor, local)
  BY SegmentRight
<1> HIDE DEF m
<1>6. InOrder(D, floor, local)
  <2>1. ASSUME NEW j \in 1 .. Len(log) PROVE Right(D, j, floor, local)
    <3>1. Right(log, j, floor, local)
      BY <1>1, InOrderIs
    <3>2. j \in Nat /\ j > 0 /\ \A k \in 1 .. j : k \in 1 .. Len(log)
      BY <1>4
    <3>3. \A k \in 1 .. j : D[k] = log[k]
      BY <1>4, <3>2
    <3> QED BY <3>1, <3>2, <3>3, RightAlike
  <2>2. \A j \in 1 .. m : Right(D, j, floor, local)
    BY <1>4, <1>5, <2>1
  <2> QED BY <1>4, <2>2, InOrderIs
<1>7. PICK g : Rest(q, q2, g) /\ (g = 1 <=> Ends(seg))
  BY <1>1, Advanced
<1>8. /\ \A i \in 2 .. Len(q2) : q2[i].used = 0
      /\ IF Ends(seg) THEN \A i \in 1 .. Len(q2) : q2[i].used = 0
         ELSE q2 # <<>> /\ q2[1].pkt = seg.pkt /\ q2[1].used = seg.upto
  BY <1>1, Advanced
<1>9. q2 \in Seq(Queued)
  BY <1>7 DEF Rest
<1>10. Linked(D, q2, FALSE)
  <2>1. CASE Ends(seg)
    <3>1. q2 # <<>> => 1 \in 1 .. Len(q2)
      BY <1>9, QueueIs
    <3>2. q2 # <<>> => q2[1].used = 0
      BY <1>8, <2>1, <3>1
    <3>3. q2 # <<>> => ~(q2[1].used > 0)
      BY <3>2
    <3> QED BY <1>4, <1>8, <2>1, <3>3 DEF Linked
  <2>2. CASE ~Ends(seg)
    BY <1>3, <1>4, <1>8, <2>2 DEF Linked
  <2> QED BY <2>1, <2>2
<1>11. Behind(D, q2, floor, top)
  <2>1. Grown(log, D, q)
    BY <1>3, <1>4 DEF Grown
  <2> QED BY <1>1, <1>7, <2>1, BehindRest
<1>12. Followed(q2, top, local)
  BY <1>1, <1>7, FollowedRest
<1>13. \E hh : /\ LastNet(D, hh)
               /\ \/ Flaw(D, hh)
                  \/ \A id \in NetId(D, hh, floor) + 1 .. top.net : Here(q2, local, id)
  <2>1. CASE seg.pkt.src = "net"
    <3>1. LastNet(D, m)
      <4>1. m \in 0 .. m /\ \A k \in m + 1 .. m : FALSE
        BY <1>4
      <4> QED BY <1>4, <2>1, <4>1 DEF LastNet
    <3>2. NetId(D, m, floor) = seg.pkt.id
      BY <1>4 DEF NetId
    <3>3. 1 \in 1 .. Len(q)
      BY <1>1, <1>3, QueueIs
    <3>4. ASSUME NEW id \in seg.pkt.id + 1 .. top.net PROVE Here(q2, local, id)
      <4>1. Here(q, local, id)
        BY <1>1, <1>3, <2>1, <3>3, <3>4 DEF Followed
      <4>2. q[1].pkt.id # id
        <5>1. q[1].pkt.id \in Nat
          BY <1>1, <3>3, QueueIs
        <5> QED BY <1>3, <3>4, <5>1
      <4> QED BY <1>1, <1>7, <4>1, <4>2, HereRest
    <3> QED BY <3>1, <3>2, <3>4
  <2>2. CASE seg.pkt.src # "net"
    <3>0. h \in 0 .. Len(log) /\ (h # 0 => log[h].pkt.src = "net")
          /\ \A k \in h + 1 .. Len(log) : log[k].pkt.src # "net"
      BY <1>2 DEF LastNet
    <3>1. h # 0 => h \in 1 .. Len(log) /\ D[h] = log[h]
      BY <1>4, <3>0
    <3>2. LastNet(D, h)
      <4>1. h \in 0 .. m
        BY <1>4, <3>0
      <4>2. ASSUME NEW k \in h + 1 .. m PROVE D[k].pkt.src # "net"
        <5>1. CASE k = m
          BY <1>4, <2>2, <5>1
        <5>2. CASE k # m
          <6>1. k \in 1 .. m
            BY <1>4, <3>0
          <6>2. k \in 1 .. Len(log) /\ k \in h + 1 .. Len(log)
            BY <1>4, <3>0, <5>2, <6>1
          <6> QED BY <1>4, <3>0, <6>2
        <5> QED BY <5>1, <5>2
      <4> QED BY <1>4, <3>0, <3>1, <4>1, <4>2 DEF LastNet
    <3>3. NetId(D, h, floor) = NetId(log, h, floor)
      BY <3>1 DEF NetId
    <3>4. CASE loss
      <4>1. m \in h + 1 .. m
        BY <1>4, <3>0
      <4>2. D[m].ovf
        BY <1>3, <1>4, <3>4
      <4>3. Flaw(D, h)
        BY <1>4, <4>1, <4>2 DEF Flaw
      <4> QED BY <3>2, <4>3
    <3>5. CASE Flaw(log, h)
      <4>1. PICK k \in h + 1 .. Len(log) : log[k].ovf
        BY <3>5 DEF Flaw
      <4>2. k \in h + 1 .. m /\ k \in 1 .. Len(log)
        BY <1>4, <3>0
      <4>3. D[k].ovf
        BY <1>4, <4>1, <4>2
      <4>4. Flaw(D, h)
        BY <1>4, <4>2, <4>3 DEF Flaw
      <4> QED BY <3>2, <4>4
    <3>6. CASE \A id \in NetId(log, h, floor) + 1 .. top.net : Here(q, local, id)
      <4>1. \A id \in NetId(log, h, floor) + 1 .. top.net : Here(q2, local, id)
        BY <1>1, <1>3, <1>7, <2>2, <3>6, HereRest
      <4> QED BY <3>2, <3>3, <4>1
    <3> QED BY <1>2, <3>4, <3>5, <3>6
  <2> QED BY <2>1, <2>2
<1> QED BY <1>4, <1>6, <1>9, <1>10, <1>11, <1>12, <1>13 DEF Flow, Whole, Followed

(* After a reset.                                                          *)
LEMMA FlowStart ==
    ASSUME NEW loss \in BOOLEAN, NEW top, \A x \in Numbered : top[x] \in Nat, NEW local
    PROVE  Flow(<<>>, <<>>, loss, top, top, local)
<1>1. <<>> \in Seq(Segments) /\ <<>> \in Seq(Queued) /\ Len(<<>>) = 0
  OBVIOUS
<1>2. \A n \in Nat : n <= n /\ n + 1 .. n = {}
  OBVIOUS
<1>3. 1 .. 0 = {} /\ 2 .. 0 = {} /\ 0 + 1 .. 0 = {} /\ 0 \in 0 .. 0
  OBVIOUS
<1>4. InOrder(<<>>, top, local)
  BY <1>1, <1>3 DEF InOrder
<1>5. Linked(<<>>, <<>>, loss)
  BY <1>1, <1>3 DEF Linked
<1>6. Behind(<<>>, <<>>, top, top)
  BY <1>1, <1>2, <1>3 DEF Behind
<1>7. LastNet(<<>>, 0)
  BY <1>1, <1>3 DEF LastNet
<1>8. NetId(<<>>, 0, top) = top.net /\ top.net \in Nat
  BY DEF NetId, Numbered
<1>9. Whole(<<>>, <<>>, loss, top, top, local)
  BY <1>1, <1>2, <1>3, <1>7, <1>8 DEF Whole
<1> QED BY <1>1, <1>4, <1>5, <1>6, <1>9 DEF Flow

-----------------------------------------------------------------------------
(* What keeps the order                                                    *)

(* The driver will read in order after this as before it.                  *)
Carries(s, t, r) == \A w, o : Streams(s, r, w, o) => Streams(t, r, w, o)

LEMMA CarriesSame == ASSUME NEW s, NEW r PROVE Carries(s, s, r)
BY DEF Carries

LEMMA CarriesChain ==
    ASSUME NEW s, NEW t, NEW u, NEW r, Carries(s, t, r), Carries(t, u, r)
    PROVE  Carries(s, u, r)
BY DEF Carries

(* Numbers that will be used.                                              *)
LEMMA StreamsWiden ==
    ASSUME NEW s, NEW r, NEW w, NEW o, Streams(s, r, w, o), NEW o2 \in Nat, o <= o2
    PROVE  Streams(s, r, w, o2)
<1> DEFINE base == w.total - Len(s.net)
           top == Tops(base, o)
           top2 == Tops(base, o2)
           local == w.local
<1>1. base \in Nat
  BY DEF Streams, Stocked
<1>2. PICK n : /\ Buffers(s.mem.rx, r, n)
               /\ Flow(Got(w.log, s.mem.rx, r, n), s.xq.q, s.xq.loss, w.floor, top, local)
  BY DEF Streams
<1> DEFINE D == Got(w.log, s.mem.rx, r, n)
<1> HIDE DEF base
<1>3. top.net = base /\ top2.net = base /\ top.own = o /\ top2.own = o2
  BY DEF Tops
<1>4. base + 1 .. base = {}
  BY <1>1
<1>5. \A x \in Numbered : top2[x] \in Nat /\ top[x] <= top2[x]
  BY <1>1, <1>3 DEF Numbered
<1>6. Flow(D, s.xq.q, s.xq.loss, w.floor, top, local)
  BY <1>2
<1> HIDE DEF top, top2, D
<1>7. Flow(D, s.xq.q, s.xq.loss, w.floor, top2, local)
  BY <1>3, <1>4, <1>5, <1>6, FlowWiden
<1> QED BY <1>2, <1>7 DEF Streams, D, base, top2

(* Neither the packets nor the segments are touched.                       *)
Even(s, t) ==
    /\ t.net = s.net /\ t.xq.q = s.xq.q /\ t.xq.loss = s.xq.loss
    /\ \A i \in 0 .. NRx - 1 : t.mem.rx[i].st = s.mem.rx[i].st

LEMMA BuffersSame ==
    ASSUME NEW rx, NEW ry, \A i \in 0 .. NRx - 1 : ry[i].st = rx[i].st, NEW r, NEW n, Buffers(rx, r, n)
    PROVE  Buffers(ry, r, n)
BY DEF Buffers, Full

LEMMA EvenCarries ==
    ASSUME NEW s, NEW t, Even(s, t), NEW r \in 0 .. NRx - 1
    PROVE  Carries(s, t, r)
<1> SUFFICES ASSUME NEW w, NEW o, Streams(s, r, w, o) PROVE Streams(t, r, w, o)
  BY DEF Carries
<1>1. PICK n : /\ Buffers(s.mem.rx, r, n)
               /\ Flow(Got(w.log, s.mem.rx, r, n), s.xq.q, s.xq.loss, w.floor,
                       Tops(w.total - Len(s.net), o), w.local)
  BY DEF Streams
<1>2. w.log \in Seq(Segments) /\ n \in 0 .. NRx
  BY <1>1 DEF Streams, Buffers
<1>3. \A i \in 0 .. NRx - 1 : t.mem.rx[i].st = s.mem.rx[i].st
  BY DEF Even
<1>4. Buffers(t.mem.rx, r, n) /\ Got(w.log, t.mem.rx, r, n) = Got(w.log, s.mem.rx, r, n)
  BY <1>1, <1>2, <1>3, BuffersSame, GotSame
<1>5. t.net = s.net /\ t.xq.q = s.xq.q /\ t.xq.loss = s.xq.loss
  BY DEF Even
<1>6. w.total \in Nat /\ Stocked(s.net, w.total - Len(s.net), w.local)
  BY DEF Streams
<1> QED BY <1>1, <1>2, <1>4, <1>5, <1>6 DEF Streams

(* The filled buffers are counted in one way.                              *)
LEMMA BuffersOne ==
    ASSUME NEW rx, NEW r \in 0 .. NRx - 1, NEW n, Buffers(rx, r, n), NEW m, Buffers(rx, r, m)
    PROVE  n = m
<1>1. n \in 0 .. NRx /\ m \in 0 .. NRx
  BY DEF Buffers
<1>2. \A k \in 0 .. NRx - 1 : k < n <=> k < m
  <2> SUFFICES ASSUME NEW k \in 0 .. NRx - 1 PROVE k < n <=> k < m
    OBVIOUS
  <2>1. Slot(r, k) \in 0 .. NRx - 1 /\ Off(Slot(r, k), r) = k
    BY Slots
  <2> QED BY <2>1 DEF Buffers
<1>3. CASE n < m
  <2>1. n \in 0 .. NRx - 1
    BY <1>1, <1>3, Lists
  <2> QED BY <1>1, <1>2, <1>3, <2>1
<1>4. CASE m < n
  <2>1. m \in 0 .. NRx - 1
    BY <1>1, <1>4, Lists
  <2> QED BY <1>1, <1>2, <1>4, <2>1
<1> QED BY <1>1, <1>3, <1>4, Lists

(* A segment goes from the queue into a buffer.                            *)
Hands(s, t, seg) ==
    /\ t.net = s.net /\ t.xq.loss = FALSE
    /\ s.xq.loss \in BOOLEAN => Advances(s.xq.q, s.xq.loss, seg, t.xq.q)

LEMMA HandsCarries ==
    ASSUME NEW s, NEW r \in 0 .. NRx - 1, NEW n \in 0 .. NRx - 1, Buffers(s.mem.rx, r, n),
           NEW i, i = Slot(r, n), NEW t, NEW seg, Hands(s, t, seg), Puts(s.mem.rx, t.mem.rx, i, seg)
    PROVE  Carries(s, t, r)
<1> SUFFICES ASSUME NEW w, NEW o, Streams(s, r, w, o) PROVE Streams(t, r, w, o)
  BY DEF Carries
<1> DEFINE D == Got(w.log, s.mem.rx, r, n)
           E == Got(w.log, t.mem.rx, r, n + 1)
           top == Tops(w.total - Len(s.net), o)
<1>1. Flow(D, s.xq.q, s.xq.loss, w.floor, top, w.local)
  <2>1. PICK m : /\ Buffers(s.mem.rx, r, m)
                 /\ Flow(Got(w.log, s.mem.rx, r, m), s.xq.q, s.xq.loss, w.floor, top, w.local)
    BY DEF Streams
  <2>2. m = n
    BY <2>1, BuffersOne
  <2> QED BY <2>1, <2>2
<1>2. w.log \in Seq(Segments) /\ w.total \in Nat /\ Stocked(s.net, w.total - Len(s.net), w.local)
  BY DEF Streams
<1>3. D \in Seq(Segments) /\ s.xq.loss \in BOOLEAN
  BY <1>1, FlowIs
<1>4. Advances(s.xq.q, s.xq.loss, seg, t.xq.q) /\ t.net = s.net /\ t.xq.loss = FALSE
  BY <1>3 DEF Hands
<1>5. seg \in Segments
  BY <1>4 DEF Advances
<1>6. E = Append(D, seg)
  <2> DEFINE rx == s.mem.rx
             ry == t.mem.rx
             log == w.log
  <2>1. /\ log \in Seq(Segments) /\ Got(log, rx, r, n) \in Seq(Segments)
        /\ Puts(rx, ry, i, seg)
    BY <1>2, <1>3
  <2> HIDE DEF rx, ry, log, D, E, top
  <2>2. Got(log, ry, r, n + 1) = Append(Got(log, rx, r, n), seg)
    BY <1>5, <2>1, GotMore
  <2> QED BY <2>2 DEF D, E, rx, ry, log
<1> HIDE DEF D, E, top
<1>7. Flow(E, t.xq.q, FALSE, w.floor, top, w.local)
  BY <1>1, <1>4, <1>6, FlowDeliver
<1>8. Buffers(t.mem.rx, r, n + 1)
  <2>1. seg # Free
    <3>1. seg.pkt.src # "none"
      BY <1>5 DEF Segments, Packets
    <3> QED BY <3>1 DEF Free
  <2>2. i \in 0 .. NRx - 1 /\ Off(i, r) = n
    BY Slots
  <2>3. ASSUME NEW k \in 0 .. NRx - 1 PROVE Full(t.mem.rx, k) <=> Off(k, r) < n + 1
    <3>1. CASE k = i
      BY <2>1, <2>2, <3>1 DEF Full, Puts
    <3>2. CASE k # i
      <4>1. Off(k, r) \in 0 .. NRx - 1 /\ Slot(r, Off(k, r)) = k
        BY Slots
      <4>2. Off(k, r) # n
        BY <3>2, <4>1
      <4>3. Full(t.mem.rx, k) <=> Off(k, r) < n
        BY <3>2 DEF Full, Buffers, Puts
      <4> QED BY <4>1, <4>2, <4>3, Lists
    <3> QED BY <3>1, <3>2
  <2> QED BY <2>3, Lists DEF Buffers
<1> QED BY <1>2, <1>4, <1>7, <1>8 DEF Streams, E, top

-----------------------------------------------------------------------------
(* The pieces of a handler, register by register                           *)

(* What no handler of the receive side changes.                            *)
Steady(s, t) ==
    /\ Quiet(s, t)
    /\ t.mem.tx = s.mem.tx
    /\ t.xq.srr = s.xq.srr /\ t.xq.loop = s.xq.loop /\ t.xq.tbindx = s.xq.tbindx /\ t.xq.icr = s.xq.icr

LEMMA SteadySame == ASSUME NEW s, Shaped(s) PROVE Steady(s, s)
BY QuietSame DEF Steady

LEMMA SteadyChain ==
    ASSUME NEW s, NEW t, NEW u, Steady(s, t), Steady(t, u)
    PROVE  Steady(s, u)
BY QuietChain DEF Steady

(* An interrupt, and nothing else.                                         *)
Alike(s, t) ==
    /\ Silent(s, t) /\ Steady(s, t)
    /\ t.xq.rbindx = s.xq.rbindx /\ t.xq.loss = s.xq.loss

LEMMA SetIntTells ==
    ASSUME NEW s, Shaped(s), NEW t, t = xq_setint(s)
    PROVE  /\ Alike(s, t)
           /\ ~Turbo(s) => t.xq.irq
           /\ Turbo(s) /\ s.xq.icr => t.xq.irq /\ ~t.xq.pending
           /\ Turbo(s) /\ ~s.xq.icr => t.xq.pending
<1>1. Silent(s, t)
  BY SetInt
<1>2. CASE ~Turbo(s)
  <2>1. t = [s EXCEPT !.xq.irq = TRUE]
    BY <1>2 DEF xq_setint
  <2> QED BY <1>1, <1>2, <2>1 DEF Alike, Steady, Silent, Quiet, Shaped, Registers
<1>3. CASE Turbo(s) /\ s.xq.icr
  <2>1. t = [s EXCEPT !.xq.irq = TRUE, !.xq.pending = FALSE]
    BY <1>3 DEF xq_setint
  <2>2. t.mem = s.mem /\ t.xq = [s.xq EXCEPT !.irq = TRUE, !.pending = FALSE]
        /\ Registers \subseteq DOMAIN s.xq
    BY <2>1 DEF Shaped
  <2>3. /\ t.xq.irq = TRUE /\ t.xq.pending = FALSE
        /\ t.xq.srr = s.xq.srr /\ t.xq.loop = s.xq.loop /\ t.xq.tbindx = s.xq.tbindx /\ t.xq.icr = s.xq.icr
        /\ t.xq.rbindx = s.xq.rbindx /\ t.xq.loss = s.xq.loss
    BY <2>2 DEF Registers
  <2> HIDE DEF Alike
  <2>4. Alike(s, t)
    BY <1>1, <2>2, <2>3 DEF Alike, Steady, Silent
  <2> QED BY <1>3, <2>3, <2>4
<1>4. CASE Turbo(s) /\ ~s.xq.icr
  <2>1. t = [s EXCEPT !.xq.pending = TRUE]
    BY <1>4 DEF xq_setint
  <2> QED BY <1>1, <1>4, <2>1 DEF Alike, Steady, Silent, Quiet, Shaped, Registers
<1> QED BY <1>2, <1>3, <1>4

LEMMA ClrIntTells ==
    ASSUME NEW s, Shaped(s), NEW t, t = xq_clrint(s)
    PROVE  Alike(s, t) /\ ~t.xq.irq /\ t.xq.pending = s.xq.pending
<1>1. Silent(s, t)
  BY ClrInt
<1> QED BY <1>1 DEF xq_clrint, Alike, Steady, Silent, Quiet, Shaped, Registers

(* The interrupt of the CSR in normal mode.                                *)
LEMMA CsrTells ==
    ASSUME NEW s, Shaped(s), ~Turbo(s), NEW set, NEW clr, NEW z, z = xq_csr_set_clr(s, set, clr)
    PROVE  /\ CsrWritten(s, set, clr, z)
           /\ z.xq.loss = s.xq.loss
           /\ "IE" \in z.xq.csr /\ "IE" \notin s.xq.csr /\ z.xq.csr \cap W1 # {} => z.xq.irq
           /\ "IE" \in z.xq.csr /\ "IE" \in s.xq.csr /\ ~(z.xq.csr \cap W1 \subseteq s.xq.csr) => z.xq.irq
           /\ "IE" \in z.xq.csr /\ "IE" \in s.xq.csr /\ z.xq.csr \cap W1 # {} /\ s.xq.irq => z.xq.irq
<1> DEFINE old == s.xq.csr
           new == (old \cup set) \ clr
           up == new \ old
           down == old \ new
           t == [s EXCEPT !.xq.csr = new]
<1>1. CsrWritten(s, set, clr, z)
  BY CsrSetClr
<1>2. Shaped(t) /\ ~Turbo(t) /\ t.xq.irq = s.xq.irq /\ t.xq.loss = s.xq.loss
  BY DEF Shaped, Registers, Turbo
<1>3. z = CASE "IE" \in down -> xq_clrint(t)
            [] "IE" \in up /\ new \cap W1 # {} -> xq_setint(t)
            [] "IE" \in old \cap new /\ up \cap W1 # {} -> xq_setint(t)
            [] "IE" \in old \cap new /\ down \cap W1 # {} /\ new \cap W1 = {} -> xq_clrint(t)
            [] OTHER -> t
  BY DEF xq_csr_set_clr
<1> HIDE DEF t
<1> DEFINE a == xq_clrint(t)
           b == xq_setint(t)
<1>4. a.xq.loss = s.xq.loss /\ b.xq.loss = s.xq.loss /\ b.xq.irq
  BY <1>2, SetIntTells, ClrIntTells DEF Alike
<1>5. z.xq.csr = new
  BY <1>1 DEF CsrWritten
<1> HIDE DEF a, b, new
<1>6. z.xq.loss = s.xq.loss
  <2>1. z \in {a, b, t}
    <3> HIDE DEF up, down
    <3> QED BY <1>3 DEF a, b
  <2> QED BY <1>2, <1>4, <2>1
<1>7. "IE" \in new /\ "IE" \notin old /\ new \cap W1 # {} => z.xq.irq
  <2> SUFFICES ASSUME "IE" \in new, "IE" \notin old, new \cap W1 # {} PROVE z.xq.irq
    OBVIOUS
  <2>1. "IE" \notin down /\ "IE" \in up
    OBVIOUS
  <2> HIDE DEF up, down, old
  <2>2. z = b
    BY <1>3, <2>1 DEF b
  <2> QED BY <1>4, <2>2
<1>8. "IE" \in new /\ "IE" \in old /\ ~(new \cap W1 \subseteq old) => z.xq.irq
  <2> SUFFICES ASSUME "IE" \in new, "IE" \in old, ~(new \cap W1 \subseteq old) PROVE z.xq.irq
    OBVIOUS
  <2>1. "IE" \notin down /\ "IE" \notin up /\ up \cap W1 # {} /\ "IE" \in old \cap new
    OBVIOUS
  <2> HIDE DEF up, down, old
  <2>2. z = b
    BY <1>3, <2>1 DEF b
  <2> QED BY <1>4, <2>2
<1>9. "IE" \in new /\ "IE" \in old /\ new \cap W1 # {} /\ s.xq.irq => z.xq.irq
  <2> SUFFICES ASSUME "IE" \in new, "IE" \in old, new \cap W1 # {}, s.xq.irq PROVE z.xq.irq
    OBVIOUS
  <2>1. "IE" \notin down /\ "IE" \notin up
    OBVIOUS
  <2> HIDE DEF up, down, old
  <2>2. z = b \/ z = t
    BY <1>3, <2>1 DEF b
  <2> QED BY <1>2, <1>4, <2>2
<1> QED BY <1>1, <1>5, <1>6, <1>7, <1>8, <1>9

LEMMA CsrEven ==
    ASSUME NEW s, Shaped(s), ~Turbo(s), NEW set, NEW clr, NEW z, z = xq_csr_set_clr(s, set, clr)
    PROVE  Even(s, z)
<1>1. z.xq.loss = s.xq.loss /\ CsrWritten(s, set, clr, z)
  BY CsrTells
<1> QED BY <1>1 DEF Even, CsrWritten

(* A new bit in the CSR does not leave the driver without its call.         *)
LEMMA CsrCalls ==
    ASSUME NEW s, Shaped(s), ~Turbo(s), NEW set, NEW clr, NEW z, z = xq_csr_set_clr(s, set, clr),
           "IE" \notin set, clr \cap W1 = {}, NEW E, Called(s.xq, E)
    PROVE  Called(z.xq, E)
<1>1. z.xq.csr = (s.xq.csr \cup set) \ clr
  BY CsrTells DEF CsrWritten
<1> SUFFICES ASSUME "IE" \in z.xq.csr, ~(z.xq.csr \cap W1 \subseteq E) PROVE z.xq.irq
  BY DEF Called
<1>2. "IE" \in s.xq.csr
  BY <1>1
<1>3. CASE z.xq.csr \cap W1 \subseteq s.xq.csr
  <2>1. ~(s.xq.csr \cap W1 \subseteq E) /\ z.xq.csr \cap W1 # {}
    BY <1>3
  <2>2. s.xq.irq
    BY <1>2, <2>1 DEF Called
  <2> QED BY <1>2, <2>1, <2>2, CsrTells
<1>4. CASE ~(z.xq.csr \cap W1 \subseteq s.xq.csr)
  BY <1>2, <1>4, CsrTells
<1> QED BY <1>3, <1>4

(* Only the read queue differs.                                            *)
Calm(s, t) ==
    /\ Steady(s, t)
    /\ t.mem = s.mem /\ t.net = s.net
    /\ t.xq.csr = s.xq.csr /\ t.xq.irq = s.xq.irq /\ t.xq.pending = s.xq.pending
    /\ t.xq.rba = s.xq.rba /\ t.xq.rvalid = s.xq.rvalid /\ t.xq.rbindx = s.xq.rbindx

LEMMA InsertCalm ==
    ASSUME NEW s, Shaped(s), NEW p, NEW t, t = ethq_insert(s, p)
    PROVE  Calm(s, t)
<1> DEFINE q == Append(s.xq.q, [pkt |-> p, used |-> 0])
           h == Tail(q)
           a == [s EXCEPT !.xq.q = h, !.xq.loss = TRUE]
           b == [s EXCEPT !.xq.q = q]
<1>1. t \in {a, b}
  BY DEF ethq_insert
<1> HIDE DEF q, h
<1>2. Calm(s, b)
  <2>1. b.mem = s.mem /\ b.net = s.net /\ DOMAIN b = DOMAIN s /\ b.xq = [s.xq EXCEPT !.q = q]
    BY DEF Shaped
  <2> HIDE DEF b
  <2> QED BY <2>1 DEF Calm, Steady, Quiet, Shaped, Registers, Enabled
<1>3. Calm(s, a)
  <2>1. a.mem = s.mem /\ a.net = s.net /\ DOMAIN a = DOMAIN s /\ a.xq = [s.xq EXCEPT !.q = h, !.loss = TRUE]
    BY DEF Shaped
  <2> HIDE DEF a
  <2> QED BY <2>1 DEF Calm, Steady, Quiet, Shaped, Registers, Enabled
<1> HIDE DEF a, b
<1> QED BY <1>1, <1>2, <1>3

LEMMA InsertPacked ==
    ASSUME NEW s, Shaped(s), Packed(s.xq), NEW p \in Packets, NEW t, t = ethq_insert(s, p)
    PROVE  Packed(t.xq)
<1> DEFINE e == [pkt |-> p, used |-> 0]
           q == Append(s.xq.q, e)
           h == Tail(q)
<1>1. e \in Queued
  BY Lists DEF Queued, Packets
<1> HIDE DEF e
<1>2. q \in Seq(Queued) /\ q # <<>>
  BY <1>1 DEF Packed
<1>3. h \in Seq(Queued)
  BY <1>2
<1>4. t.xq.q = h \/ t.xq.q = q
  <2>1. t = IF Len(q) > QueMax THEN [s EXCEPT !.xq.q = h, !.xq.loss = TRUE] ELSE [s EXCEPT !.xq.q = q]
    BY DEF ethq_insert, e
  <2> HIDE DEF q, h
  <2> QED BY <2>1 DEF Shaped, Registers
<1> HIDE DEF q, h
<1> QED BY <1>2, <1>3, <1>4 DEF Packed

(* The queue after a packet.                                               *)
Queues(s, t, p) ==
    LET q == Append(s.xq.q, [pkt |-> p, used |-> 0])
    IN  \/ t.xq.q = q /\ t.xq.loss = s.xq.loss
        \/ t.xq.q = Tail(q) /\ t.xq.loss = TRUE

LEMMA InsertQueues ==
    ASSUME NEW s, Shaped(s), NEW p
    PROVE  Queues(s, ethq_insert(s, p), p)
<1> DEFINE q == Append(s.xq.q, [pkt |-> p, used |-> 0])
           h == Tail(q)
           t == IF Len(q) > QueMax THEN [s EXCEPT !.xq.q = h, !.xq.loss = TRUE] ELSE [s EXCEPT !.xq.q = q]
<1>1. ethq_insert(s, p) = t
  BY DEF ethq_insert
<1> HIDE DEF q, h
<1>2. \/ t.xq = [s.xq EXCEPT !.q = h, !.loss = TRUE]
      \/ t.xq = [s.xq EXCEPT !.q = q]
  BY DEF Shaped
<1> HIDE DEF t
<1>3. (t.xq.q = q /\ t.xq.loss = s.xq.loss) \/ (t.xq.q = h /\ t.xq.loss = TRUE)
  BY <1>2 DEF Shaped, Registers
<1> QED BY <1>1, <1>3 DEF Queues, q, h

LEMMA QueuesFlows ==
    ASSUME NEW s, NEW t, NEW p, Queues(s, t, p), NEW log, NEW floor, NEW top, NEW local,
           Flow(log, s.xq.q, s.xq.loss, floor, top, local), NEW top2, Admits(top, top2, p)
    PROVE  Flow(log, t.xq.q, t.xq.loss, floor, top2, local)
<1> DEFINE q == Append(s.xq.q, [pkt |-> p, used |-> 0])
<1>1. Flow(log, q, s.xq.loss, floor, top2, local)
  BY FlowAppend
<1>2. q # <<>>
  <2>1. s.xq.q \in Seq(Queued) /\ p \in Packets
    BY FlowIs DEF Admits
  <2>2. q \in Seq(Queued) /\ Len(q) = Len(s.xq.q) + 1 /\ Len(s.xq.q) \in Nat
    <3> DEFINE old == s.xq.q
    <3>1. old \in Seq(Queued) /\ q = Append(old, [pkt |-> p, used |-> 0])
      BY <2>1
    <3> HIDE DEF q, old
    <3>2. q \in Seq(Queued) /\ Len(q) = Len(old) + 1
      BY <2>1, <3>1, Appended
    <3> QED BY <3>1, <3>2, QueueIs DEF old
  <2> HIDE DEF q
  <2> QED BY <2>2, QueueIs
<1>3. (t.xq.q = q /\ t.xq.loss = s.xq.loss) \/ (t.xq.q = Tail(q) /\ t.xq.loss = TRUE)
  BY DEF Queues
<1> HIDE DEF q
<1>4. Flow(log, Tail(q), TRUE, floor, top2, local)
  BY <1>1, <1>2, FlowDrop
<1> QED BY <1>1, <1>3, <1>4

(* A packet with a number of its own.                                      *)
LEMMA InsertStreams ==
    ASSUME NEW s, Shaped(s), NEW p, NEW t, t = ethq_insert(s, p), NEW r, NEW w, NEW o, Streams(s, r, w, o),
           NEW o2, Admits(Tops(w.total - Len(s.net), o), Tops(w.total - Len(s.net), o2), p)
    PROVE  Streams(t, r, w, o2)
<1>1. t.mem = s.mem /\ t.net = s.net
  BY InsertCalm DEF Calm
<1>2. Queues(s, t, p)
  BY InsertQueues
<1> DEFINE top == Tops(w.total - Len(s.net), o)
           top2 == Tops(w.total - Len(s.net), o2)
<1>3. PICK n : Buffers(s.mem.rx, r, n)
               /\ Flow(Got(w.log, s.mem.rx, r, n), s.xq.q, s.xq.loss, w.floor, top, w.local)
  BY DEF Streams
<1> DEFINE D == Got(w.log, s.mem.rx, r, n)
<1>4. Flow(D, s.xq.q, s.xq.loss, w.floor, top, w.local) /\ Admits(top, top2, p)
  BY <1>3
<1> HIDE DEF top, top2, D
<1>5. Flow(D, t.xq.q, t.xq.loss, w.floor, top2, w.local)
  BY <1>2, <1>4, QueuesFlows
<1> QED BY <1>1, <1>3, <1>5 DEF Streams, top2, D

(* A packet without.                                                       *)
LEMMA InsertCarries ==
    ASSUME NEW s, Shaped(s), NEW p \in Packets, p.src \notin Numbered, NEW t, t = ethq_insert(s, p), NEW r
    PROVE  Carries(s, t, r)
<1> SUFFICES ASSUME NEW w, NEW o, Streams(s, r, w, o) PROVE Streams(t, r, w, o)
  BY DEF Carries
<1> DEFINE top == Tops(w.total - Len(s.net), o)
<1>1. PICK n : Flow(Got(w.log, s.mem.rx, r, n), s.xq.q, s.xq.loss, w.floor, top, w.local)
  BY DEF Streams
<1> HIDE DEF top
<1>2. \A x \in Numbered : top[x] \in Nat
  BY <1>1, FlowIs DEF Behind
<1>3. Admits(top, top, p)
  <2>1. top.net \in Nat
    BY <1>2 DEF Numbered
  <2> QED BY <1>2, <2>1 DEF Admits
<1> QED BY <1>3, InsertStreams DEF top

(* A segment goes into buffer i, and from the queue.                       *)
Gives(s, t, i, seg) ==
    /\ Steady(s, t)
    /\ t.net = s.net
    /\ t.xq.csr = s.xq.csr /\ t.xq.irq = s.xq.irq /\ t.xq.pending = s.xq.pending
    /\ \A k \in 0 .. NRx : /\ t.mem.rx[k].valid = s.mem.rx[k].valid
                           /\ k # i => t.mem.rx[k].st = s.mem.rx[k].st
    /\ t.mem.rx[i].st = seg
    /\ Packed(t.xq) /\ Hands(s, t, seg)
    /\ ~Ends(seg) => t.xq.q # <<>> /\ t.xq.q[1].used = seg.upto

LEMMA SegmentIs ==
    ASSUME NEW s, Packed(s.xq), s.xq.q # <<>>, NEW room \in Nat \ {0}, NEW seg, seg = Segment(s, room)
    PROVE  /\ s.xq.q[1] \in Queued
           /\ seg.pkt = s.xq.q[1].pkt /\ seg # Free
           /\ seg.upto \in Nat /\ seg.upto > 0
           /\ seg.from = s.xq.q[1].used /\ seg.ovf = s.xq.loss
           /\ s.xq.loss \in BOOLEAN => seg \in Segments
           /\ ~Ends(seg) => seg.upto = s.xq.q[1].used + room /\ seg.upto < seg.pkt.size
<1> DEFINE e == Head(s.xq.q)
           upto == IF e.used + room < e.pkt.size THEN e.used + room ELSE e.pkt.size
<1>1. e = s.xq.q[1] /\ e \in Queued
  BY DEF Packed
<1>2. seg = [pkt |-> e.pkt, from |-> e.used, upto |-> upto, ovf |-> s.xq.loss]
  BY DEF Segment
<1> HIDE DEF e
<1>3. e.pkt \in Packets /\ e.used \in Nat /\ e.used < e.pkt.size
  BY <1>1 DEF Queued
<1>4. e.pkt.size \in Nat /\ e.pkt.size > 0 /\ e.pkt.src # "none"
  BY <1>3, Lists DEF Packets
<1> HIDE DEF upto
<1>5. seg.pkt = e.pkt /\ seg.upto = upto /\ seg.from = e.used /\ seg.ovf = s.xq.loss
  BY <1>2
<1>6. seg # Free
  BY <1>4, <1>5 DEF Free
<1>7. upto \in Nat /\ upto > 0
  BY <1>3, <1>4 DEF upto
<1>8. s.xq.loss \in BOOLEAN => seg \in Segments
  BY <1>2, <1>3, <1>7 DEF Segments
<1> QED BY <1>1, <1>3, <1>4, <1>5, <1>6, <1>8 DEF upto, Ends

LEMMA DeliverGives ==
    ASSUME NEW s, Shaped(s), Packed(s.xq), s.xq.q # <<>>, NEW room \in Nat \ {0}, NEW seg,
           seg = Segment(s, room),
           NEW i \in 0 .. NRx, NEW t, t = Deliver(s, i, seg)
    PROVE  Gives(s, t, i, seg) /\ t.xq.rba = s.xq.rba /\ t.xq.rbindx = s.xq.rbindx
<1> DEFINE rx == [s.mem.rx EXCEPT ![i].st = seg]
           m == [s.mem EXCEPT !.rx = rx]
           tail == Tail(s.xq.q)
           less == [s.xq.q EXCEPT ![1].used = seg.upto]
           q == IF Ends(seg) THEN tail ELSE less
           x == [s.xq EXCEPT !.loss = FALSE, !.q = q]
<1>1. Quiet(s, t) /\ t.xq.csr = s.xq.csr /\ t.xq.rba = s.xq.rba
  BY Delivered
<1>2. t.mem = m /\ t.xq = x /\ t.net = s.net
  <2> DEFINE a == [s EXCEPT !.mem.rx[i].st = seg, !.xq.loss = FALSE]
  <2>1. t = IF Ends(seg) THEN [a EXCEPT !.xq.q = Tail(@)] ELSE [a EXCEPT !.xq.q[1].used = seg.upto]
    BY DEF Deliver, ethq_remove
  <2>2. a.mem = m /\ a.xq = [s.xq EXCEPT !.loss = FALSE] /\ a.net = s.net
        /\ {"xq", "mem", "net"} \subseteq DOMAIN a
    BY DEF Shaped
  <2> HIDE DEF a, m
  <2>3. a.xq.q = s.xq.q /\ {"q", "loss"} \subseteq DOMAIN a.xq /\ {"q", "loss"} \subseteq DOMAIN s.xq
    BY <2>2 DEF Shaped, Registers
  <2>4. CASE Ends(seg)
    <3>1. t = [a EXCEPT !.xq.q = tail]
      BY <2>1, <2>3, <2>4
    <3> HIDE DEF tail
    <3>2. t.xq = [a.xq EXCEPT !.q = tail] /\ t.mem = a.mem /\ t.net = a.net
      BY <2>2, <3>1
    <3> QED BY <2>2, <2>4, <3>2
  <2>5. CASE ~Ends(seg)
    <3>1. t = [a EXCEPT !.xq.q = less]
      BY <2>1, <2>3, <2>5
    <3> HIDE DEF less
    <3>2. t.xq = [a.xq EXCEPT !.q = less] /\ t.mem = a.mem /\ t.net = a.net
      BY <2>2, <3>1
    <3> QED BY <2>2, <2>5, <3>2
  <2> QED BY <2>4, <2>5
<1> HIDE DEF q, rx, x, m
<1>3. /\ t.xq.irq = s.xq.irq /\ t.xq.pending = s.xq.pending /\ t.xq.rbindx = s.xq.rbindx /\ t.xq.q = q
      /\ t.xq.srr = s.xq.srr /\ t.xq.loop = s.xq.loop /\ t.xq.tbindx = s.xq.tbindx /\ t.xq.icr = s.xq.icr
  BY <1>2 DEF Shaped, Registers, x
<1>4. t.mem.tx = s.mem.tx /\ t.mem.rx = rx
  BY <1>2 DEF Shaped, m
<1>5. Steady(s, t)
  BY <1>1, <1>3, <1>4 DEF Steady
<1>6. ASSUME NEW k \in 0 .. NRx
      PROVE  rx[k].valid = s.mem.rx[k].valid /\ rx[k].st = IF k = i THEN seg ELSE s.mem.rx[k].st
  BY DEF rx, Shaped
<1>7. q \in Seq(Queued) /\ (~Ends(seg) => q # <<>> /\ q[1].used = seg.upto)
  <2>1. CASE Ends(seg)
    <3>1. tail \in Seq(Queued)
      BY DEF Packed
    <3> HIDE DEF tail
    <3> QED BY <2>1, <3>1 DEF q
  <2>2. CASE ~Ends(seg)
    <3> DEFINE e == s.xq.q[1]
               f == [e EXCEPT !.used = seg.upto]
    <3>1. e \in Queued /\ seg.upto \in Nat /\ seg.upto < e.pkt.size
      BY <2>2, SegmentIs
    <3>2. s.xq.q \in Seq(Queued) /\ 1 \in 1 .. Len(s.xq.q)
      BY DEF Packed
    <3>3. less = [s.xq.q EXCEPT ![1] = f]
      BY <3>2
    <3> HIDE DEF e
    <3>4. f \in Queued /\ f.used = seg.upto
      BY <3>1 DEF Queued
    <3> HIDE DEF f, less
    <3>5. less \in Seq(Queued) /\ less # <<>> /\ less[1] = f
      BY <3>2, <3>3, <3>4
    <3> QED BY <2>2, <3>4, <3>5 DEF q
  <2> QED BY <2>1, <2>2
<1>8. Hands(s, t, seg)
  <2>1. t.xq.loss = FALSE
    BY <1>2 DEF x, Shaped, Registers
  <2>2. s.xq.loss \in BOOLEAN => Advances(s.xq.q, s.xq.loss, seg, q)
    BY SegmentIs DEF Advances, q
  <2> QED BY <1>2, <1>3, <2>1, <2>2 DEF Hands
<1> QED BY <1>1, <1>2, <1>3, <1>4, <1>5, <1>6, <1>7, <1>8 DEF Gives, Packed

-----------------------------------------------------------------------------
(* The receive list in normal mode                                         *)

Fit(s) == Shaped(s) /\ ~Turbo(s) /\ Packed(s.xq)
Readable(s, r) == Ring(s.xq, s.mem.rx, r) /\ Open(s.xq, s.mem.rx, r)
Ready(s, r) == "RL" \in s.xq.csr \/ Readable(s, r)

(* What a driver that awaits something can rely on, whatever is received   *)
(* or sent.                                                                *)
Follows(s, t) ==
    /\ Fit(t)
    /\ t.xq.units \cap {"Srqr"} = s.xq.units \cap {"Srqr"}
    /\ t.mem.tx = s.mem.tx
    /\ t.xq.csr \cap {"IE", "SR", "RE"} = s.xq.csr \cap {"IE", "SR", "RE"}
    /\ s.xq.csr \cap {"RI", "XI", "RL"} \subseteq t.xq.csr
    /\ \A E : Called(s.xq, E) => Called(t.xq, E)
    /\ Told(s.xq, s.mem.rx) => Told(t.xq, t.mem.rx)
    /\ "RL" \in s.xq.csr => t.mem.rx = s.mem.rx /\ t.xq.rba = s.xq.rba

(* Reception leaves an invalid list alone, and the one it comes to the end *)
(* of holds the end of a packet.                                           *)
Fares(s, t, r) ==
    /\ Follows(s, t)
    /\ Ready(s, r) => Carries(s, t, r)
    /\ "RL" \in s.xq.csr => t.xq.csr = s.xq.csr
    /\ Readable(s, r) =>
           /\ Readable(t, r)
           /\ Ended(s.mem.rx) => Ended(t.mem.rx)
           /\ "RL" \in t.xq.csr => "RL" \in s.xq.csr \/ Ended(t.mem.rx)

LEMMA FollowsSame == ASSUME NEW s, Fit(s) PROVE Follows(s, s)
BY DEF Follows

LEMMA FollowsChain ==
    ASSUME NEW s, NEW t, NEW u, Follows(s, t), Follows(t, u)
    PROVE  Follows(s, u)
BY DEF Follows

LEMMA FaresSame == ASSUME NEW s, Fit(s), NEW r PROVE Fares(s, s, r)
BY FollowsSame, CarriesSame DEF Fares

LEMMA FaresChain ==
    ASSUME NEW s, NEW t, NEW u, NEW r, Fares(s, t, r), Fares(t, u, r)
    PROVE  Fares(s, u, r)
<1>1. Follows(s, u)
  BY FollowsChain DEF Fares
<1>2. s.xq.csr \cap {"RL"} \subseteq t.xq.csr
  BY DEF Fares, Follows
<1>3. Ready(s, r) => Ready(t, r)
  BY DEF Fares, Ready
<1>4. Ready(s, r) => Carries(s, u, r)
  BY <1>3, CarriesChain DEF Fares
<1> QED BY <1>1, <1>2, <1>4 DEF Fares

(* What a packet in the queue, or another unit, does not disturb.          *)
LEMMA CalmFollows ==
    ASSUME NEW s, Fit(s), NEW t, Shaped(t), Packed(t.xq), t.xq.mode = s.xq.mode, t.mem = s.mem,
           t.xq.csr = s.xq.csr, t.xq.irq = s.xq.irq, t.xq.rba = s.xq.rba,
           t.xq.units \cap {"Srqr"} = s.xq.units \cap {"Srqr"}, NEW r
    PROVE  Follows(s, t) /\ (Readable(s, r) <=> Readable(t, r))
<1>1. Fit(t)
  BY DEF Fit, Turbo
<1>2. \A E : Called(s.xq, E) => Called(t.xq, E)
  BY DEF Called
<1>3. Told(s.xq, s.mem.rx) <=> Told(t.xq, t.mem.rx)
  BY DEF Told
<1>4. Follows(s, t)
  BY <1>1, <1>2, <1>3 DEF Follows
<1>5. Depth(t.xq, r) = Depth(s.xq, r)
  BY DEF Depth
<1>6. Readable(s, r) <=> Readable(t, r)
  BY <1>5 DEF Readable, Ring, Open, AtEnd
<1> QED BY <1>4, <1>6

LEMMA FaresCalm ==
    ASSUME NEW s, Fit(s), NEW t, Shaped(t), Packed(t.xq), t.xq.mode = s.xq.mode, t.mem = s.mem,
           t.xq.csr = s.xq.csr, t.xq.irq = s.xq.irq, t.xq.rba = s.xq.rba,
           t.xq.units \cap {"Srqr"} = s.xq.units \cap {"Srqr"}, NEW r, Carries(s, t, r)
    PROVE  Fares(s, t, r)
BY CalmFollows DEF Fares

(* One buffer is filled.                                                   *)
Fills(s, t, i, seg) ==
    /\ Quiet(s, t) /\ Fit(t) /\ t.mem.tx = s.mem.tx
    /\ t.xq.rba = i + 1
    /\ \A k \in 0 .. NRx : k # i => t.mem.rx[k].st = s.mem.rx[k].st
    /\ t.mem.rx[i].st = seg
    /\ ~Ends(seg) => t.xq.q # <<>> /\ t.xq.q[1].used = seg.upto
    /\ t.xq.csr = IF Ends(seg) THEN s.xq.csr \cup {"RI"} ELSE s.xq.csr
    /\ \A E : Called(s.xq, E) => Called(t.xq, E)
    /\ Hands(s, t, seg)

LEMMA BufferFills ==
    ASSUME NEW s, Fit(s), NEW i, i = s.xq.rba, i # NRx, s.xq.q # <<>>, NEW seg, seg = Segment(s, 1),
           NEW z, z = FillBuffer(s)
    PROVE  Fills(s, z, i, seg)
<1> DEFINE d == Deliver(s, i, seg)
           t == [d EXCEPT !.xq.rba = i + 1]
           u == xq_csr_set_clr(t, {"RI"}, {})
<1>1. z = IF Ends(seg) THEN u ELSE t
  BY DEF FillBuffer
<1>2. i \in 0 .. NRx /\ i + 1 \in 0 .. NRx
  BY Lists DEF Fit, Shaped
<1>3. Gives(s, d, i, seg) /\ d.xq.rba = s.xq.rba
  BY <1>2, DeliverGives DEF Fit
<1> HIDE DEF d
<1>4. /\ t.mem = d.mem /\ t.net = d.net /\ DOMAIN t = DOMAIN d /\ DOMAIN t.xq = DOMAIN d.xq /\ t.xq.rba = i + 1
      /\ t.xq.mode = d.xq.mode /\ t.xq.units = d.xq.units /\ t.xq.csr = d.xq.csr /\ t.xq.irq = d.xq.irq
      /\ t.xq.q = d.xq.q /\ t.xq.loss = d.xq.loss
  BY <1>3 DEF Gives, Steady, Quiet, Shaped, Registers
<1> HIDE DEF t
<1>5. Quiet(s, t) /\ Fit(t) /\ t.mem.tx = s.mem.tx
  BY <1>2, <1>3, <1>4 DEF Gives, Steady, Quiet, Shaped, Enabled, Fit, Turbo, Packed
<1>6. \A E : Called(s.xq, E) => Called(t.xq, E)
  BY <1>3, <1>4 DEF Gives, Called
<1>7. Hands(s, t, seg)
  BY <1>3, <1>4 DEF Gives, Hands
<1>8. Fills(s, t, i, seg) \/ Ends(seg)
  BY <1>3, <1>4, <1>5, <1>6, <1>7 DEF Gives, Fills
<1>9. Even(t, u)
  BY <1>5, CsrEven DEF Fit
<1>10. CsrWritten(t, {"RI"}, {}, u) /\ Quiet(t, u)
  BY <1>5, CsrSetClr, CsrQuiet DEF Fit
<1>11. \A E : Called(t.xq, E) => Called(u.xq, E)
  BY <1>5, CsrCalls DEF Fit
<1> HIDE DEF u
<1>12. Quiet(s, u) /\ Fit(u) /\ u.mem.tx = s.mem.tx
  BY <1>5, <1>10, QuietChain DEF CsrWritten, Quiet, Fit, Turbo, Packed
<1>13. u.xq.csr = s.xq.csr \cup {"RI"}
  BY <1>3, <1>4, <1>10 DEF CsrWritten, Gives
<1>14. u.mem = d.mem /\ u.xq.rba = i + 1
  BY <1>4, <1>10 DEF CsrWritten
<1>15. Hands(s, u, seg)
  BY <1>7, <1>9 DEF Hands, Even
<1>16. Ends(seg) => Fills(s, u, i, seg)
  BY <1>3, <1>6, <1>11, <1>12, <1>13, <1>14, <1>15 DEF Gives, Fills
<1> QED BY <1>1, <1>8, <1>16

(* The descriptors behind that at which the driver reads.                  *)
LEMMA OffNext ==
    ASSUME NEW r \in 0 .. NRx - 1, NEW i \in 0 .. NRx - 1
    PROVE  /\ Off(i, r) \in 0 .. NRx - 1
           /\ Off(i, r) # NRx - 1 => Off(IF i + 1 = NRx THEN 0 ELSE i + 1, r) = Off(i, r) + 1
           /\ Off(i, r) = NRx - 1 => (IF i + 1 = NRx THEN 0 ELSE i + 1) = r
           /\ \A k \in 0 .. NRx - 1 : Off(k, r) = Off(i, r) => k = i
           /\ Off(i, r) = 0 <=> i = r
BY Lists DEF Off

(* In the middle of a packet all the buffers filled are its own, unless    *)
(* another has ended among them.                                           *)
Mid(s, r) ==
    /\ Ring(s.xq, s.mem.rx, r)
    /\ \/ AtEnd(s.xq, s.mem.rx, r)
       \/ s.xq.q # <<>> /\ (Ended(s.mem.rx) \/ s.xq.q[1].used >= Depth(s.xq, r))

Moves(s, t, r) ==
    /\ Follows(s, t) /\ "RL" \notin t.xq.csr
    /\ Readable(s, r) => Mid(t, r) /\ (Ended(s.mem.rx) => Ended(t.mem.rx)) /\ Carries(s, t, r)

LEMMA MovesSame ==
    ASSUME NEW s, Fit(s), "RL" \notin s.xq.csr, NEW r
    PROVE  Moves(s, s, r)
BY FollowsSame, CarriesSame DEF Moves, Readable, Open, Mid

LEMMA MovesCalm ==
    ASSUME NEW s, NEW r \in 0 .. NRx - 1, NEW l, Moves(s, l, r), NEW t, Quiet(l, t), t.mem = l.mem,
           t.xq.csr = l.xq.csr, t.xq.irq = l.xq.irq, t.xq.q = l.xq.q, t.xq.loss = l.xq.loss, t.net = l.net,
           t.xq.rba = l.xq.rba \/ (l.xq.rba = NRx /\ t.xq.rba = 0)
    PROVE  Moves(s, t, r)
<1>1. Fit(l)
  BY DEF Moves, Follows
<1>2. Follows(l, t)
  <2>1. Fit(t)
    BY <1>1 DEF Fit, Quiet, Turbo, Packed
  <2>2. \A E : Called(l.xq, E) => Called(t.xq, E)
    BY DEF Called
  <2>3. Told(l.xq, l.mem.rx) <=> Told(t.xq, t.mem.rx)
    BY DEF Told
  <2> QED BY <2>1, <2>2, <2>3 DEF Follows, Moves, Quiet
<1>3. Depth(t.xq, r) = Depth(l.xq, r)
  BY Lists DEF Depth
<1>4. Mid(l, r) => Mid(t, r)
  BY <1>3 DEF Mid, Ring, AtEnd
<1>5. Carries(l, t, r)
  <2>1. Even(l, t)
    BY DEF Even
  <2> QED BY <2>1, EvenCarries
<1> QED BY <1>2, <1>4, <1>5, FollowsChain, CarriesChain DEF Moves

LEMMA FillFollows ==
    ASSUME NEW l, Fit(l), "RL" \notin l.xq.csr, NEW i \in 0 .. NRx, NEW seg, NEW z, Fills(l, z, i, seg)
    PROVE  Follows(l, z)
<1>1. Told(l.xq, l.mem.rx) => Told(z.xq, z.mem.rx)
  <2> SUFFICES ASSUME Told(l.xq, l.mem.rx), ~Ends(seg), NEW k \in 0 .. NRx, Full(z.mem.rx, k),
                      Ends(z.mem.rx[k].st)
               PROVE  "RI" \in z.xq.csr
    BY DEF Told, Ended, Fills
  <2>1. k # i
    BY DEF Fills
  <2>2. Full(l.mem.rx, k) /\ Ends(l.mem.rx[k].st)
    BY <2>1 DEF Fills, Full
  <2> QED BY <2>2 DEF Told, Ended, Fills
<1>2. z.xq.csr \cap {"IE", "SR", "RE"} = l.xq.csr \cap {"IE", "SR", "RE"} /\ l.xq.csr \subseteq z.xq.csr
  BY DEF Fills
<1> QED BY <1>1, <1>2 DEF Follows, Fills, Quiet

LEMMA FillMoves ==
    ASSUME NEW s, NEW r \in 0 .. NRx - 1, NEW l, Moves(s, l, r), NEW i, i = l.xq.rba, i # NRx,
           l.mem.rx[i].valid,
           l.xq.q # <<>>, NEW seg, seg = Segment(l, 1), NEW z, Fills(l, z, i, seg)
    PROVE  Moves(s, z, r)
<1>1. Fit(l) /\ "RL" \notin l.xq.csr
  BY DEF Moves, Follows
<1>2. i \in 0 .. NRx - 1
  BY <1>1, Lists DEF Fit, Shaped
<1>3. i \in 0 .. NRx /\ NRx \in 0 .. NRx
  BY <1>2, Lists
<1>4. Follows(s, z) /\ "RL" \notin z.xq.csr
  <2>1. Follows(l, z)
    BY <1>1, <1>3, FillFollows
  <2> QED BY <1>1, <2>1, FollowsChain DEF Moves, Fills
<1>5. seg # Free /\ l.xq.q[1] \in Queued /\ (~Ends(seg) => seg.upto = l.xq.q[1].used + 1)
  BY <1>1, SegmentIs DEF Fit
<1> SUFFICES ASSUME Mid(l, r)
             PROVE  Mid(z, r) /\ (Ended(l.mem.rx) => Ended(z.mem.rx)) /\ Carries(l, z, r)
  BY <1>4, CarriesChain DEF Moves
<1> DEFINE D == Depth(l.xq, r)
<1>6. D = Off(i, r) /\ Ring(l.xq, l.mem.rx, r) /\ D # NRx - 1
  BY <1>2 DEF Depth, Mid, Ring, Valid
<1>7. Depth(z.xq, r) = D + 1 /\ D \in 0 .. NRx - 1
  <2>1. z.xq.rba = i + 1
    BY DEF Fills
  <2>2. Depth(z.xq, r) = Off(IF i + 1 = NRx THEN 0 ELSE i + 1, r)
    BY <2>1 DEF Depth
  <2> HIDE DEF D
  <2>3. Off(i, r) \in 0 .. NRx - 1
    BY <1>2, OffNext
  <2>4. Off(i, r) # NRx - 1 => Off(IF i + 1 = NRx THEN 0 ELSE i + 1, r) = Off(i, r) + 1
    BY <1>2, OffNext
  <2> QED BY <1>6, <2>2, <2>3, <2>4
<1> HIDE DEF D
<1>8. ASSUME NEW k \in 0 .. NRx - 1 PROVE Off(k, r) \in 0 .. NRx - 1 /\ (Off(k, r) = D => k = i)
  <2>1. Off(k, r) \in 0 .. NRx - 1
    BY OffNext
  <2>2. Off(k, r) = Off(i, r) => k = i
    BY <1>2, OffNext
  <2> QED BY <1>6, <2>1, <2>2
<1>9. ~Full(l.mem.rx, i)
  BY <1>2, <1>6, <1>7 DEF Ring, D
<1>10. \A k \in 0 .. NRx : k # i => (Full(z.mem.rx, k) <=> Full(l.mem.rx, k))
  BY DEF Fills, Full
<1>11. Full(z.mem.rx, i)
  BY <1>5 DEF Fills, Full
<1>12. Ended(l.mem.rx) => Ended(z.mem.rx)
  BY <1>9, <1>10 DEF Ended, Fills
<1>13. Ring(z.xq, z.mem.rx, r)
  <2>1. Valid(z.mem.rx, r)
    <3>1. \A k \in 0 .. NRx : z.mem.rx[k].valid = l.mem.rx[k].valid
      BY <1>1 DEF Fills, Quiet, Fit
    <3>2. 0 .. NRx - 1 \subseteq 0 .. NRx
      BY Lists
    <3> QED BY <1>2, <1>3, <1>6, <1>10, <3>1, <3>2 DEF Ring, Valid
  <2>2. ASSUME NEW k \in 0 .. NRx - 1 PROVE Full(z.mem.rx, k) <=> Off(k, r) < D + 1
    <3>1. CASE k = i
      BY <1>6, <1>7, <1>11, <3>1 DEF D
    <3>2. CASE k # i
      <4>1. Full(z.mem.rx, k) <=> Off(k, r) < D
        BY <1>6, <1>10, <3>2, Lists DEF Ring, D
      <4> QED BY <1>7, <1>8, <3>2, <4>1
    <3> QED BY <3>1, <3>2
  <2> QED BY <1>7, <2>1, <2>2 DEF Ring
<1>14. Carries(l, z, r)
  <2>1. Buffers(l.mem.rx, r, D) /\ D \in 0 .. NRx - 1 /\ i = Slot(r, D)
    <3>1. i = Slot(r, Off(i, r))
      BY <1>2, Slots
    <3> QED BY <1>6, <1>7, <3>1, Lists DEF Buffers, Ring, D
  <2>2. Puts(l.mem.rx, z.mem.rx, i, seg) /\ Hands(l, z, seg)
    BY Lists DEF Fills, Puts
  <2> QED BY <2>1, <2>2, HandsCarries
<1>15. CASE Ends(seg)
  <2>1. ASSUME NEW k \in 0 .. NRx - 1, Off(k, r) + 1 = D + 1 PROVE Ends(z.mem.rx[k].st)
    <3>1. k = i
      BY <1>7, <1>8, <2>1
    <3> QED BY <1>15, <3>1 DEF Fills
  <2>2. AtEnd(z.xq, z.mem.rx, r)
    BY <1>7, <2>1 DEF AtEnd
  <2> QED BY <1>12, <1>13, <1>14, <2>2 DEF Mid
<1>16. CASE ~Ends(seg)
  <2>1. z.xq.q # <<>> /\ z.xq.q[1].used = l.xq.q[1].used + 1 /\ l.xq.q[1].used \in Nat
    BY <1>5, <1>16 DEF Fills, Queued
  <2>2. Ended(l.mem.rx) \/ l.xq.q[1].used >= D
    <3>1. CASE AtEnd(l.xq, l.mem.rx, r) /\ D # 0
      <4> DEFINE j == IF i = 0 THEN NRx - 1 ELSE i - 1
      <4>1. Off(i, r) = D /\ Off(i, r) # 0
        BY <1>6, <3>1
      <4>2. j \in 0 .. NRx - 1 /\ Off(j, r) + 1 = Off(i, r)
        BY <1>2, <4>1, Lists DEF Off
      <4> HIDE DEF j
      <4>3. Full(l.mem.rx, j) /\ Ends(l.mem.rx[j].st)
        BY <1>6, <1>8, <3>1, <4>1, <4>2 DEF Ring, AtEnd, D
      <4> QED BY <4>2, <4>3, Lists DEF Ended
    <3>2. CASE D = 0
      BY <2>1, <3>2
    <3> QED BY <3>1, <3>2 DEF Mid, D
  <2>3. Ended(z.mem.rx) \/ z.xq.q[1].used >= D + 1
    BY <1>7, <1>12, <2>1, <2>2
  <2> QED BY <1>7, <1>12, <1>13, <1>14, <2>1, <2>3 DEF Mid
<1> QED BY <1>15, <1>16

(* The end of the list: the buffers of the driver are all filled, and no   *)
(* packet is as long as they are.                                          *)
LEMMA EndFares ==
    ASSUME NEW s, "RL" \notin s.xq.csr, NEW r \in 0 .. NRx - 1, NEW t, Moves(s, t, r),
           ~t.mem.rx[t.xq.rba].valid,
           NEW z, z = xq_csr_set_clr(t, {"RL"}, {})
    PROVE  Fares(s, z, r)
<1>1. Fit(t) /\ "RL" \notin t.xq.csr
  BY DEF Moves, Follows
<1>2. CsrWritten(t, {"RL"}, {}, z) /\ \A E : Called(t.xq, E) => Called(z.xq, E)
  BY <1>1, CsrSetClr, CsrCalls DEF Fit
<1>3. Follows(t, z)
  <2>1. Fit(z)
    BY <1>1, <1>2 DEF CsrWritten, Fit, Turbo, Packed
  <2>2. Told(t.xq, t.mem.rx) => Told(z.xq, z.mem.rx)
    BY <1>2 DEF CsrWritten, Told
  <2> QED BY <1>1, <1>2, <2>1, <2>2 DEF CsrWritten, Follows
<1>4. Follows(s, z)
  BY <1>3, FollowsChain DEF Moves
<1>5. Carries(t, z, r)
  BY <1>1, CsrEven, EvenCarries DEF Fit
<1> SUFFICES ASSUME Mid(t, r), Readable(s, r)
             PROVE  Readable(z, r) /\ Ended(z.mem.rx)
  BY <1>4, <1>5, CarriesChain DEF Fares, Moves, Ready
<1> DEFINE i == t.xq.rba
<1>6. z.mem = t.mem /\ z.xq.rba = t.xq.rba /\ "RL" \in z.xq.csr
  BY <1>2 DEF CsrWritten
<1>7. Readable(z, r)
  BY <1>6 DEF Mid, Readable, Ring, Open, Depth
<1>8. i \in 0 .. NRx - 1 /\ Off(i, r) = NRx - 1 /\ Depth(t.xq, r) = NRx - 1
  <2>1. i \in 0 .. NRx /\ i # NRx
    BY <1>1 DEF Fit, Shaped, Mid, Ring, Valid
  <2>2. i \in 0 .. NRx - 1
    BY <2>1, Lists
  <2> QED BY <2>2 DEF Mid, Ring, Valid, Depth
<1>9. Ended(t.mem.rx)
  <2>1. CASE AtEnd(t.xq, t.mem.rx, r)
    <3> DEFINE j == IF i = 0 THEN NRx - 1 ELSE i - 1
    <3>1. j \in 0 .. NRx - 1 /\ Off(j, r) + 1 = NRx - 1
      BY <1>8, Lists DEF Off
    <3> HIDE DEF j
    <3>2. Off(j, r) \in 0 .. NRx - 1
      BY <3>1, OffNext
    <3>3. Full(t.mem.rx, j) /\ Ends(t.mem.rx[j].st)
      BY <1>8, <2>1, <3>1, <3>2, Lists DEF Mid, Ring, AtEnd
    <3> QED BY <3>1, <3>3, Lists DEF Ended
  <2>2. CASE t.xq.q # <<>> /\ t.xq.q[1].used >= NRx - 1
    <3>1. t.xq.q[1] \in Queued
      BY <1>1, <2>2 DEF Fit, Packed
    <3> QED BY <2>2, <3>1, Lists DEF Queued, Packets
  <2> QED BY <1>8, <2>1, <2>2 DEF Mid
<1> QED BY <1>6, <1>7, <1>9

(* The queue is empty before the end of the list.                          *)
LEMMA EmptyFares ==
    ASSUME NEW s, "RL" \notin s.xq.csr, NEW r \in 0 .. NRx - 1, NEW t, Moves(s, t, r), t.xq.rba # NRx,
           t.mem.rx[t.xq.rba].valid, t.xq.q = <<>>
    PROVE  Fares(s, t, r)
<1> SUFFICES ASSUME Mid(t, r) PROVE Readable(t, r)
  BY DEF Fares, Moves, Ready
<1>1. Depth(t.xq, r) # NRx - 1 /\ Depth(t.xq, r) \in 0 .. NRx - 1
  <2>1. t.xq.rba \in 0 .. NRx - 1
    BY Lists DEF Moves, Follows, Fit, Shaped
  <2>2. Off(t.xq.rba, r) \in 0 .. NRx - 1
    BY <2>1, OffNext
  <2> QED BY <2>1, <2>2 DEF Mid, Ring, Valid, Depth
<1> QED BY <1>1, Lists DEF Mid, Readable, Open

Goes(s, l, r) ==
    /\ {"s", "start", "on"} \subseteq DOMAIN l
    /\ l.on = TRUE => Moves(s, l.s, r)
    /\ l.on = FALSE => Fares(s, l.s, r)

LEMMA RoundGoes ==
    ASSUME NEW s, "RL" \notin s.xq.csr, NEW r \in 0 .. NRx - 1, NEW l, Goes(s, l, r), l.on = TRUE,
           l.s.xq.rba # l.start
    PROVE  Goes(s, ReceiveRound(l), r)
<1> DEFINE b == l.s
           i == b.xq.rba
           valid == b.mem.rx[i].valid
           t == [b EXCEPT !.xq.rvalid = valid]
           first == IF l.start > NRx THEN i ELSE l.start
           listed == xq_csr_set_clr(t, {"RL"}, {})
           around == [t EXCEPT !.xq.rba = 0]
           filled == FillBuffer(t)
           Leave(u) == [l EXCEPT !.s = u, !.on = FALSE]
           Go(u) == [l EXCEPT !.s = u, !.start = first]
           m == ReceiveRound(l)
<1>1. m = CASE i = l.start -> Leave(t)
            [] i # l.start /\ ~t.xq.rvalid -> Leave(listed)
            [] i # l.start /\ t.xq.rvalid /\ i = NRx -> Go(around)
            [] i \notin {l.start, NRx} /\ t.xq.rvalid /\ t.xq.q # <<>> -> Go(filled)
            [] OTHER -> Leave(t)
  BY DEF ReceiveRound
<1>2. Moves(s, b, r) /\ Fit(b)
  BY DEF Goes, Moves, Follows
<1> HIDE DEF b
<1>3. /\ Quiet(b, t) /\ t.xq.rvalid = valid /\ t.xq.q = b.xq.q /\ t.xq.rba = i /\ Shaped(t)
      /\ t.mem = b.mem /\ t.xq.csr = b.xq.csr /\ t.xq.irq = b.xq.irq /\ t.xq.loss = b.xq.loss /\ t.net = b.net
  BY <1>2 DEF Fit, Quiet, Shaped, Registers, Enabled
<1> HIDE DEF t, m
<1>4. Moves(s, t, r) /\ Fit(t)
  <2>1. Moves(s, t, r)
    BY <1>2, <1>3, MovesCalm
  <2> QED BY <2>1 DEF Moves, Follows
<1>5. t.mem.rx[t.xq.rba].valid <=> valid
  BY <1>3
<1>6. ~valid => Fares(s, listed, r)
  BY <1>4, <1>5, EndFares
<1>7. i = NRx => Moves(s, around, r)
  <2> SUFFICES ASSUME i = NRx PROVE Moves(s, around, r)
    OBVIOUS
  <2>1. /\ Quiet(t, around) /\ around.mem = t.mem /\ around.xq.csr = t.xq.csr /\ around.xq.irq = t.xq.irq
        /\ around.xq.q = t.xq.q /\ around.xq.rba = 0 /\ around.xq.loss = t.xq.loss /\ around.net = t.net
    BY <1>4, Lists DEF Fit, Quiet, Shaped, Registers, Enabled
  <2> HIDE DEF around
  <2> QED BY <1>3, <1>4, <2>1, MovesCalm
<1>8. valid /\ i # NRx /\ t.xq.q # <<>> => Moves(s, filled, r)
  <2> SUFFICES ASSUME valid, i # NRx, t.xq.q # <<>> PROVE Moves(s, filled, r)
    OBVIOUS
  <2> DEFINE seg == Segment(t, 1)
  <2>1. Fills(t, filled, t.xq.rba, seg)
    <3> HIDE DEF seg
    <3> QED BY <1>3, <1>4, BufferFills DEF seg
  <2> HIDE DEF filled, seg
  <2> QED BY <1>3, <1>4, <1>5, <2>1, FillMoves DEF seg
<1>9. valid /\ i # NRx /\ t.xq.q = <<>> => Fares(s, t, r)
  BY <1>3, <1>4, <1>5, EmptyFares
<1>10. \A u : Leave(u).s = u /\ Leave(u).on = FALSE /\ DOMAIN Leave(u) = DOMAIN l
  BY DEF Goes
<1>11. \A u : Go(u).s = u /\ Go(u).on = TRUE /\ DOMAIN Go(u) = DOMAIN l
  BY DEF Goes
<1>12. i # l.start
  BY DEF b
<1> HIDE DEF Leave, Go, listed, around, filled, i, first, valid
<1>13. \/ m = Leave(listed) /\ ~valid
       \/ m = Go(around) /\ i = NRx
       \/ m = Go(filled) /\ valid /\ i # NRx /\ t.xq.q # <<>>
       \/ m = Leave(t) /\ valid /\ i # NRx /\ t.xq.q = <<>>
  BY <1>1, <1>3, <1>12
<1>14. Goes(s, m, r)
  BY <1>6, <1>7, <1>8, <1>9, <1>10, <1>11, <1>13 DEF Goes
<1> QED BY <1>14 DEF m

LEMMA ReceiveFares ==
    ASSUME NEW s, Fit(s), ListEnds(s), "RL" \notin s.xq.csr, NEW r \in 0 .. NRx - 1
    PROVE  Fares(s, Receive(s), r)
<1> USE Lists
<1>1. PICK j \in 0 .. NRx - 1 : ~s.mem.rx[j].valid
  BY DEF ListEnds
<1> DEFINE R == ReceiveRounds(s)
           Both(n, l) == Received(s, j, n, l) /\ Goes(s, l, r)
           B == {n \in 0 .. NRx + 2 : Both(n, R[n])}
<1>2. /\ R[0] = [s |-> s, start |-> NRx + 1, on |-> TRUE]
      /\ \A n \in 0 .. NRx + 1 : R[n + 1] = ReceiveNext(R[n])
  BY ReceiveLoop
<1> HIDE DEF R
<1>3. 0 \in B
  <2>1. Away(j, s.xq.rba) + 0 = Away(j, s.xq.rba)
    BY DEF Away, Fit, Shaped
  <2>2. R[0].s = s /\ R[0].on = TRUE /\ R[0].start = NRx + 1 /\ DOMAIN R[0] = {"s", "start", "on"}
    BY <1>2
  <2>3. Moves(s, s, r) /\ Quiet(s, s)
    BY MovesSame, QuietSame DEF Fit
  <2> QED BY <2>1, <2>2, <2>3 DEF Received, Goes
<1>4. ASSUME NEW n \in 0 .. (NRx + 2) - 1, n \in B PROVE n + 1 \in B
  <2> DEFINE l == R[n]
             z == ReceiveNext(l)
  <2>1. Both(n, l)
    BY <1>4
  <2> HIDE DEF l
  <2>2. Received(s, j, n + 1, z)
    BY <1>1, <2>1, NextReceived DEF Fit
  <2>3. Goes(s, z, r)
    <3>1. CASE l.on = TRUE
      <4>1. z = ReceiveRound(l)
        BY <3>1 DEF ReceiveNext
      <4>2. l.s.xq.rba \in 0 .. NRx /\ s.xq.rba \in 0 .. NRx
        BY <2>1 DEF Received, Quiet, Shaped, Fit
      <4>3. Away(j, l.s.xq.rba) + n = Away(j, s.xq.rba) /\ l.start = IF n = 0 THEN NRx + 1 ELSE s.xq.rba
        BY <2>1, <3>1 DEF Received
      <4>4. l.s.xq.rba # l.start
        BY <4>2, <4>3 DEF Away
      <4> QED BY <2>1, <3>1, <4>1, <4>4, RoundGoes
    <3>2. CASE l.on = FALSE
      <4>1. z = l
        BY <3>2 DEF ReceiveNext
      <4> QED BY <2>1, <4>1
    <3> QED BY <2>1, <3>1, <3>2 DEF Received
  <2> HIDE DEF z
  <2>4. Both(n + 1, z)
    BY <2>2, <2>3
  <2>5. R[n + 1] = z
    BY <1>2 DEF l, z
  <2> HIDE DEF Both
  <2> QED BY <2>4, <2>5
<1>5. 0 .. NRx + 2 \subseteq B
  <2> HIDE DEF B
  <2> QED BY <1>3, <1>4, Climb
<1> DEFINE l == R[NRx + 2]
<1>6. Received(s, j, NRx + 2, l) /\ Goes(s, l, r)
  BY <1>5
<1>7. Receive(s) = l.s
  BY DEF Receive, R
<1> HIDE DEF l
<1>8. l.on = TRUE => FALSE
  <2> SUFFICES ASSUME l.on = TRUE PROVE FALSE
    OBVIOUS
  <2>1. Away(j, l.s.xq.rba) + (NRx + 2) = Away(j, s.xq.rba)
    BY <1>6 DEF Received
  <2>2. l.s.xq.rba \in 0 .. NRx /\ s.xq.rba \in 0 .. NRx
    BY <1>6 DEF Received, Quiet, Shaped, Fit
  <2> QED BY <2>1, <2>2 DEF Away
<1> QED BY <1>6, <1>7, <1>8 DEF Received, Goes

LEMMA ProcessFares ==
    ASSUME NEW s, Fit(s), ListEnds(s), NEW r \in 0 .. NRx - 1
    PROVE  Fares(s, xq_process_rbdl(s), r)
<1>1. xq_process_rbdl(s) = IF "RL" \notin s.xq.csr THEN Receive(s) ELSE s
  BY DEF xq_process_rbdl, Fit
<1> QED BY <1>1, ReceiveFares, FaresSame

LEMMA PumpFares ==
    ASSUME NEW s, Fit(s), ListEnds(s), NEW r \in 0 .. NRx - 1
    PROVE  Fares(s, Pump(s), r)
<1>1. Pump(s) = xq_process_rbdl(s) \/ Pump(s) = s
  BY DEF Pump
<1> QED BY <1>1, ProcessFares, FaresSame

(* eth_read_all puts the frames into the queue, in either mode.            *)
Takes(s, t) ==
    /\ Steady(s, t)
    /\ t.mem = s.mem
    /\ t.xq.csr = s.xq.csr /\ t.xq.irq = s.xq.irq /\ t.xq.pending = s.xq.pending
    /\ t.xq.rba = s.xq.rba /\ t.xq.rbindx = s.xq.rbindx
    /\ Packed(t.xq)

LEMMA ReadTakes ==
    ASSUME NEW s, Shaped(s), Packed(s.xq)
    PROVE  Takes(s, eth_read_all(s))
<1> DEFINE R == ReadRounds(s)
           N == Len(s.net)
           B == {n \in 0 .. N : Takes(s, R[n])}
<1>0. s.net \in Seq(Frames)
  BY DEF Shaped, Incoming
<1>1. N \in Nat /\ \A n \in 0 .. N - 1 : s.net[n + 1] \in Frames
  BY <1>0
<1>2. R[0] = s /\ \A n \in 0 .. N - 1 : R[n + 1] = xq_read_callback(R[n], s.net[n + 1])
  BY <1>1, ReadLoop
<1> HIDE DEF R, N
<1>3. 0 \in B
  BY <1>1, <1>2, SteadySame DEF Takes
<1>4. ASSUME NEW n \in 0 .. N - 1, n \in B PROVE n + 1 \in B
  <2> DEFINE u == R[n]
             p == s.net[n + 1]
             t == ethq_insert(u, p)
             z == xq_read_callback(u, p)
  <2>1. Takes(s, u) /\ Shaped(u)
    BY <1>4 DEF Takes, Steady, Quiet
  <2>2. p \in Frames
    BY <1>1
  <2> HIDE DEF u, p
  <2>3. CASE p.src = "local"
    <3>1. z = u
      BY <2>3 DEF xq_read_callback
    <3> QED BY <1>1, <1>2, <2>1, <3>1 DEF u, p
  <2>4. CASE p.src # "local"
    <3>1. z = t
      BY <2>4 DEF xq_read_callback
    <3>2. p \in Packets
      BY <2>2, <2>4, Lists DEF Frames, Packets
    <3>3. Calm(u, t) /\ Packed(t.xq)
      BY <2>1, <3>2, InsertCalm, InsertPacked DEF Takes
    <3> HIDE DEF t
    <3>4. Takes(s, t)
      BY <2>1, <3>3, SteadyChain DEF Takes, Calm
    <3> HIDE DEF z
    <3>5. R[n + 1] = z
      BY <1>2 DEF z, u, p
    <3> QED BY <1>1, <3>1, <3>4, <3>5
  <2> QED BY <2>3, <2>4
<1>5. 0 .. N \subseteq B
  <2> HIDE DEF B
  <2> QED BY <1>1, <1>3, <1>4, Climb
<1> DEFINE last == R[N]
           z == [last EXCEPT !.net = <<>>]
<1>6. Takes(s, last)
  BY <1>1, <1>5
<1>7. eth_read_all(s) = z
  BY DEF eth_read_all, R, N
<1> HIDE DEF last
<1>8. z.xq = last.xq /\ z.mem = last.mem /\ z.net = <<>> /\ DOMAIN z = DOMAIN last
  BY <1>6 DEF Takes, Steady, Quiet, Shaped
<1> HIDE DEF z
<1>9. Takes(s, z)
  <2>1. Incoming(<<>>)
    BY DEF Incoming
  <2> QED BY <1>6, <1>8, <2>1 DEF Takes, Steady, Quiet, Shaped, Enabled
<1> QED BY <1>7, <1>9

(* One frame: number id + 1 from the network, or answered.                  *)
LEMMA FrameFlows ==
    ASSUME NEW u, Shaped(u), NEW p \in Frames, NEW D, NEW floor, NEW id \in Nat, NEW o, NEW local,
           Flow(D, u.xq.q, u.xq.loss, floor, Tops(id, o), local),
           IF p.src = "net" THEN p.id = id + 1 ELSE id + 1 \in local,
           NEW t, t = xq_read_callback(u, p), NEW next, next = id + 1
    PROVE  Flow(D, t.xq.q, t.xq.loss, floor, Tops(next, o), local)
<1> DEFINE top == Tops(id, o)
           top2 == Tops(next, o)
<1>1. /\ top.net = id /\ top2.net = next /\ top2.own = top.own /\ top["net"] = id /\ top2["net"] = next
      /\ top["own"] = o /\ top2["own"] = o /\ next \in Nat
  BY DEF Tops
<1>2. Flow(D, u.xq.q, u.xq.loss, floor, top, local)
  OBVIOUS
<1> HIDE DEF top, top2
<1>3. \A x \in Numbered : top[x] \in Nat
  BY <1>2, FlowIs DEF Behind
<1>4. \A x \in Numbered : top2[x] \in Nat /\ top[x] <= top2[x]
  BY <1>1, <1>3 DEF Numbered
<1>5. \A k \in top.net + 1 .. top2.net : k = next
  BY <1>1
<1>6. CASE p.src = "local"
  <2>1. t = u
    BY <1>6 DEF xq_read_callback
  <2>2. \A k \in top.net + 1 .. top2.net : k \in local
    BY <1>5, <1>6
  <2>3. local \subseteq local
    OBVIOUS
  <2>4. Flow(D, u.xq.q, u.xq.loss, floor, top2, local)
    BY <1>2, <1>4, <2>2, <2>3, FlowWiden
  <2> QED BY <2>1, <2>4 DEF top2
<1>7. CASE p.src = "net"
  <2>1. t = ethq_insert(u, p)
    BY <1>7 DEF xq_read_callback
  <2>2. p \in Packets
    BY <1>7, Lists DEF Frames, Packets
  <2>3. p.id = next
    BY <1>7
  <2>4. Admits(top, top2, p)
    BY <1>1, <1>4, <1>5, <1>7, <2>2, <2>3 DEF Admits
  <2>5. Queues(u, t, p)
    BY <2>1, InsertQueues
  <2> QED BY <1>2, <2>4, <2>5, QueuesFlows DEF top2
<1>8. p.src = "local" \/ p.src = "net"
  BY DEF Frames
<1> QED BY <1>6, <1>7, <1>8

LEMMA ReadCarries ==
    ASSUME NEW s, Shaped(s), Packed(s.xq), NEW r
    PROVE  Carries(s, eth_read_all(s), r)
<1> SUFFICES ASSUME NEW w, NEW o, Streams(s, r, w, o) PROVE Streams(eth_read_all(s), r, w, o)
  BY DEF Carries
<1> DEFINE R == ReadRounds(s)
           N == Len(s.net)
           base == w.total - N
<1>1. PICK n : /\ Buffers(s.mem.rx, r, n)
               /\ Flow(Got(w.log, s.mem.rx, r, n), s.xq.q, s.xq.loss, w.floor, Tops(base, o), w.local)
  BY DEF Streams
<1> DEFINE D == Got(w.log, s.mem.rx, r, n)
           Read(k) == /\ Shaped(R[k])
                         /\ Flow(D, R[k].xq.q, R[k].xq.loss, w.floor, Tops(base + k, o), w.local)
           B == {k \in 0 .. N : Read(k)}
<1>2. s.net \in Seq(Frames) /\ w.total \in Nat /\ Stocked(s.net, base, w.local)
  BY DEF Shaped, Incoming, Streams
<1>3. N \in Nat /\ base \in Nat /\ \A k \in 0 .. N - 1 : s.net[k + 1] \in Frames
  BY <1>2 DEF Stocked
<1>4. R[0] = s /\ \A k \in 0 .. N - 1 : R[k + 1] = xq_read_callback(R[k], s.net[k + 1])
  BY <1>3, ReadLoop
<1>5. base + N = w.total
  BY <1>2, <1>3
<1>6. \A k \in 1 .. N : IF s.net[k].src = "net" THEN s.net[k].id = base + k ELSE base + k \in w.local
  BY <1>2 DEF Stocked
<1> HIDE DEF R, N, base, D
<1>7. 0 \in B
  <2>1. base + 0 = base
    BY <1>3
  <2> QED BY <1>1, <1>3, <1>4, <2>1 DEF D
<1>8. ASSUME NEW k \in 0 .. N - 1, k \in B PROVE k + 1 \in B
  <2> DEFINE u == R[k]
             p == s.net[k + 1]
             id == base + k
             next == base + (k + 1)
             t == xq_read_callback(u, p)
  <2>1. Shaped(u) /\ Flow(D, u.xq.q, u.xq.loss, w.floor, Tops(id, o), w.local)
    BY <1>8
  <2>2. p \in Frames /\ id \in Nat /\ next = id + 1 /\ k + 1 \in 0 .. N /\ k + 1 \in 1 .. N
    BY <1>3
  <2>3. IF p.src = "net" THEN p.id = id + 1 ELSE id + 1 \in w.local
    BY <1>6, <2>2
  <2>4. R[k + 1] = t
    BY <1>4
  <2> HIDE DEF u, p, id, next
  <2>5. Shaped(t)
    BY <2>1, InsertCalm DEF xq_read_callback, Calm, Steady, Quiet
  <2> HIDE DEF t
  <2>6. Flow(D, t.xq.q, t.xq.loss, w.floor, Tops(next, o), w.local)
    BY <2>1, <2>2, <2>3, FrameFlows DEF t
  <2> QED BY <2>2, <2>4, <2>5, <2>6 DEF next
<1>9. 0 .. N \subseteq B
  <2> HIDE DEF B
  <2> QED BY <1>3, <1>7, <1>8, Climb
<1>10. Shaped(R[N]) /\ Flow(D, R[N].xq.q, R[N].xq.loss, w.floor, Tops(w.total, o), w.local)
  BY <1>3, <1>5, <1>9
<1> DEFINE z == [R[N] EXCEPT !.net = <<>>]
<1>11. eth_read_all(s) = z
  BY DEF eth_read_all, R, N
<1>12. z.xq = R[N].xq /\ z.net = <<>>
  BY <1>10 DEF Shaped
<1>13. z.mem = s.mem
  BY <1>11, ReadTakes DEF Takes
<1> HIDE DEF z
<1>14. w.total - Len(z.net) = w.total /\ Stocked(z.net, w.total, w.local)
  BY <1>2, <1>12 DEF Stocked
<1>15. w.log \in Seq(Segments)
  BY DEF Streams
<1>16. Streams(z, r, w, o)
  BY <1>1, <1>2, <1>10, <1>12, <1>13, <1>14, <1>15 DEF Streams, D
<1> QED BY <1>11, <1>16

LEMMA ReadFares ==
    ASSUME NEW s, Fit(s), NEW r
    PROVE  Fares(s, eth_read_all(s), r)
<1> DEFINE t == eth_read_all(s)
<1>1. Takes(s, t)
  BY ReadTakes DEF Fit
<1>2. Carries(s, t, r)
  BY ReadCarries DEF Fit
<1> HIDE DEF t
<1>3. Fares(s, t, r)
  BY <1>1, <1>2, FaresCalm DEF Takes, Steady, Quiet
<1> QED BY <1>3 DEF t

LEMMA ActivateEven ==
    ASSUME NEW s, Shaped(s), NEW u
    PROVE  Even(s, Activate(s, u))
BY DEF Activate, Shaped, Registers, Even

LEMMA ActivateFares ==
    ASSUME NEW s, Fit(s), NEW u, u # "Srqr", NEW r \in 0 .. NRx - 1
    PROVE  Fares(s, Activate(s, u), r)
<1> DEFINE t == Activate(s, u)
<1>1. /\ Shaped(t) /\ t.xq.units = s.xq.units \cup {u} /\ t.mem = s.mem
      /\ t.xq.mode = s.xq.mode /\ t.xq.csr = s.xq.csr /\ t.xq.q = s.xq.q
  BY Activated DEF Fit
<1>2. t.xq.irq = s.xq.irq /\ t.xq.rba = s.xq.rba
  BY DEF Activate, Fit, Shaped, Registers
<1>3. Carries(s, t, r)
  BY ActivateEven, EvenCarries DEF Fit
<1> HIDE DEF t
<1>4. Fares(s, t, r)
  BY <1>1, <1>2, <1>3, FaresCalm DEF Fit, Packed
<1> QED BY <1>4 DEF t

LEMMA SvcFares ==
    ASSUME NEW s, Fit(s), ListEnds(s), NEW r \in 0 .. NRx - 1
    PROVE  Fares(s, xq_svc(s), r)
<1> DEFINE a == Pump(s)
           b == eth_read_all(a)
           c == Pump(b)
           t == IF Enabled(s) THEN c ELSE s
           z == Activate(t, "Poll")
<1>1. Usable(s)
  BY DEF Usable, Fit
<1>2. Fares(s, a, r) /\ Quiet(s, a)
  BY <1>1, PumpFares, Pumped
<1> HIDE DEF a
<1>3. Usable(a) /\ Fit(a)
  BY <1>1, <1>2, UsableChain DEF Fares, Follows
<1>4. Fares(a, b, r) /\ Quiet(a, b)
  BY <1>3, ReadFares, ReadQuiet DEF Fit
<1> HIDE DEF b
<1>5. Usable(b) /\ Fit(b)
  BY <1>3, <1>4, UsableChain DEF Fares, Follows
<1>6. Fares(b, c, r)
  BY <1>5, PumpFares DEF Usable, Fit
<1> HIDE DEF c
<1>7. Fares(s, c, r)
  BY <1>2, <1>4, <1>6, FaresChain
<1>8. Fares(s, t, r) /\ Fit(t)
  BY <1>7, FaresSame DEF Fares, Follows
<1>9. xq_svc(s) = IF Turbo(t) THEN t ELSE z
  BY DEF xq_svc, Enabled, Fit, a, b, c
<1> HIDE DEF t
<1>10. Fares(t, z, r)
  BY <1>8, ActivateFares
<1>11. Fares(s, z, r)
  BY <1>8, <1>10, FaresChain
<1> QED BY <1>8, <1>9, <1>11 DEF Fit

(* A new list is given, from the descriptor at which the driver reads on.  *)
Offers(s, z, r) ==
    /\ Fit(z) /\ Readable(z, r)
    /\ z.xq.units \cap {"Srqr"} = s.xq.units \cap {"Srqr"}
    /\ z.mem.tx = s.mem.tx
    /\ z.xq.csr \cap {"IE", "SR", "RE"} = s.xq.csr \cap {"IE", "SR", "RE"}
    /\ s.xq.csr \cap W1 \subseteq z.xq.csr
    /\ \A E : Called(s.xq, E) => Called(z.xq, E)
    /\ Told(z.xq, z.mem.rx)
    /\ "RL" \in z.xq.csr => Ended(z.mem.rx)
    /\ Carries(s, z, r)

LEMMA DispatchOffers ==
    ASSUME NEW s, Fit(s), ListEnds(s), NEW r \in 0 .. NRx - 1, Valid(s.mem.rx, r),
           \A i \in 0 .. NRx - 1 : ~Full(s.mem.rx, i), NEW z, z = xq_dispatch_rbdl(s, r)
    PROVE  Offers(s, z, r) /\ (s.xq.q = <<>> => z.mem = s.mem /\ z.xq.q = <<>>)
<1> DEFINE c == xq_csr_set_clr(s, {}, {"RL"})
           valid == s.mem.rx[r].valid
           t == [c EXCEPT !.xq.rba = r, !.xq.rvalid = valid]
<1>1. CsrWritten(s, {}, {"RL"}, c) /\ \A E : Called(s.xq, E) => Called(c.xq, E)
  <2>1. "IE" \notin {} /\ {"RL"} \cap W1 = {}
    BY DEF W1
  <2> QED BY <2>1, CsrSetClr, CsrCalls DEF Fit
<1>2. z = IF t.xq.q # <<>> THEN xq_process_rbdl(t) ELSE t
  BY DEF xq_dispatch_rbdl
<1>3. Even(s, c)
  BY CsrEven DEF Fit
<1> HIDE DEF c, valid
<1>4. /\ t.mem = c.mem /\ t.net = c.net /\ DOMAIN t = DOMAIN c /\ DOMAIN t.xq = DOMAIN c.xq /\ t.xq.rba = r
      /\ t.xq.mode = c.xq.mode /\ t.xq.units = c.xq.units /\ t.xq.csr = c.xq.csr /\ t.xq.irq = c.xq.irq
      /\ t.xq.q = c.xq.q /\ t.xq.loss = c.xq.loss
  BY <1>1 DEF CsrWritten, Shaped, Registers
<1> HIDE DEF t
<1>5. t.mem = s.mem /\ t.xq.q = s.xq.q /\ t.xq.units = s.xq.units /\ t.xq.csr = s.xq.csr \ {"RL"}
  BY <1>1, <1>4 DEF CsrWritten
<1>6. Fit(t)
  <2>1. r \in 0 .. NRx
    BY Lists
  <2> QED BY <1>1, <1>4, <2>1 DEF CsrWritten, Fit, Shaped, Turbo, Packed
<1>7. ~Ended(t.mem.rx)
  <2>1. ASSUME NEW i \in 0 .. NRx PROVE ~Full(t.mem.rx, i)
    <3>1. i \in 0 .. NRx - 1 \/ i = NRx
      BY Lists
    <3> QED BY <1>5, <3>1 DEF Valid
  <2> QED BY <2>1 DEF Ended
<1>8. Depth(t.xq, r) = 0 /\ \A i \in 0 .. NRx - 1 : Off(i, r) \in 0 .. NRx - 1
  <2>1. r # NRx /\ Off(r, r) = 0
    BY Lists, OffNext
  <2> QED BY <1>4, <2>1, OffNext DEF Depth
<1>9. Readable(t, r)
  <2>1. Ring(t.xq, t.mem.rx, r)
    BY <1>5, <1>8, Lists DEF Ring
  <2>2. Open(t.xq, t.mem.rx, r)
    BY <1>8, Lists DEF Open, AtEnd
  <2> QED BY <2>1, <2>2 DEF Readable
<1>10. ListEnds(t)
  BY <1>5 DEF ListEnds
<1>11. Fares(t, z, r)
  BY <1>2, <1>6, <1>10, ProcessFares, FaresSame
<1>12. Carries(s, z, r)
  <2>1. Even(s, t)
    BY <1>4, <1>3 DEF Even
  <2>2. Carries(t, z, r)
    BY <1>9, <1>11 DEF Fares, Ready
  <2> QED BY <2>1, <2>2, EvenCarries, CarriesChain
<1>13. Offers(s, z, r)
  <2>1. Told(t.xq, t.mem.rx)
    BY <1>7 DEF Told
  <2>2. \A E : Called(s.xq, E) => Called(t.xq, E)
    BY <1>1, <1>4 DEF Called
  <2>3. "RL" \notin t.xq.csr /\ t.xq.csr \cap {"IE", "SR", "RE"} = s.xq.csr \cap {"IE", "SR", "RE"}
    BY <1>5
  <2>4. s.xq.csr \cap W1 \subseteq t.xq.csr \cap {"RI", "XI", "RL"}
    BY <1>5 DEF W1
  <2>5. /\ Fit(z) /\ z.xq.units \cap {"Srqr"} = t.xq.units \cap {"Srqr"} /\ z.mem.tx = t.mem.tx
        /\ z.xq.csr \cap {"IE", "SR", "RE"} = t.xq.csr \cap {"IE", "SR", "RE"}
        /\ t.xq.csr \cap {"RI", "XI", "RL"} \subseteq z.xq.csr
        /\ \A E : Called(t.xq, E) => Called(z.xq, E)
        /\ Told(t.xq, t.mem.rx) => Told(z.xq, z.mem.rx)
    BY <1>11 DEF Fares, Follows
  <2>6. Readable(z, r) /\ ("RL" \in z.xq.csr => Ended(z.mem.rx))
    BY <1>9, <1>11, <2>3 DEF Fares
  <2> QED BY <1>5, <1>12, <2>1, <2>2, <2>3, <2>4, <2>5, <2>6 DEF Offers
<1>14. s.xq.q = <<>> => z.mem = s.mem /\ z.xq.q = <<>>
  BY <1>2, <1>5
<1> QED BY <1>13, <1>14

-----------------------------------------------------------------------------
(* Transmission in normal mode                                             *)

(* An error in the list invalidates both lists, and is told by XI.         *)
Sends(s, t, r) ==
    /\ Follows(s, t)
    /\ Readable(s, r) =>
           /\ Readable(t, r)
           /\ Ended(s.mem.rx) => Ended(t.mem.rx)
           /\ "RL" \in t.xq.csr => "RL" \in s.xq.csr \/ Ended(t.mem.rx) \/ "XI" \in t.xq.csr

LEMMA SendsChain ==
    ASSUME NEW s, NEW t, NEW u, NEW r, Sends(s, t, r), Sends(t, u, r)
    PROVE  Sends(s, u, r)
<1>1. Follows(s, u)
  BY FollowsChain DEF Sends
<1>2. t.xq.csr \cap {"XI"} \subseteq u.xq.csr
  BY DEF Sends, Follows
<1> QED BY <1>1, <1>2 DEF Sends

LEMMA FaresSends ==
    ASSUME NEW s, NEW t, NEW r, Fares(s, t, r)
    PROVE  Sends(s, t, r)
BY DEF Fares, Sends

LEMMA CsrSends ==
    ASSUME NEW s, Fit(s), NEW set, NEW clr, set \subseteq {"XI", "XL", "NI", "RL"}, clr \subseteq {"XL"},
           "RL" \in set => "XI" \in set, NEW z, z = xq_csr_set_clr(s, set, clr), NEW r
    PROVE  Sends(s, z, r) /\ set \ clr \subseteq z.xq.csr
<1>1. "IE" \notin set /\ clr \cap W1 = {}
  BY DEF W1
<1>2. CsrWritten(s, set, clr, z) /\ \A E : Called(s.xq, E) => Called(z.xq, E)
  BY <1>1, CsrSetClr, CsrCalls DEF Fit
<1>3. z.xq.csr = (s.xq.csr \cup set) \ clr /\ z.mem = s.mem /\ z.xq.rba = s.xq.rba /\ z.xq.units = s.xq.units
  BY <1>2 DEF CsrWritten
<1>4. Fit(z)
  BY <1>2 DEF CsrWritten, Fit, Turbo, Packed
<1>5. /\ z.xq.csr \cap {"IE", "SR", "RE"} = s.xq.csr \cap {"IE", "SR", "RE"}
      /\ s.xq.csr \cap {"RI", "XI", "RL"} \subseteq z.xq.csr
  BY <1>3
<1>6. Told(s.xq, s.mem.rx) => Told(z.xq, z.mem.rx)
  BY <1>3, <1>5 DEF Told
<1>7. Follows(s, z)
  BY <1>2, <1>3, <1>4, <1>5, <1>6 DEF Follows
<1>8. Depth(z.xq, r) = Depth(s.xq, r)
  BY <1>3 DEF Depth
<1>9. Readable(s, r) => Readable(z, r)
  BY <1>3, <1>5, <1>8 DEF Readable, Ring, Open, AtEnd
<1>10. "RL" \in z.xq.csr => "RL" \in s.xq.csr \/ "XI" \in z.xq.csr
  BY <1>3
<1>11. Sends(s, z, r)
  BY <1>3, <1>7, <1>9, <1>10 DEF Sends
<1>12. set \ clr \subseteq z.xq.csr
  BY <1>3
<1> QED BY <1>11, <1>12

LEMMA LoopSends ==
    ASSUME NEW s, Fit(s), NEW d, d.pkt \in Packets, NEW r \in 0 .. NRx - 1
    PROVE  Sends(s, LoopBack(s, d), r) /\ "XI" \in LoopBack(s, d).xq.csr
<1> DEFINE p == d.pkt
           a == ethq_insert(s, p)
           t == IF d.setup \/ HasReceiveBuffer(s) THEN a ELSE s
           u == xq_csr_set_clr(t, {"XI"}, {})
           z == Activate(u, "Rcv")
<1>1. LoopBack(s, d) = IF "RL" \notin u.xq.csr THEN z ELSE u
  BY DEF LoopBack
<1>2. Calm(s, a) /\ Packed(a.xq)
  <2> HIDE DEF p
  <2>1. p \in Packets
    BY DEF p
  <2> QED BY <2>1, InsertCalm, InsertPacked DEF Fit
<1> HIDE DEF a
<1>3. Sends(s, a, r)
  BY <1>2, CalmFollows DEF Calm, Steady, Quiet, Sends
<1>4. Sends(s, t, r) /\ Fit(t)
  <2>1. Sends(s, s, r)
    BY FaresSame, FaresSends
  <2> QED BY <1>3, <2>1 DEF Sends, Follows
<1> HIDE DEF t
<1>5. Sends(t, u, r) /\ "XI" \in u.xq.csr
  <2> DEFINE set == {"XI"}
  <2>1. set \subseteq {"XI", "XL", "NI", "RL"} /\ "RL" \notin set /\ {} \subseteq {"XL"}
    OBVIOUS
  <2> HIDE DEF set
  <2>2. Sends(t, xq_csr_set_clr(t, set, {}), r) /\ set \ {} \subseteq xq_csr_set_clr(t, set, {}).xq.csr
    BY <1>4, <2>1, CsrSends
  <2> QED BY <2>2 DEF set
<1> HIDE DEF u
<1>6. Fit(u)
  BY <1>5 DEF Sends, Follows
<1>7. Sends(u, z, r) /\ "XI" \in z.xq.csr
  <2>1. Fares(u, z, r)
    BY <1>6, ActivateFares
  <2> HIDE DEF z
  <2>2. u.xq.csr \cap {"XI"} \subseteq z.xq.csr
    BY <2>1 DEF Fares, Follows
  <2> QED BY <1>5, <2>1, <2>2, FaresSends
<1> HIDE DEF z
<1>8. Sends(s, u, r)
  BY <1>4, <1>5, SendsChain
<1>9. Sends(s, z, r)
  BY <1>7, <1>8, SendsChain
<1> QED BY <1>1, <1>5, <1>7, <1>8, <1>9

(* A list of n descriptors, the last of which ends a packet.               *)
Loaded(tx, n) ==
    /\ n \in 1 .. NTx
    /\ \A i \in 0 .. NTx : (tx[i].valid <=> i < n) /\ (i < n => tx[i].pkt \in Packets)
    /\ tx[n - 1].last

Sending(s, n, k, l, r) ==
    /\ {"s", "i", "on"} \subseteq DOMAIN l
    /\ Sends(s, l.s, r)
    /\ \/ l.on = TRUE /\ l.i = k /\ k <= n /\ (k = n => "XI" \in l.s.xq.csr)
       \/ l.on = FALSE /\ "XI" \in l.s.xq.csr

LEMMA RoundSends ==
    ASSUME NEW s, NEW n, Loaded(s.mem.tx, n), NEW r \in 0 .. NRx - 1, NEW k \in 0 .. NTx, NEW l,
           Sending(s, n, k, l, r), l.on = TRUE, ListEnds(l.s)
    PROVE  Sending(s, n, k + 1, TransmitRound(l), r)
<1> DEFINE t == l.s
           d == t.mem.tx[l.i]
           listed == xq_csr_set_clr(t, {"XL"}, {})
           error == xq_nxm_error(t)
           looped == LoopBack(t, d)
           written == xq_write_callback(t)
           polled == xq_svc(written)
           Leave(u) == [l EXCEPT !.s = u, !.on = FALSE]
           Go(u) == [l EXCEPT !.s = u, !.i = @ + 1]
           m == TransmitRound(l)
<1>1. m = CASE ~d.valid -> Leave(listed)
            [] d.valid /\ d.bad -> Leave(error)
            [] d.valid /\ ~d.bad /\ ~d.last -> Go(t)
            [] d.valid /\ ~d.bad /\ d.last /\ Looped(t, d) -> Go(looped)
            [] OTHER -> Go(polled)
  BY DEF TransmitRound
<1>2. /\ Sends(s, t, r) /\ Fit(t) /\ t.mem.tx = s.mem.tx /\ l.i = k /\ k <= n
      /\ k = n => "XI" \in t.xq.csr
  BY DEF Sending, Sends, Follows
<1>3. /\ d.valid <=> k < n
      /\ k < n => d.pkt \in Packets
      /\ k = n - 1 => d.last
  BY <1>2 DEF Loaded
<1>4. n \in 1 .. NTx
  BY DEF Loaded
<1>5. \A u : Leave(u).s = u /\ Leave(u).on = FALSE /\ DOMAIN Leave(u) = DOMAIN l
  BY DEF Sending
<1>6. \A u : Go(u).s = u /\ Go(u).on = TRUE /\ Go(u).i = k + 1 /\ DOMAIN Go(u) = DOMAIN l
  BY <1>2 DEF Sending
<1> HIDE DEF m, Leave, Go, d
<1>7. ASSUME NEW u, Sends(t, u, r) PROVE Sends(s, u, r) /\ ("XI" \in t.xq.csr => "XI" \in u.xq.csr)
  <2>1. t.xq.csr \cap {"XI"} \subseteq u.xq.csr
    BY <1>7 DEF Sends, Follows
  <2> QED BY <1>2, <1>7, <2>1, SendsChain
<1>8. Sends(t, listed, r)
  <2> DEFINE set == {"XL"}
  <2>1. set \subseteq {"XI", "XL", "NI", "RL"} /\ "RL" \notin set /\ {} \subseteq {"XL"}
    OBVIOUS
  <2> HIDE DEF set, t
  <2>2. Sends(t, xq_csr_set_clr(t, set, {}), r)
    BY <1>2, <2>1, CsrSends
  <2> QED BY <2>2 DEF set
<1>9. Sends(t, error, r) /\ "XI" \in error.xq.csr
  <2> DEFINE set == {"NI", "XI", "XL", "RL"}
  <2>1. set \subseteq {"XI", "XL", "NI", "RL"} /\ "XI" \in set \ {} /\ {} \subseteq {"XL"}
    OBVIOUS
  <2> HIDE DEF set, t
  <2>2. Sends(t, xq_csr_set_clr(t, set, {}), r) /\ set \ {} \subseteq xq_csr_set_clr(t, set, {}).xq.csr
    BY <1>2, <2>1, CsrSends
  <2> QED BY <2>1, <2>2 DEF set, xq_nxm_error
<1>10. k < n => Sends(t, looped, r) /\ "XI" \in looped.xq.csr
  <2> HIDE DEF t
  <2> QED BY <1>2, <1>3, LoopSends
<1>11. Sends(t, written, r) /\ "XI" \in written.xq.csr
  <2> DEFINE set == {"XI"}
  <2>1. set \subseteq {"XI", "XL", "NI", "RL"} /\ "RL" \notin set /\ {} \subseteq {"XL"} /\ "XI" \in set \ {}
    OBVIOUS
  <2> HIDE DEF set, t
  <2>2. Sends(t, xq_csr_set_clr(t, set, {}), r) /\ set \ {} \subseteq xq_csr_set_clr(t, set, {}).xq.csr
    BY <1>2, <2>1, CsrSends
  <2> QED BY <2>1, <2>2 DEF set, xq_write_callback
<1>12. Sends(t, polled, r) /\ "XI" \in polled.xq.csr
  <2>1. Quiet(t, written)
    <3>1. Shaped(t)
      BY <1>2 DEF Fit
    <3> HIDE DEF t
    <3> QED BY <3>1, CsrQuiet DEF xq_write_callback
  <2> HIDE DEF t, written
  <2>2. Fit(written) /\ ListEnds(written)
    <3>1. Usable(t)
      BY <1>2 DEF Usable, Fit, t
    <3>2. Usable(written) /\ Fit(written)
      BY <1>11, <2>1, <3>1, UsableChain DEF Sends, Follows
    <3> QED BY <3>2 DEF Usable, Fit
  <2>3. Fares(written, polled, r)
    BY <2>2, SvcFares
  <2> HIDE DEF polled
  <2>4. written.xq.csr \cap {"XI"} \subseteq polled.xq.csr
    BY <2>3 DEF Fares, Follows
  <2>5. Sends(written, polled, r)
    BY <2>3, FaresSends
  <2> QED BY <1>11, <2>4, <2>5, SendsChain
<1> HIDE DEF listed, error, looped, written, polled, t
<1>13. Sends(s, listed, r) /\ Sends(s, error, r) /\ Sends(s, polled, r) /\ (k < n => Sends(s, looped, r))
  BY <1>7, <1>8, <1>9, <1>10, <1>12
<1>14. \/ m = Leave(listed) /\ ~d.valid
       \/ m = Leave(error)
       \/ m = Go(t) /\ d.valid /\ ~d.last
       \/ m = Go(looped) /\ d.valid
       \/ m = Go(polled) /\ d.valid
  BY <1>1
<1>15. CASE m = Leave(listed) /\ ~d.valid
  <2>1. "XI" \in listed.xq.csr
    BY <1>2, <1>3, <1>4, <1>7, <1>8, <1>15
  <2> QED BY <1>5, <1>13, <1>15, <2>1 DEF Sending, m
<1>16. CASE m = Leave(error)
  BY <1>5, <1>9, <1>13, <1>16 DEF Sending, m
<1>17. CASE m = Go(t) /\ d.valid /\ ~d.last
  <2>1. k + 1 <= n /\ k + 1 # n
    BY <1>3, <1>4, <1>17
  <2> QED BY <1>2, <1>6, <1>17, <2>1 DEF Sending, m
<1>18. CASE m = Go(looped) /\ d.valid
  <2>1. k + 1 <= n /\ k < n
    BY <1>3, <1>4, <1>18
  <2> QED BY <1>6, <1>10, <1>13, <1>18, <2>1 DEF Sending, m
<1>19. CASE m = Go(polled) /\ d.valid
  <2>1. k + 1 <= n
    BY <1>3, <1>4, <1>19
  <2> QED BY <1>6, <1>12, <1>13, <1>19, <2>1 DEF Sending, m
<1> QED BY <1>14, <1>15, <1>16, <1>17, <1>18, <1>19

(* A packet that ends has a lower number than those after it, the last the *)
(* number top.                                                             *)
Numbers(tx, n, top) ==
    /\ top \in Nat /\ tx[n - 1].pkt.id = top
    /\ \A i \in 0 .. n - 1 : tx[i].pkt.src = "own"
    /\ \A j \in 0 .. n - 1 : \A i \in 0 .. j - 1 : tx[i].last => tx[i].pkt.id < tx[j].pkt.id

(* Descriptors k to n - 1 are still to come.                               *)
Orders(u, r, w, tx, n, k, top) ==
    \E o : Streams(u, r, w, o) /\ o <= top /\ \A j \in k .. n - 1 : o < tx[j].pkt.id

Orderly(s, u, r, n, k) ==
    Ready(s, r) =>
        \A w, top : Numbers(s.mem.tx, n, top) /\ Orders(s, r, w, s.mem.tx, n, 0, top) =>
                        Orders(u, r, w, s.mem.tx, n, k, top)

LEMMA OrdersCarry ==
    ASSUME NEW u, NEW v, NEW r, Carries(u, v, r), NEW w, NEW tx, NEW n \in Nat, NEW k \in Nat, NEW top,
           Orders(u, r, w, tx, n, k, top), NEW next, next = k \/ next = k + 1
    PROVE  Orders(v, r, w, tx, n, next, top)
<1>1. PICK o : Streams(u, r, w, o) /\ o <= top /\ \A j \in k .. n - 1 : o < tx[j].pkt.id
  BY DEF Orders
<1>2. next .. n - 1 \subseteq k .. n - 1
  OBVIOUS
<1>3. Streams(v, r, w, o)
  BY <1>1 DEF Carries
<1> QED BY <1>1, <1>2, <1>3 DEF Orders

LEMMA SendsReady ==
    ASSUME NEW s, NEW t, NEW r, Sends(s, t, r), Ready(s, r)
    PROVE  Ready(t, r)
<1>1. s.xq.csr \cap {"RI", "XI", "RL"} \subseteq t.xq.csr
  BY DEF Sends, Follows
<1> QED BY <1>1 DEF Ready, Sends

(* One more of them is put into the read queue.                            *)
LEMMA PutOrders ==
    ASSUME NEW s, Shaped(s), NEW n \in Nat, NEW k \in 0 .. n - 1,
           NEW tx, NEW p, p = tx[k].pkt, p \in Packets, tx[k].last,
           NEW r, NEW w, NEW top, Numbers(tx, n, top), Orders(s, r, w, tx, n, k, top),
           NEW next, next = k + 1
    PROVE  Orders(ethq_insert(s, p), r, w, tx, n, next, top)
<1> DEFINE a == ethq_insert(s, p)
<1>1. PICK o : Streams(s, r, w, o) /\ o <= top /\ \A j \in k .. n - 1 : o < tx[j].pkt.id
  BY DEF Orders
<1>2. /\ p \in Packets /\ p.src = "own" /\ p.id \in Nat /\ top \in Nat /\ o < p.id
      /\ \A j \in next .. n - 1 : p.id < tx[j].pkt.id
      /\ p.id <= top
  <2>1. k \in 0 .. n - 1 /\ k \in k .. n - 1 /\ n - 1 \in 0 .. n - 1
    OBVIOUS
  <2>2. p \in Packets /\ p.src = "own" /\ o < p.id /\ top \in Nat /\ tx[n - 1].pkt.id = top
    BY <1>1, <2>1 DEF Numbers
  <2>3. p.id \in Nat
    BY <2>2 DEF Packets
  <2>4. \A j \in next .. n - 1 : p.id < tx[j].pkt.id
    <3> SUFFICES ASSUME NEW j \in next .. n - 1 PROVE tx[k].pkt.id < tx[j].pkt.id
      OBVIOUS
    <3>1. j \in 0 .. n - 1 /\ k \in 0 .. j - 1
      OBVIOUS
    <3> QED BY <3>1 DEF Numbers
  <2>5. p.id <= top
    <3>1. CASE k = n - 1
      BY <2>2, <2>3, <3>1
    <3>2. CASE k # n - 1
      <4>1. n - 1 \in next .. n - 1
        BY <3>2
      <4>2. p.id < tx[n - 1].pkt.id
        BY <2>4, <4>1
      <4> QED BY <2>2, <2>3, <4>2
    <3> QED BY <3>1, <3>2
  <2> QED BY <2>2, <2>3, <2>4, <2>5
<1>3. Streams(a, r, w, p.id)
  <2> DEFINE low == Tops(w.total - Len(s.net), o)
             high == Tops(w.total - Len(s.net), p.id)
  <2>1. \A x \in Numbered : low[x] \in Nat
    <3>1. PICK m : Flow(Got(w.log, s.mem.rx, r, m), s.xq.q, s.xq.loss, w.floor, low, w.local)
      BY <1>1 DEF Streams
    <3> HIDE DEF low
    <3> QED BY <3>1, FlowIs DEF Behind
  <2>2. /\ high["net"] = low["net"] /\ low["own"] = o /\ high["own"] = p.id /\ low.net \in Nat
        /\ high.net = low.net
    BY <2>1 DEF Tops, Numbered
  <2>3. Admits(low, high, p)
    <3> HIDE DEF low, high
    <3> QED BY <1>2, <2>1, <2>2 DEF Admits, Numbered
  <2> QED BY <1>1, <2>3, InsertStreams
<1> HIDE DEF a
<1> QED BY <1>2, <1>3 DEF Orders, a

LEMMA LoopOrders ==
    ASSUME NEW s, Fit(s), NEW n \in Nat, NEW k \in 0 .. n - 1,
           NEW tx, NEW d, d = tx[k], d.pkt \in Packets, d.last,
           NEW r \in 0 .. NRx - 1, NEW w, NEW top, Numbers(tx, n, top), Orders(s, r, w, tx, n, k, top),
           NEW next, next = k + 1
    PROVE  Orders(LoopBack(s, d), r, w, tx, n, next, top)
<1> DEFINE p == d.pkt
           a == ethq_insert(s, p)
           t == IF d.setup \/ HasReceiveBuffer(s) THEN a ELSE s
           u == xq_csr_set_clr(t, {"XI"}, {})
           z == Activate(u, "Rcv")
<1>1. LoopBack(s, d) = IF "RL" \notin u.xq.csr THEN z ELSE u
  BY DEF LoopBack
<1>2. Fit(a)
  <2> HIDE DEF p
  <2>1. p \in Packets
    BY DEF p
  <2> QED BY <2>1, InsertCalm, InsertPacked DEF Fit, Calm, Steady, Quiet, Turbo
<1>3. Orders(a, r, w, tx, n, next, top)
  BY PutOrders DEF Fit
<1>4. Orders(s, r, w, tx, n, next, top)
  <2>1. k \in Nat /\ Carries(s, s, r)
    BY CarriesSame
  <2> QED BY <2>1, OrdersCarry
<1> HIDE DEF a, p
<1>5. Fit(t) /\ Orders(t, r, w, tx, n, next, top)
  BY <1>2, <1>3, <1>4
<1> HIDE DEF t
<1>6. Carries(t, u, r) /\ Shaped(u)
  <2>1. CsrWritten(t, {"XI"}, {}, u)
    BY <1>5, CsrSetClr DEF Fit
  <2>2. Even(t, u)
    BY <1>5, CsrEven DEF Fit
  <2> QED BY <2>1, <2>2, EvenCarries DEF CsrWritten
<1> HIDE DEF u
<1>7. Carries(u, z, r)
  BY <1>6, ActivateEven, EvenCarries
<1>8. Carries(t, z, r)
  BY <1>6, <1>7, CarriesChain
<1> HIDE DEF z
<1>9. next \in Nat
  OBVIOUS
<1> QED BY <1>1, <1>5, <1>6, <1>8, <1>9, OrdersCarry

LEMMA RoundOrders ==
    ASSUME NEW s, NEW n, Loaded(s.mem.tx, n), NEW r \in 0 .. NRx - 1, NEW k \in 0 .. NTx, NEW l,
           Sending(s, n, k, l, r), l.on = TRUE, ListEnds(l.s), Orderly(s, l.s, r, n, k),
           NEW m, m = TransmitRound(l), NEW next, next = k + 1
    PROVE  Orderly(s, m.s, r, n, next)
<1> DEFINE t == l.s
           d == t.mem.tx[l.i]
           listed == xq_csr_set_clr(t, {"XL"}, {})
           error == xq_nxm_error(t)
           looped == LoopBack(t, d)
           written == xq_write_callback(t)
           polled == xq_svc(written)
           Leave(u) == [l EXCEPT !.s = u, !.on = FALSE]
           Go(u) == [l EXCEPT !.s = u, !.i = @ + 1]
           tx == s.mem.tx
<1>1. m = CASE ~d.valid -> Leave(listed)
            [] d.valid /\ d.bad -> Leave(error)
            [] d.valid /\ ~d.bad /\ ~d.last -> Go(t)
            [] d.valid /\ ~d.bad /\ d.last /\ Looped(t, d) -> Go(looped)
            [] OTHER -> Go(polled)
  BY DEF TransmitRound
<1>2. Sends(s, t, r) /\ Fit(t) /\ t.mem.tx = s.mem.tx /\ l.i = k /\ k <= n
  BY DEF Sending, Sends, Follows
<1>3. /\ n \in 1 .. NTx /\ n \in Nat /\ k \in Nat /\ d = tx[k]
      /\ (d.valid <=> k < n) /\ (k < n => d.pkt \in Packets)
  BY <1>2, Lists DEF Loaded
<1>4. \A u : Leave(u).s = u /\ Go(u).s = u
  BY DEF Sending
<1>5. \/ m.s = listed
      \/ m.s = error
      \/ m.s = t
      \/ m.s = looped /\ d.valid /\ d.last
      \/ m.s = polled
  <2> HIDE DEF Leave, Go, d, listed, error, looped, polled, t
  <2> QED BY <1>1, <1>4
<1> SUFFICES ASSUME Ready(s, r), NEW w, NEW top, Numbers(tx, n, top), Orders(s, r, w, tx, n, 0, top)
             PROVE  Orders(m.s, r, w, tx, n, next, top)
  BY DEF Orderly
<1>6. Orders(t, r, w, tx, n, k, top) /\ Ready(t, r)
  BY <1>2, SendsReady DEF Orderly
<1> HIDE DEF t
<1>7. Carries(t, listed, r) /\ Carries(t, error, r) /\ Carries(t, written, r)
  BY <1>2, CsrEven, EvenCarries DEF Fit, xq_nxm_error, xq_write_callback
<1>8. Carries(t, polled, r)
  <2>1. Quiet(t, written)
    BY <1>2, CsrQuiet DEF xq_write_callback, Fit
  <2>2. Sends(t, written, r)
    <3> DEFINE set == {"XI"}
    <3>1. set \subseteq {"XI", "XL", "NI", "RL"} /\ "RL" \notin set /\ {} \subseteq {"XL"}
      OBVIOUS
    <3> HIDE DEF set
    <3>2. Sends(t, xq_csr_set_clr(t, set, {}), r)
      BY <1>2, <3>1, CsrSends
    <3> QED BY <3>2 DEF set, xq_write_callback
  <2> HIDE DEF written
  <2>3. Fit(written) /\ ListEnds(written)
    <3>1. Usable(t)
      BY <1>2 DEF Usable, Fit, t
    <3>2. Usable(written) /\ Fit(written)
      BY <2>1, <2>2, <3>1, UsableChain DEF Sends, Follows
    <3> QED BY <3>2 DEF Usable, Fit
  <2>4. Ready(written, r)
    BY <1>6, <2>2, SendsReady
  <2>5. Carries(written, polled, r)
    BY <2>3, <2>4, SvcFares DEF Fares
  <2> QED BY <1>7, <2>5, CarriesChain
<1>9. Carries(t, t, r)
  BY CarriesSame
<1>10. d.valid /\ d.last => Orders(looped, r, w, tx, n, next, top)
  <2> SUFFICES ASSUME d.valid, d.last PROVE Orders(looped, r, w, tx, n, next, top)
    OBVIOUS
  <2>1. k \in 0 .. n - 1 /\ d = tx[k] /\ d.pkt \in Packets
    BY <1>3
  <2> HIDE DEF d, tx
  <2> QED BY <1>2, <1>3, <1>6, <2>1, LoopOrders
<1> HIDE DEF listed, error, looped, polled, tx, d
<1>11. \A v : Carries(t, v, r) => Orders(v, r, w, tx, n, next, top)
  BY <1>3, <1>6, OrdersCarry
<1> QED BY <1>5, <1>7, <1>8, <1>9, <1>10, <1>11

LEMMA TransmitSends ==
    ASSUME NEW s, Good(s), Fit(s), NEW n, Loaded(s.mem.tx, n), NEW r \in 0 .. NRx - 1
    PROVE  /\ Sends(s, Transmit(s), r) /\ "XI" \in Transmit(s).xq.csr
           /\ Orderly(s, Transmit(s), r, n, NTx + 1)
<1> USE Lists
<1> DEFINE R == TransmitRounds(s)
           Both(k, l) == Sent(s, l) /\ Sending(s, n, k, l, r) /\ Orderly(s, l.s, r, n, k)
           B == {k \in 0 .. NTx + 1 : Both(k, R[k])}
<1>0. n \in 1 .. NTx
  BY DEF Loaded
<1>1. /\ R[0] = [s |-> s, i |-> 0, on |-> TRUE]
      /\ \A k \in 0 .. NTx : R[k + 1] = TransmitNext(R[k])
  BY TransmitLoop
<1> HIDE DEF R
<1>2. 0 \in B
  <2>1. R[0].s = s /\ R[0].i = 0 /\ R[0].on = TRUE /\ DOMAIN R[0] = {"s", "i", "on"}
    BY <1>1
  <2>2. Serves(s, s)
    BY IntServes
  <2>3. Sends(s, s, r)
    BY FaresSame, FaresSends
  <2>4. Orderly(s, s, r, n, 0)
    BY DEF Orderly
  <2> QED BY <1>0, <2>1, <2>2, <2>3, <2>4 DEF Sent, Sending
<1>3. ASSUME NEW k \in 0 .. (NTx + 1) - 1, k \in B PROVE k + 1 \in B
  <2> DEFINE l == R[k]
             z == TransmitNext(l)
  <2>1. Both(k, l) /\ k \in 0 .. NTx
    BY <1>3
  <2> HIDE DEF l
  <2>2. Both(k + 1, z)
    <3>1. CASE l.on = TRUE
      <4>1. z = TransmitRound(l)
        BY <3>1 DEF TransmitNext
      <4>2. ListEnds(l.s)
        <5>1. Normal(s)
          BY DEF Fit, Shaped, Turbo, Normal
        <5> QED BY <2>1, <5>1 DEF Sent, Serves, Good, Half, Normal
      <4>3. Sent(s, z)
        BY <2>1, <4>1, RoundSent
      <4>4. Sending(s, n, k + 1, z, r)
        BY <2>1, <3>1, <4>1, <4>2, RoundSends
      <4>5. Orderly(s, z.s, r, n, k + 1)
        BY <2>1, <3>1, <4>1, <4>2, RoundOrders
      <4> QED BY <4>3, <4>4, <4>5
    <3>2. CASE l.on = FALSE
      <4>1. z = l
        BY <3>2 DEF TransmitNext
      <4>2. Orderly(s, z.s, r, n, k + 1)
        <5> SUFFICES ASSUME Ready(s, r), NEW w, NEW top, Numbers(s.mem.tx, n, top),
                            Orders(s, r, w, s.mem.tx, n, 0, top)
                     PROVE  Orders(z.s, r, w, s.mem.tx, n, k + 1, top)
          BY DEF Orderly
        <5>1. Orders(z.s, r, w, s.mem.tx, n, k, top)
          BY <2>1, <4>1 DEF Orderly
        <5>2. n \in Nat /\ k \in Nat /\ Carries(z.s, z.s, r)
          BY <1>0, CarriesSame
        <5> QED BY <5>1, <5>2, OrdersCarry
      <4> QED BY <2>1, <3>2, <4>1, <4>2 DEF Sending
    <3> QED BY <2>1, <3>1, <3>2 DEF Sending
  <2> HIDE DEF z
  <2>3. R[k + 1] = z
    BY <1>1, <2>1 DEF l, z
  <2> HIDE DEF Both
  <2> QED BY <2>2, <2>3
<1>4. 0 .. NTx + 1 \subseteq B
  <2> HIDE DEF B
  <2> QED BY <1>2, <1>3, Climb
<1> DEFINE l == R[NTx + 1]
<1>5. Sending(s, n, NTx + 1, l, r) /\ Orderly(s, l.s, r, n, NTx + 1)
  BY <1>4
<1>6. Transmit(s) = l.s
  BY DEF Transmit, R
<1> HIDE DEF l
<1> QED BY <1>0, <1>5, <1>6 DEF Sending

LEMMA DispatchSends ==
    ASSUME NEW s, Good(s), Fit(s), NEW n, Loaded(s.mem.tx, n), NEW r \in 0 .. NRx - 1, NEW z,
           z = xq_dispatch_xbdl(s)
    PROVE  Sends(s, z, r) /\ "XI" \in z.xq.csr /\ Orderly(s, z, r, n, NTx + 1)
<1> DEFINE clr == {"XL"}
           t == xq_csr_set_clr(s, {}, clr)
<1>1. "RE" \notin {} /\ "RE" \notin clr /\ "RL" \notin clr /\ clr \subseteq {"XL"}
      /\ {} \subseteq {"XI", "XL", "NI", "RL"}
  OBVIOUS
<1>2. z = Transmit(t)
  BY DEF xq_dispatch_xbdl
<1> HIDE DEF clr
<1>3. Serves(s, t)
  BY <1>1, CsrServes
<1>4. Sends(s, t, r)
  BY <1>1, CsrSends
<1>5. Carries(s, t, r)
  BY CsrEven, EvenCarries DEF Fit
<1> HIDE DEF t
<1>6. Good(t) /\ Fit(t) /\ t.mem.tx = s.mem.tx
  BY <1>3, <1>4 DEF Serves, Sends, Follows
<1>7. Sends(t, Transmit(t), r) /\ "XI" \in Transmit(t).xq.csr /\ Orderly(t, Transmit(t), r, n, NTx + 1)
  BY <1>6, TransmitSends
<1>8. Orderly(s, z, r, n, NTx + 1)
  <2> SUFFICES ASSUME Ready(s, r), NEW w, NEW top, Numbers(s.mem.tx, n, top),
                      Orders(s, r, w, s.mem.tx, n, 0, top)
               PROVE  Orders(z, r, w, s.mem.tx, n, NTx + 1, top)
    BY DEF Orderly
  <2>1. n \in Nat /\ 0 \in Nat
    BY Lists DEF Loaded
  <2>2. Orders(t, r, w, s.mem.tx, n, 0, top) /\ Ready(t, r)
    BY <1>4, <1>5, <2>1, OrdersCarry, SendsReady
  <2> QED BY <1>2, <1>6, <1>7, <2>2 DEF Orderly
<1> QED BY <1>2, <1>4, <1>7, <1>8, SendsChain

-----------------------------------------------------------------------------
(* The CSR and the resets in normal mode                                   *)

(* The bits of data are those the driver has seen of RI and XI, and the    *)
(* new ones of the rest.                                                   *)
Writes(s, z, data) ==
    /\ Fit(z)
    /\ z.mem = s.mem /\ z.xq.q = s.xq.q /\ z.xq.rba = s.xq.rba
    /\ z.xq.units \cap {"Srqr"} = s.xq.units \cap {"Srqr"}
    /\ z.xq.csr \cap RW = data \cap RW
    /\ z.xq.csr \cap W1 = (s.xq.csr \cap W1) \ data
    /\ "RL" \in z.xq.csr <=> "RL" \in s.xq.csr
    /\ \A E : Called(s.xq, E \cup data) => Called(z.xq, E)
    /\ Even(s, z)

Raises(s, z) ==
    /\ "IE" \in z.xq.csr /\ "IE" \notin s.xq.csr /\ z.xq.csr \cap W1 # {} => z.xq.irq
    /\ "IE" \in z.xq.csr /\ "IE" \in s.xq.csr /\ z.xq.csr \cap W1 # {} /\ s.xq.irq => z.xq.irq

LEMMA CsrRaises ==
    ASSUME NEW s, Shaped(s), ~Turbo(s), NEW set, NEW clr
    PROVE  Raises(s, xq_csr_set_clr(s, set, clr))
<1> DEFINE z == xq_csr_set_clr(s, set, clr)
<1> HIDE DEF z
<1> QED BY CsrTells DEF Raises, z

LEMMA CsrSpares ==
    ASSUME NEW s, NEW z, Raises(s, z), NEW data,
           z.xq.csr \cap W1 = (s.xq.csr \cap W1) \ data, NEW E, Called(s.xq, E \cup data)
    PROVE  Called(z.xq, E)
<1> SUFFICES ASSUME "IE" \in z.xq.csr, ~(z.xq.csr \cap W1 \subseteq E) PROVE z.xq.irq
  BY DEF Called
<1>1. z.xq.csr \cap W1 # {} /\ ~(s.xq.csr \cap W1 \subseteq E \cup data)
  OBVIOUS
<1>2. CASE "IE" \notin s.xq.csr
  BY <1>1, <1>2 DEF Raises
<1>3. CASE "IE" \in s.xq.csr
  <2>1. s.xq.irq
    BY <1>1, <1>3 DEF Called
  <2> QED BY <1>1, <1>3, <2>1 DEF Raises
<1> QED BY <1>2, <1>3

(* The units of the receiver start or stop.                                *)
Restarts(s, u) ==
    /\ Shaped(u) /\ ~Turbo(u) /\ u.mem = s.mem /\ u.xq.csr = s.xq.csr /\ u.xq.q = s.xq.q
    /\ u.xq.units \cap {"Srqr"} = s.xq.units \cap {"Srqr"} /\ u.xq.irq = s.xq.irq /\ u.xq.rba = s.xq.rba
    /\ u.net = s.net /\ u.xq.loss = s.xq.loss

LEMMA CsrRewrites ==
    ASSUME NEW s, Fit(s), NEW u, Restarts(s, u), NEW data, NEW set, set = RW \cap data,
           NEW clr, clr = (RW \cup W1 \cup {"NI"})
                          \ ((RW \cap data) \cup (W1 \ data) \cup IF "XI" \in data THEN {} ELSE {"NI"}),
           NEW v, v = xq_csr_set_clr(u, set, clr)
    PROVE  Writes(s, v, data)
<1>1. Shaped(u) /\ ~Turbo(u) /\ u.mem = s.mem /\ u.xq.csr = s.xq.csr /\ u.xq.q = s.xq.q
      /\ u.xq.units \cap {"Srqr"} = s.xq.units \cap {"Srqr"} /\ u.xq.irq = s.xq.irq /\ u.xq.rba = s.xq.rba
  BY DEF Restarts
<1>2. CsrWritten(u, set, clr, v)
  BY <1>1, CsrSetClr
<1>3. v.xq.csr = (s.xq.csr \cup set) \ clr
  BY <1>1, <1>2 DEF CsrWritten
<1>4. /\ v.xq.csr \cap RW = data \cap RW
      /\ v.xq.csr \cap W1 = (s.xq.csr \cap W1) \ data
      /\ "RL" \in v.xq.csr <=> "RL" \in s.xq.csr
  BY <1>3 DEF RW, W1
<1>5. Fit(v)
  BY <1>1, <1>2 DEF CsrWritten, Fit, Turbo, Packed
<1>6. ASSUME NEW E, Called(s.xq, E \cup data) PROVE Called(v.xq, E)
  <2>1. Called(u.xq, E \cup data) /\ v.xq.csr \cap W1 = (u.xq.csr \cap W1) \ data
    BY <1>1, <1>4, <1>6 DEF Called
  <2>2. Raises(u, v)
    BY <1>1, CsrRaises
  <2> QED BY <2>1, <2>2, CsrSpares
<1>7. Even(s, v)
  <2>1. Even(u, v)
    BY <1>1, CsrEven
  <2> QED BY <2>1 DEF Even, Restarts
<1> QED BY <1>1, <1>2, <1>4, <1>5, <1>6, <1>7 DEF CsrWritten, Writes

LEMMA CsrWrites ==
    ASSUME NEW s, Fit(s), NEW data, NEW set, set = RW \cap data,
           NEW clr, clr = (RW \cup W1 \cup {"NI"})
                          \ ((RW \cap data) \cup (W1 \ data) \cup IF "XI" \in data THEN {} ELSE {"NI"}),
           NEW t, t = (IF "RE" \in data \ s.xq.csr THEN Activate(s, "Start") ELSE s),
           NEW u, u = (IF "RE" \in s.xq.csr \ data THEN xq_stop_receiver(t) ELSE t),
           NEW v, v = xq_csr_set_clr(u, set, clr)
    PROVE  Writes(s, v, data)
<1>1. /\ Requeued(s, IF "RE" \in data \ s.xq.csr THEN s.xq.units \cup {"Start"} ELSE s.xq.units, t)
      /\ t.xq.irq = s.xq.irq /\ t.xq.rba = s.xq.rba /\ t.xq.loss = s.xq.loss
  <2>1. Requeued(s, s.xq.units, s)
    BY DEF Requeued, Fit
  <2> DEFINE a == Activate(s, "Start")
  <2>2. Requeued(s, s.xq.units \cup {"Start"}, a)
    BY Started DEF Fit
  <2>3. a.xq.irq = s.xq.irq /\ a.xq.rba = s.xq.rba /\ a.xq.loss = s.xq.loss
    BY DEF Activate, Fit, Shaped, Registers
  <2> HIDE DEF a
  <2> QED BY <2>1, <2>2, <2>3 DEF a
<1>2. /\ Requeued(t, IF "RE" \in s.xq.csr \ data THEN t.xq.units \ {"Poll", "Start"} ELSE t.xq.units, u)
      /\ u.xq.irq = t.xq.irq /\ u.xq.rba = t.xq.rba /\ u.xq.loss = t.xq.loss
  <2>1. Shaped(t)
    BY <1>1 DEF Requeued
  <2>2. Requeued(t, t.xq.units, t)
    BY <2>1 DEF Requeued
  <2> DEFINE a == xq_stop_receiver(t)
  <2>3. Requeued(t, t.xq.units \ {"Poll", "Start"}, a)
    BY <2>1, ReceiverStopped
  <2>4. a.xq.irq = t.xq.irq /\ a.xq.rba = t.xq.rba /\ a.xq.loss = t.xq.loss
    BY <2>1 DEF xq_stop_receiver, Shaped, Registers
  <2> HIDE DEF a
  <2> QED BY <2>2, <2>3, <2>4 DEF a
<1>3. Restarts(s, u)
  BY <1>1, <1>2 DEF Requeued, Fit, Turbo, Restarts
<1> QED BY <1>3, CsrRewrites

LEMMA WritePlain ==
    ASSUME NEW s, Fit(s), NEW data, "SR" \in s.xq.csr => "SR" \in data, "BD" \notin data, NEW z,
           z = xq_wr_csr(s, data)
    PROVE  Writes(s, z, data)
<1> DEFINE set == RW \cap data
           clr == (RW \cup W1 \cup {"NI"})
                  \ ((RW \cap data) \cup (W1 \ data) \cup IF "XI" \in data THEN {} ELSE {"NI"})
           t == IF "RE" \in data \ s.xq.csr THEN Activate(s, "Start") ELSE s
           u == IF "RE" \in s.xq.csr \ data THEN xq_stop_receiver(t) ELSE t
           v == xq_csr_set_clr(u, set, clr)
<1>1. z = CASE "SR" \in s.xq.csr \ data -> xq_sw_reset(s)
            [] "SR" \notin s.xq.csr \ data /\ {"BD", "EL"} \subseteq v.xq.csr -> xq_process_bootrom(v)
            [] OTHER -> v
  BY DEF xq_wr_csr
<1>2. Writes(s, v, data)
  <2> HIDE DEF set, clr, t, u, v
  <2> QED BY CsrWrites DEF set, clr, t, u, v
<1> HIDE DEF v
<1>3. "BD" \notin v.xq.csr
  BY <1>2 DEF Writes, RW
<1> QED BY <1>1, <1>2, <1>3

LEMMA WriteBoot ==
    ASSUME NEW s, Fit(s), ListEnds(s), "SR" \notin s.xq.csr, NEW z, z = xq_wr_csr(s, {"EL", "BD"}),
           NEW r \in 0 .. NRx - 1
    PROVE  \E v : Writes(s, v, {"EL", "BD"}) /\ Fares(v, z, r)
<1> DEFINE data == {"EL", "BD"}
           set == RW \cap data
           clr == (RW \cup W1 \cup {"NI"})
                  \ ((RW \cap data) \cup (W1 \ data) \cup IF "XI" \in data THEN {} ELSE {"NI"})
           t == IF "RE" \in data \ s.xq.csr THEN Activate(s, "Start") ELSE s
           u == IF "RE" \in s.xq.csr \ data THEN xq_stop_receiver(t) ELSE t
           v == xq_csr_set_clr(u, set, clr)
<1> HIDE DEF data
<1>1. z = CASE "SR" \in s.xq.csr \ data -> xq_sw_reset(s)
            [] "SR" \notin s.xq.csr \ data /\ {"BD", "EL"} \subseteq v.xq.csr -> xq_process_bootrom(v)
            [] OTHER -> v
  BY DEF xq_wr_csr, data
<1>2. Writes(s, v, data)
  <2> HIDE DEF set, clr, t, u, v
  <2> QED BY CsrWrites DEF set, clr, t, u, v
<1> HIDE DEF v
<1>3. {"BD", "EL"} \subseteq v.xq.csr
  BY <1>2 DEF Writes, RW, data
<1> DEFINE p == [src |-> "boot", id |-> 0, size |-> 2]
           w == ethq_insert(v, p)
<1>4. z = xq_process_rbdl(w)
  BY <1>1, <1>3 DEF xq_process_bootrom
<1>5. p \in Packets /\ p.src \notin Numbered
  BY Lists DEF Packets, Numbered
<1> HIDE DEF p
<1>6. Calm(v, w) /\ Packed(w.xq) /\ Carries(v, w, r)
  BY <1>2, <1>5, InsertCalm, InsertPacked, InsertCarries DEF Writes, Fit
<1> HIDE DEF w
<1>7. Fares(v, w, r)
  BY <1>2, <1>6, FaresCalm DEF Calm, Steady, Quiet, Writes
<1>8. ListEnds(w)
  BY <1>2, <1>6 DEF Calm, Writes, ListEnds
<1>9. Fares(w, z, r)
  BY <1>4, <1>7, <1>8, ProcessFares DEF Fares, Follows
<1> QED BY <1>2, <1>7, <1>9, FaresChain DEF data

(* A reset leaves the queue empty and the lists invalid.                   *)
Resets(s, z) ==
    /\ Shaped(z) /\ ~Turbo(z)
    /\ z.xq.q = <<>>
    /\ "RL" \in z.xq.csr
    /\ z.xq.csr \cap (W1 \cup {"IE", "SR", "RE"}) = {}
    /\ z.net = s.net /\ z.xq.loss = s.xq.loss

LEMMA Reset ==
    ASSUME NEW s, Shaped(s), Normal(s), NEW z,
           LET clr == (RW \cup W1 \cup {"NI"}) \ Kept
           IN  z = ethq_clear(xq_clrint(xq_csr_set_clr(s, Kept, clr)))
    PROVE  Resets(s, z)
<1> DEFINE clr == (RW \cup W1 \cup {"NI"}) \ Kept
           u == xq_csr_set_clr(s, Kept, clr)
           v == xq_clrint(u)
<1>1. z = ethq_clear(v)
  OBVIOUS
<1>2. clr = {"EL", "IL", "IE", "BD", "SR", "RE", "RI", "XI", "NI"}
  BY DEF RW, W1, Kept
<1> HIDE DEF clr
<1>3. CsrWritten(s, Kept, clr, u) /\ u.xq.loss = s.xq.loss
  BY CsrTells DEF Normal, Turbo
<1> HIDE DEF u
<1>4. Silent(u, v) /\ v.xq.loss = u.xq.loss
  BY <1>3, ClrIntTells DEF CsrWritten, Alike
<1> HIDE DEF v
<1>5. Shaped(z) /\ z.xq = [v.xq EXCEPT !.q = <<>>] /\ z.net = v.net
  <2>1. z = [v EXCEPT !.xq.q = <<>>] /\ Shaped(v)
    BY <1>1, <1>4 DEF ethq_clear, Silent, Quiet
  <2>2. z.mem = v.mem /\ z.net = v.net /\ DOMAIN z = DOMAIN v /\ z.xq = [v.xq EXCEPT !.q = <<>>]
    BY <2>1 DEF Shaped
  <2> HIDE DEF Resets
  <2>3. DOMAIN z.xq = DOMAIN v.xq /\ z.xq.mode = v.xq.mode /\ z.xq.rba = v.xq.rba
    BY <2>1, <2>2 DEF Shaped, Registers
  <2> QED BY <2>1, <2>2, <2>3 DEF Shaped
<1>6. z.xq.mode = v.xq.mode /\ z.xq.csr = v.xq.csr /\ z.xq.q = <<>> /\ z.xq.loss = v.xq.loss
  BY <1>4, <1>5 DEF Silent, Quiet, Shaped, Registers
<1>7. /\ z.xq.csr = (s.xq.csr \cup Kept) \ clr /\ z.xq.mode = "normal"
      /\ z.net = s.net /\ z.xq.loss = s.xq.loss
  BY <1>3, <1>4, <1>5, <1>6 DEF CsrWritten, Silent, Quiet, Normal
<1> QED BY <1>2, <1>5, <1>6, <1>7 DEF Resets, Turbo, Kept, W1

LEMMA SwResets ==
    ASSUME NEW s, Shaped(s)
    PROVE  Resets(s, xq_sw_reset(s))
<1> DEFINE n == [s EXCEPT !.xq.mode = "normal", !.xq.srr = "none"]
           t == IF Turbo(s) THEN n ELSE s
           clr == (RW \cup W1 \cup {"NI"}) \ Kept
           w == ethq_clear(xq_clrint(xq_csr_set_clr(t, Kept, clr)))
           z == xq_stop_receiver(w)
<1>1. xq_sw_reset(s) = z
  BY DEF xq_sw_reset, Kept
<1>2. Shaped(t) /\ Normal(t) /\ t.net = s.net /\ t.xq.loss = s.xq.loss
  <2>1. Shaped(n) /\ Normal(n) /\ n.net = s.net /\ n.xq.loss = s.xq.loss
    BY DEF Shaped, Registers, Normal
  <2> HIDE DEF n
  <2> QED BY <2>1 DEF Shaped, Normal, Turbo
<1> HIDE DEF t
<1>3. Resets(t, w)
  BY <1>2, Reset
<1> HIDE DEF w
<1>4. Requeued(w, w.xq.units \ {"Poll", "Start"}, z)
  BY <1>3, ReceiverStopped DEF Resets
<1>5. z.xq.loss = w.xq.loss
  BY <1>3 DEF xq_stop_receiver, Resets, Shaped, Registers
<1> HIDE DEF z
<1> QED BY <1>1, <1>2, <1>3, <1>4, <1>5 DEF Resets, Requeued, Turbo

LEMMA BusResets ==
    ASSUME NEW s, Shaped(s)
    PROVE  Resets(s, xq_reset(s))
<1> DEFINE n == [s EXCEPT !.xq.mode = "normal"]
           clr == (RW \cup W1 \cup {"NI"}) \ Kept
           w == ethq_clear(xq_clrint(xq_csr_set_clr(n, Kept, clr)))
           z == [w EXCEPT !.xq.units = @ \ {"Poll", "Start"}]
<1>1. xq_reset(s) = z
  BY DEF xq_reset, Kept
<1>2. Shaped(n) /\ Normal(n) /\ n.net = s.net /\ n.xq.loss = s.xq.loss
  BY DEF Shaped, Registers, Normal
<1> HIDE DEF n
<1>3. Resets(n, w)
  BY <1>2, Reset
<1> HIDE DEF w
<1>4. Requeued(w, w.xq.units \ {"Poll", "Start"}, z)
  BY <1>3, Stopped DEF Resets
<1>5. z.xq.loss = w.xq.loss
  BY <1>3 DEF Resets, Shaped, Registers
<1> HIDE DEF z
<1> QED BY <1>1, <1>2, <1>3, <1>4, <1>5 DEF Resets, Requeued, Turbo

-----------------------------------------------------------------------------
(* The steps in normal mode                                                *)

(* Nothing but the event queue differs.                                    *)
Retimed(s, t) ==
    /\ Shaped(t)
    /\ t.mem = s.mem /\ t.net = s.net
    /\ t.xq.mode = s.xq.mode /\ t.xq.csr = s.xq.csr /\ t.xq.irq = s.xq.irq /\ t.xq.icr = s.xq.icr
    /\ t.xq.pending = s.xq.pending /\ t.xq.srr = s.xq.srr /\ t.xq.loop = s.xq.loop
    /\ t.xq.rba = s.xq.rba /\ t.xq.rvalid = s.xq.rvalid /\ t.xq.q = s.xq.q /\ t.xq.loss = s.xq.loss
    /\ t.xq.rbindx = s.xq.rbindx /\ t.xq.tbindx = s.xq.tbindx

LEMMA Retime ==
    ASSUME NEW s, Shaped(s), NEW U, NEW t, t = [s EXCEPT !.xq.units = U]
    PROVE  Retimed(s, t) /\ t.xq.units = U
<1>1. t.xq = [s.xq EXCEPT !.units = U] /\ t.mem = s.mem /\ t.net = s.net /\ DOMAIN t = DOMAIN s
  BY DEF Shaped
<1> QED BY <1>1 DEF Retimed, Shaped, Registers

LEMMA RetimedKeeps ==
    ASSUME NEW s, NEW t, Retimed(s, t), NEW d, CallPart(s.xq, s.mem.rx, d),
           t.xq.units \cap {"Srqr"} = s.xq.units \cap {"Srqr"}, t.xq.mode = "normal" \/ "Poll" \notin t.xq.units
    PROVE  CallPart(t.xq, t.mem.rx, d)
<1> DEFINE x == s.xq
           y == t.xq
           rx == s.mem.rx
<1>1. /\ y.mode = x.mode /\ y.csr = x.csr /\ y.irq = x.irq /\ y.icr = x.icr /\ y.pending = x.pending
      /\ y.srr = x.srr /\ y.rba = x.rba /\ y.q = x.q /\ y.rbindx = x.rbindx /\ y.tbindx = x.tbindx
      /\ t.mem.rx = rx /\ ("Srqr" \in y.units <=> "Srqr" \in x.units)
  BY DEF Retimed
<1> HIDE DEF x, y, rx
<1>2. CASE x.mode = "normal"
  <2>1. ListInv(x, rx, d)
    BY <1>2 DEF CallPart, x, rx
  <2>2. \A E : Called(y, E) <=> Called(x, E)
    BY <1>1 DEF Called
  <2>3. (Blank(y, rx) <=> Blank(x, rx)) /\ (Rests(y, rx, d) <=> Rests(x, rx, d))
    BY <1>1 DEF Blank, Rests
  <2>4. Reads(y, rx, d) <=> Reads(x, rx, d)
    BY <1>1 DEF Reads, Ring, Open, Depth, AtEnd, Told
  <2> HIDE DEF Called, Blank, Rests, Reads
  <2>5. ListInv(y, rx, d)
    BY <1>1, <2>1, <2>2, <2>3, <2>4 DEF ListInv
  <2> QED BY <1>1, <1>2, <2>5 DEF CallPart, Packed, x, y, rx
<1>3. CASE x.mode # "normal"
  <2>1. RingInv(x, rx, d) /\ "Poll" \notin y.units
    BY <1>1, <1>3 DEF CallPart, x, y, rx
  <2>2. Starting(y, rx, d) <=> Starting(x, rx, d)
    BY <1>1 DEF Starting
  <2>3. Turns(y, rx, d) <=> Turns(x, rx, d)
    BY <1>1 DEF Turns, Circle, Coming
  <2> HIDE DEF Starting, Turns
  <2>4. RingInv(y, rx, d)
    BY <1>1, <2>1, <2>2, <2>3 DEF RingInv
  <2> QED BY <1>1, <1>3, <2>4 DEF CallPart, Packed, x, y, rx
<1> QED BY <1>2, <1>3

(* What a driver relies on outlives a reception.                           *)
LEMMA FaresKeeps ==
    ASSUME NEW s, NEW t, NEW d, d.rix \in 0 .. NRx - 1, ~Turbo(s), s.xq.mode \in {"normal", "turbo"},
           CallPart(s.xq, s.mem.rx, d),
           Fares(s, t, d.rix), d.pc = "down" => t.xq.q = <<>>
    PROVE  CallPart(t.xq, t.mem.rx, d)
<1> DEFINE x == s.xq
           y == t.xq
           rx == s.mem.rx
           ry == t.mem.rx
           r == d.rix
<1>1. ListInv(x, rx, d)
  BY DEF CallPart, Turbo
<1>2. Fit(t) /\ y.mode = "normal"
  BY DEF Fares, Follows, Fit, Turbo, Shaped
<1>3. /\ "Srqr" \in y.units <=> "Srqr" \in x.units
      /\ y.csr \cap {"IE", "SR", "RE"} = x.csr \cap {"IE", "SR", "RE"}
      /\ x.csr \cap {"RI", "XI", "RL"} \subseteq y.csr
      /\ \A E : Called(x, E) => Called(y, E)
      /\ Told(x, rx) => Told(y, ry)
      /\ "RL" \in x.csr => ry = rx /\ y.rba = x.rba /\ y.csr = x.csr
  BY DEF Fares, Follows
<1>4. Ring(x, rx, r) /\ Open(x, rx, r) =>
          /\ Ring(y, ry, r) /\ Open(y, ry, r)
          /\ Ended(rx) => Ended(ry)
          /\ "RL" \in y.csr => "RL" \in x.csr \/ Ended(ry)
  BY DEF Fares, Readable
<1>5. d.pc = "down" => y.q = <<>>
  OBVIOUS
<1> HIDE DEF x, y, rx, ry, r
<1>6. Blank(x, rx) => Blank(y, ry)
  BY <1>3 DEF Blank
<1>7. Rests(x, rx, d) /\ d.pc = "down" => Rests(y, ry, d)
  BY <1>3, <1>5, <1>6 DEF Rests
<1>8. Reads(x, rx, d) => Reads(y, ry, d)
  <2> SUFFICES ASSUME Reads(x, rx, d) PROVE Reads(y, ry, d)
    OBVIOUS
  <2> HIDE DEF Ring, Open, Told, Ended, Full
  <2>1. Ring(x, rx, r) /\ Open(x, rx, r)
    BY DEF Reads, r
  <2>2. Ring(y, ry, r) /\ Open(y, ry, r) /\ (d.pc # "scan" => Told(y, ry))
    BY <1>3, <1>4, <2>1 DEF Reads
  <2>3. d.pc \in Waits /\ "RL" \in y.csr => "XI" \in y.csr \/ Ended(ry)
    BY <1>3, <1>4, <2>1 DEF Reads
  <2>4. d.pc = "relist" /\ "RL" \in y.csr /\ Full(ry, d.rix) => Ended(ry)
    BY <1>3, <1>4, <2>1 DEF Reads
  <2> QED BY <2>2, <2>3, <2>4 DEF Reads, r
<1> HIDE DEF Blank, Rests, Reads
<1>9. ListInv(y, ry, d)
  BY <1>1, <1>3, <1>6, <1>7, <1>8 DEF ListInv
<1>10. d.want \subseteq {"EL", "IL", "IE", "RE"}
  BY DEF CallPart
<1> QED BY <1>2, <1>9, <1>10 DEF CallPart, Fit, y, ry

LEMMA CallParts ==
    /\ CallInv <=> CallPart(xq, mem.rx, drv) /\ Owned(count)
    /\ CallInv' <=> CallPart(xq', mem'.rx, drv') /\ Owned(count')
BY DEF CallInv, CallPart, Packed, ListInv, RingInv, Called, Blank, Rests, Reads, Ring, Valid, Full,
   Depth, Open, AtEnd,
       Told, Ended, Seen, Starting, Turns, Circle, Coming, Some, Owned

LEMMA CallBecomes ==
    ASSUME NEW z, Becomes(z), CallPart(z.xq, z.mem.rx, drv'), Owned(count')
    PROVE  CallInv'
BY CallParts DEF Becomes

DrvFields == {"pc", "want", "seen", "rix", "busy", "tix", "log"}

LEMMA Holds ==
    ASSUME XqInv, CallInv
    PROVE  /\ Shaped(State) /\ Good(State)
           /\ State.xq = xq /\ State.mem = mem /\ State.net = net
           /\ CallPart(xq, mem.rx, drv) /\ Owned(count)
           /\ DrvFields \subseteq DOMAIN drv /\ drv.rix \in 0 .. NRx - 1
           /\ xq.mode \in {"normal", "turbo"}
           /\ drv.want \subseteq {"EL", "IL", "IE", "RE"}
BY StateIs, CallParts, DrvParts DEF XqInv, Good, Half, Shaped, CallPart, DrvPart, DrvFields

LEMMA HoldsNormal ==
    ASSUME XqInv, CallInv, xq.mode = "normal"
    PROVE  Fit(State) /\ ListEnds(State) /\ ListInv(xq, mem.rx, drv)
BY Holds DEF Good, Half, Normal, Fit, Turbo, CallPart

(* The unit that is served is out of the queue.                            *)
LEMMA TakenHolds ==
    ASSUME XqInv, CallInv, NEW u, NEW a, a = [State EXCEPT !.xq.units = @ \ {u}], u # "Srqr"
    PROVE  Retimed(State, a) /\ a.xq.units = xq.units \ {u} /\ CallPart(a.xq, a.mem.rx, drv)
<1> DEFINE U == xq.units \ {u}
<1>1. Shaped(State) /\ State.xq = xq /\ State.mem = mem /\ CallPart(xq, mem.rx, drv)
  BY Holds
<1>2. a = [State EXCEPT !.xq.units = U]
  BY <1>1
<1>3. U \cap {"Srqr"} = xq.units \cap {"Srqr"}
  OBVIOUS
<1>4. xq.mode = "normal" \/ "Poll" \notin U
  BY <1>1 DEF CallPart, RingInv
<1> HIDE DEF U
<1>5. Retimed(State, a) /\ a.xq.units = U
  BY <1>1, <1>2, Retime
<1>6. /\ CallPart(State.xq, State.mem.rx, drv)
      /\ a.xq.units \cap {"Srqr"} = State.xq.units \cap {"Srqr"}
      /\ a.xq.mode = "normal" \/ "Poll" \notin a.xq.units
  BY <1>1, <1>3, <1>4, <1>5 DEF Retimed
<1> HIDE DEF CallPart
<1>7. CallPart(a.xq, a.mem.rx, drv)
  BY <1>5, <1>6, RetimedKeeps
<1> QED BY <1>5, <1>7 DEF U

LEMMA CallPoll == ASSUME XqInv, CallInv, PollSvc PROVE CallInv'
<1> DEFINE a == [State EXCEPT !.xq.units = @ \ {"Poll"}]
           z == xq_svc(a)
<1>1. Becomes(z) /\ UNCHANGED <<drv, count>> /\ "Poll" \in xq.units
  BY DEF PollSvc, Service
<1>2. xq.mode = "normal"
  BY <1>1, Holds DEF CallPart, RingInv
<1>3. Retimed(State, a) /\ CallPart(a.xq, a.mem.rx, drv)
  BY TakenHolds
<1> HIDE DEF a
<1>4. Fit(a) /\ ListEnds(a) /\ a.xq.mode = "normal"
  BY <1>2, <1>3, Holds, HoldsNormal DEF Fit, Retimed, ListEnds, Turbo, Packed
<1>5. drv.rix \in 0 .. NRx - 1 /\ Owned(count)
  BY Holds
<1>6. Fares(a, z, drv.rix)
  BY <1>4, <1>5, SvcFares
<1>7. drv.pc = "down" => z.xq.q = <<>>
  <2> SUFFICES ASSUME drv.pc = "down" PROVE z.xq.q = <<>>
    OBVIOUS
  <2>1. Rests(a.xq, a.mem.rx, drv)
    BY <1>3, <1>4 DEF CallPart, ListInv
  <2>2. "RE" \notin a.xq.csr /\ ~Turbo(a) /\ a.xq.q = <<>>
    BY <1>4, <2>1 DEF Rests, Turbo
  <2>3. z = Activate(a, "Poll")
    BY <2>2 DEF xq_svc
  <2> HIDE DEF z
  <2> QED BY <1>4, <2>2, <2>3, Activated DEF Fit
<1> HIDE DEF z
<1>8. CallPart(z.xq, z.mem.rx, drv)
  BY <1>3, <1>4, <1>5, <1>6, <1>7, FaresKeeps DEF Turbo
<1> QED BY <1>1, <1>5, <1>8, CallBecomes

LEMMA CallStart == ASSUME XqInv, CallInv, xq_startsvc PROVE CallInv'
<1> DEFINE a == [State EXCEPT !.xq.units = @ \ {"Start"}]
           b == Activate(a, "Poll")
           z == xq_start_receiver(a)
<1>1. Becomes(z) /\ UNCHANGED <<drv, count>>
  BY DEF xq_startsvc, Service
<1>2. Retimed(State, a) /\ CallPart(a.xq, a.mem.rx, drv)
  BY TakenHolds
<1>3. z = IF Turbo(a) THEN a ELSE b
  BY DEF xq_start_receiver
<1> HIDE DEF a, z
<1>4. Owned(count) /\ Shaped(a) /\ a.xq.mode \in {"normal", "turbo"}
  BY <1>2, Holds DEF Retimed, Shaped
<1> DEFINE U == a.xq.units \cup {"Poll"}
<1>5. b = [a EXCEPT !.xq.units = U]
  BY DEF Activate
<1>6. U \cap {"Srqr"} = a.xq.units \cap {"Srqr"}
  OBVIOUS
<1> HIDE DEF b, U
<1>7. Retimed(a, b) /\ b.xq.units = U
  BY <1>4, <1>5, Retime
<1>8. ~Turbo(a) => CallPart(b.xq, b.mem.rx, drv)
  BY <1>2, <1>4, <1>6, <1>7, RetimedKeeps DEF Retimed, Turbo
<1>9. CallPart(z.xq, z.mem.rx, drv)
  BY <1>2, <1>3, <1>8
<1> QED BY <1>1, <1>4, <1>9, CallBecomes

LEMMA CallReceiveList == ASSUME XqInv, CallInv, xq.mode = "normal", xq_receivesvc PROVE CallInv'
<1> DEFINE a == [State EXCEPT !.xq.units = @ \ {"Rcv"}]
           z == xq_process_rbdl(a)
<1>1. Becomes(z) /\ UNCHANGED <<drv, count>>
  BY DEF xq_receivesvc, Service
<1>2. Retimed(State, a) /\ CallPart(a.xq, a.mem.rx, drv)
  BY TakenHolds
<1> HIDE DEF a
<1>3. Fit(a) /\ ListEnds(a) /\ a.xq.mode = "normal"
  BY <1>2, Holds, HoldsNormal DEF Fit, Retimed, ListEnds, Turbo, Packed
<1>4. drv.rix \in 0 .. NRx - 1 /\ Owned(count)
  BY Holds
<1>5. Fares(a, z, drv.rix)
  BY <1>3, <1>4, ProcessFares
<1>6. drv.pc = "down" => z.xq.q = <<>>
  <2> SUFFICES ASSUME drv.pc = "down" PROVE z.xq.q = <<>>
    OBVIOUS
  <2>1. Rests(a.xq, a.mem.rx, drv)
    BY <1>2, <1>3 DEF CallPart, ListInv
  <2>2. "RL" \in a.xq.csr /\ ~Turbo(a) /\ a.xq.q = <<>>
    BY <1>3, <2>1 DEF Rests, Blank, Turbo
  <2> QED BY <2>2 DEF xq_process_rbdl
<1> HIDE DEF z
<1>7. CallPart(z.xq, z.mem.rx, drv)
  BY <1>2, <1>3, <1>4, <1>5, <1>6, FaresKeeps DEF Turbo
<1> QED BY <1>1, <1>4, <1>7, CallBecomes

(* A request of the turbo mode that a reset of the bus has overtaken: an   *)
(* interrupt for a driver that starts anew, and the receiver.              *)
LEMMA SrqrCalls ==
    ASSUME NEW s, Shaped(s), ~Turbo(s), NEW z, z = xq_wr_srqr_action(s)
    PROVE  /\ z.mem = s.mem /\ z.xq.mode = s.xq.mode /\ z.xq.csr = s.xq.csr /\ z.xq.q = s.xq.q
           /\ z.xq.irq
           /\ z.xq.units \subseteq s.xq.units \cup {"Poll"}
           /\ z.xq.rba = s.xq.rba /\ Even(s, z)
<1> DEFINE Same(t) == /\ Shaped(t) /\ ~Turbo(t) /\ t.mem = s.mem /\ t.xq.mode = s.xq.mode
                      /\ t.xq.csr = s.xq.csr /\ t.xq.q = s.xq.q /\ t.xq.units \subseteq s.xq.units \cup {"Poll"}
                      /\ t.net = s.net /\ t.xq.loss = s.xq.loss /\ t.xq.rba = s.xq.rba
           a == [s EXCEPT !.xq.icr = TRUE, !.xq.rbindx = 0, !.xq.tbindx = 0]
           b == xq_start_receiver(a)
           c == xq_stop_receiver(s)
<1>1. Same(s)
  OBVIOUS
<1>2. Same(a)
  <2>1. /\ a.xq = [s.xq EXCEPT !.icr = TRUE, !.rbindx = 0, !.tbindx = 0]
        /\ a.mem = s.mem /\ a.net = s.net /\ DOMAIN a = DOMAIN s
    BY DEF Shaped
  <2> HIDE DEF a
  <2> QED BY <2>1 DEF Shaped, Registers, Turbo
<1> HIDE DEF a
<1>3. Same(b)
  <2> DEFINE U == a.xq.units \cup {"Poll"}
  <2>1. b = [a EXCEPT !.xq.units = U]
    BY <1>2 DEF xq_start_receiver, Activate
  <2> HIDE DEF b, U
  <2>2. Retimed(a, b) /\ b.xq.units = U
    BY <1>2, <2>1, Retime
  <2> QED BY <1>2, <2>2 DEF Retimed, Turbo, U
<1>4. Same(c)
  <2> DEFINE U == s.xq.units \ {"Poll", "Start"}
             v == [s EXCEPT !.xq.units = U]
  <2>1. Retimed(s, v) /\ v.xq.units = U
    <3> HIDE DEF U
    <3> QED BY Retime
  <2>2. c = v
    BY DEF xq_stop_receiver
  <2> HIDE DEF c, v
  <2> QED BY <2>1, <2>2 DEF Retimed, Turbo
<1>5. PICK t : Same(t) /\ z = xq_setint(t)
  <2> HIDE DEF Same, b, c
  <2> QED BY <1>1, <1>3, <1>4 DEF xq_wr_srqr_action, a, b, c
<1>6. Silent(t, z) /\ z.xq.irq /\ z.xq.loss = t.xq.loss
  BY <1>5, SetIntTells DEF Alike
<1> QED BY <1>5, <1>6 DEF Silent, Quiet, Even

LEMMA CallSrqrList == ASSUME XqInv, CallInv, xq.mode = "normal", xq_srqrsvc PROVE CallInv'
<1> DEFINE U == xq.units \ {"Srqr"}
           a == [State EXCEPT !.xq.units = @ \ {"Srqr"}]
           z == xq_wr_srqr_action(a)
<1>1. Becomes(z) /\ UNCHANGED <<drv, count>> /\ "Srqr" \in xq.units
  BY DEF xq_srqrsvc, Service
<1>2. Shaped(State) /\ State.xq = xq /\ State.mem = mem /\ Owned(count) /\ CallPart(xq, mem.rx, drv)
  BY Holds
<1>3. a = [State EXCEPT !.xq.units = U]
  BY <1>2
<1>4. "Srqr" \notin U
  OBVIOUS
<1> HIDE DEF a, U
<1>5. Retimed(State, a) /\ a.xq.units = U
  BY <1>2, <1>3, Retime
<1>6. Shaped(a) /\ ~Turbo(a) /\ a.xq.mode = "normal" /\ a.xq.csr = xq.csr /\ a.xq.q = xq.q /\ a.mem = mem
  BY <1>2, <1>5 DEF Retimed, Turbo
<1>7. /\ z.mem = mem /\ z.xq.mode = "normal" /\ z.xq.csr = xq.csr /\ z.xq.q = xq.q
      /\ z.xq.irq /\ "Srqr" \notin z.xq.units
  BY <1>4, <1>5, <1>6, SrqrCalls
<1>8. ListInv(xq, mem.rx, drv) /\ drv.pc \in {"down", "resetting"}
  BY <1>1, HoldsNormal DEF ListInv
<1> HIDE DEF z
<1>9. ListInv(z.xq, mem.rx, drv)
  BY <1>7, <1>8 DEF ListInv, Rests, Blank, Called, Waits
<1>10. CallPart(z.xq, z.mem.rx, drv)
  BY <1>2, <1>7, <1>9 DEF CallPart, Packed
<1> QED BY <1>1, <1>2, <1>10, CallBecomes

LEMMA CallArrive == ASSUME XqInv, CallInv, Arrive PROVE CallInv'
<1>1. UNCHANGED <<xq, mem, drv>> /\ count'.own = count.own /\ "own" \in DOMAIN count'
  BY Holds DEF Arrive, Owned
<1> QED BY <1>1, Holds, CallParts DEF Owned

LEMMA CallReadCsr == ASSUME XqInv, CallInv, ReadCsr PROVE CallInv'
<1> DEFINE seen == xq.csr \cap W1
<1>1. /\ drv' = [drv EXCEPT !.pc = "write", !.seen = seen]
      /\ UNCHANGED <<xq, mem, count>> /\ xq.mode = "normal" /\ drv.pc = "ack"
  BY DEF ReadCsr
<1>2. ListInv(xq, mem.rx, drv) /\ CallPart(xq, mem.rx, drv) /\ Owned(count) /\ DrvFields \subseteq DOMAIN drv
  BY <1>1, Holds, HoldsNormal
<1>3. Called(xq, seen) /\ seen \subseteq W1
  BY DEF Called
<1> HIDE DEF seen
<1>4. /\ drv'.pc = "write" /\ drv'.seen = seen /\ drv'.want = drv.want /\ drv'.rix = drv.rix
      /\ drv'.busy = drv.busy /\ drv'.tix = drv.tix
  BY <1>1, <1>2 DEF DrvFields
<1>5. Reads(xq, mem.rx, drv')
  BY <1>1, <1>2, <1>4 DEF ListInv, Reads, Waits
<1> HIDE DEF Called, Reads
<1>6. ListInv(xq, mem.rx, drv')
  BY <1>1, <1>2, <1>3, <1>4, <1>5 DEF ListInv, Waits, Seen
<1>7. CallPart(xq, mem.rx, drv')
  BY <1>1, <1>2, <1>4, <1>6 DEF CallPart
<1> QED BY <1>1, <1>2, <1>7, CallParts

(* The driver writes what it has seen of RI and XI, and what it wants.     *)
LEMMA CallAcknowledgeList ==
    ASSUME XqInv, CallInv, xq.mode = "normal", Acknowledge
    PROVE  CallInv'
<1> DEFINE s == State
           data == drv.want \cup drv.seen
           z == xq_wr_csr(s, data)
           busy == drv.busy /\ ~(xq.mode = "turbo" \/ "XI" \in drv.seen)
<1>1. /\ drv.pc = "write" /\ Becomes(z)
      /\ drv' = [drv EXCEPT !.pc = "scan", !.busy = busy] /\ UNCHANGED count
  BY DEF Acknowledge
<1>2. ListInv(xq, mem.rx, drv) /\ CallPart(xq, mem.rx, drv) /\ Owned(count) /\ DrvFields \subseteq DOMAIN drv
      /\ s.xq = xq /\ s.mem = mem /\ Fit(s) /\ drv.want \subseteq {"EL", "IL", "IE", "RE"}
  BY Holds, HoldsNormal
<1>3. busy => drv.busy /\ "XI" \notin drv.seen
  OBVIOUS
<1> HIDE DEF s, z, busy
<1>4. drv.seen \subseteq W1 /\ "SR" \notin xq.csr /\ Called(xq, drv.seen)
  BY <1>1, <1>2 DEF ListInv, Seen
<1>5. "BD" \notin data /\ "SR" \notin data /\ drv.seen \subseteq data /\ (busy => "XI" \notin data)
  BY <1>2, <1>3, <1>4 DEF W1
<1> HIDE DEF data
<1>6. Writes(s, z, data)
  BY <1>2, <1>4, <1>5, WritePlain DEF z
<1>7. Called(xq, {} \cup data)
  BY <1>4, <1>5 DEF Called
<1>8. Called(z.xq, {})
  BY <1>2, <1>6, <1>7 DEF Writes
<1>9. "SR" \notin z.xq.csr
  BY <1>5, <1>6 DEF Writes, RW
<1>10. busy => "XI" \in z.xq.csr
  BY <1>1, <1>2, <1>3, <1>5, <1>6 DEF Writes, W1, ListInv
<1>11. "Srqr" \notin z.xq.units
  BY <1>1, <1>2, <1>6 DEF Writes, ListInv
<1>12. /\ drv'.pc = "scan" /\ drv'.want = drv.want /\ drv'.rix = drv.rix /\ drv'.busy = busy
  BY <1>1, <1>2 DEF DrvFields
<1>13. Reads(z.xq, z.mem.rx, drv')
  <2>1. Ring(xq, mem.rx, drv.rix) /\ Open(xq, mem.rx, drv.rix)
    BY <1>1, <1>2 DEF ListInv, Reads, Waits
  <2>2. z.mem.rx = mem.rx /\ z.xq.rba = xq.rba /\ ("RL" \in z.xq.csr <=> "RL" \in xq.csr)
    BY <1>2, <1>6 DEF Writes
  <2>3. Ring(z.xq, z.mem.rx, drv.rix) /\ Open(z.xq, z.mem.rx, drv.rix)
    BY <2>1, <2>2 DEF Ring, Open, Depth, AtEnd
  <2> HIDE DEF Ring, Open
  <2> QED BY <1>12, <2>3 DEF Reads, Waits
<1> HIDE DEF Called, Reads
<1>14. ListInv(z.xq, z.mem.rx, drv')
  BY <1>8, <1>9, <1>10, <1>11, <1>12, <1>13 DEF ListInv, Waits, Seen
<1>15. CallPart(z.xq, z.mem.rx, drv')
  BY <1>2, <1>6, <1>12, <1>14 DEF CallPart, Writes, Fit, Turbo, Shaped
<1> QED BY <1>1, <1>2, <1>15, CallBecomes

LEMMA Emptied ==
    ASSUME NEW x, NEW rx, NEW r \in 0 .. NRx - 1, Ring(x, rx, r), x.rba \in 0 .. NRx, ~Full(rx, r)
    PROVE  Depth(x, r) = 0 /\ \A i \in 0 .. NRx - 1 : ~Full(rx, i)
<1> DEFINE b == IF x.rba = NRx THEN 0 ELSE x.rba
<1>0. b \in 0 .. NRx - 1
  BY Lists
<1>1. Off(r, r) = 0
  BY Lists, OffNext
<1>2. Depth(x, r) \in 0 .. NRx - 1
  <2> HIDE DEF b
  <2>1. Off(b, r) \in 0 .. NRx - 1
    BY <1>0, OffNext
  <2> QED BY <2>1 DEF Depth, b
<1>3. ~(0 < Depth(x, r))
  BY <1>1 DEF Ring
<1>4. Depth(x, r) = 0
  BY <1>2, <1>3, Lists
<1>5. ASSUME NEW i \in 0 .. NRx - 1 PROVE ~Full(rx, i)
  <2>1. Off(i, r) \in 0 .. NRx - 1
    BY OffNext
  <2>2. ~(Off(i, r) < Depth(x, r))
    BY <1>4, <2>1, Lists
  <2> QED BY <2>2 DEF Ring
<1> QED BY <1>4, <1>5

LEMMA CallEndScanList == ASSUME XqInv, CallInv, xq.mode = "normal", EndScan PROVE CallInv'
<1>1. /\ drv' = [drv EXCEPT !.pc = "relist"] /\ UNCHANGED <<xq, mem, count>>
      /\ drv.pc = "scan" /\ ~Full(mem.rx, drv.rix)
  BY DEF EndScan, Full
<1>2. ListInv(xq, mem.rx, drv) /\ CallPart(xq, mem.rx, drv) /\ Owned(count) /\ DrvFields \subseteq DOMAIN drv
      /\ drv.rix \in 0 .. NRx - 1 /\ xq.rba \in 0 .. NRx
  BY <1>1, Holds, HoldsNormal DEF Shaped
<1>3. drv'.pc = "relist" /\ drv'.want = drv.want /\ drv'.rix = drv.rix /\ drv'.busy = drv.busy
  BY <1>1, <1>2 DEF DrvFields
<1>4. Ring(xq, mem.rx, drv.rix) /\ Open(xq, mem.rx, drv.rix) /\ ~Full(mem.rx, NRx)
  BY <1>1, <1>2 DEF ListInv, Reads, Ring, Valid
<1>5. \A i \in 0 .. NRx - 1 : ~Full(mem.rx, i)
  BY <1>1, <1>2, <1>4, Emptied
<1>6. ~Ended(mem.rx)
  BY <1>4, <1>5, Lists DEF Ended
<1>7. Reads(xq, mem.rx, drv')
  <2> HIDE DEF Ring, Open, Full, Ended
  <2> QED BY <1>1, <1>3, <1>4, <1>6 DEF Reads, Told, Waits
<1> HIDE DEF Reads
<1>8. ListInv(xq, mem.rx, drv')
  BY <1>1, <1>2, <1>3, <1>7 DEF ListInv, Waits, Seen
<1>9. CallPart(xq, mem.rx, drv')
  BY <1>1, <1>2, <1>3, <1>8 DEF CallPart
<1> QED BY <1>1, <1>2, <1>9, CallParts

(* The buffer after another in a ring, and the one before it.              *)
LEMMA Around ==
    ASSUME NEW n \in Nat, n > 0, NEW i \in 0 .. n - 1
    PROVE  /\ (i + 1) % n = IF i + 1 = n THEN 0 ELSE i + 1
           /\ (i + n - 1) % n = IF i = 0 THEN n - 1 ELSE i - 1
<1>1. (i + 1) % n = IF i + 1 = n THEN 0 ELSE i + 1
  OBVIOUS
<1>2. (i + n - 1) % n = IF i = 0 THEN n - 1 ELSE i - 1
  OBVIOUS
<1> QED BY <1>1, <1>2

(* How far the others are from the next of r and from the last, h.         *)
Passes(r, next, h) ==
    /\ next \in 0 .. NRx - 1 /\ h \in 0 .. NRx - 1 /\ h # r
    /\ \A i \in 0 .. NRx - 1 :
           /\ Off(i, r) \in 0 .. NRx - 1
           /\ Off(i, r) = 0 <=> i = r
           /\ Off(i, r) = NRx - 1 <=> i = h
           /\ Off(i, next) = IF i = r THEN NRx - 1 ELSE Off(i, r) - 1

LEMMA Passing ==
    ASSUME NEW r \in 0 .. NRx - 1
    PROVE  Passes(r, (r + 1) % NRx, (r + NRx - 1) % NRx)
<1> DEFINE next == IF r + 1 = NRx THEN 0 ELSE r + 1
           h == IF r = 0 THEN NRx - 1 ELSE r - 1
<1>1. (r + 1) % NRx = next /\ (r + NRx - 1) % NRx = h
  BY Lists, Around
<1>2. Passes(r, next, h)
  BY Lists DEF Passes, Off
<1> HIDE DEF next, h
<1> QED BY <1>1, <1>2

(* The driver has read descriptor r and goes to the next.                  *)
Exchanged(rx, ry, r, h) ==
    /\ ~Full(ry, r) /\ ~ry[r].valid
    /\ ~Full(ry, h) /\ ry[h].valid
    /\ \A i \in 0 .. NRx : i \notin {r, h} => ry[i] = rx[i]

LEMMA Exchange ==
    ASSUME NEW rx, DOMAIN rx = 0 .. NRx, NEW r \in 0 .. NRx, NEW h \in 0 .. NRx, h # r,
           NEW ry, ry = [rx EXCEPT ![h] = Buffer(TRUE), ![r] = Buffer(FALSE)]
    PROVE  Exchanged(rx, ry, r, h)
<1>1. Buffer(TRUE).valid = TRUE /\ Buffer(FALSE).valid = FALSE /\ Buffer(TRUE).st = Free
      /\ Buffer(FALSE).st = Free
  BY DEF Buffer
<1>2. ry[r] = Buffer(FALSE) /\ ry[h] = Buffer(TRUE) /\ \A i \in 0 .. NRx : i \notin {r, h} => ry[i] = rx[i]
  OBVIOUS
<1> QED BY <1>1, <1>2 DEF Exchanged, Full

LEMMA ReadMoves ==
    ASSUME NEW x, NEW rx, NEW r \in 0 .. NRx - 1, Ring(x, rx, r), Open(x, rx, r), x.rba \in 0 .. NRx,
           Full(rx, r),
           NEW next, NEW h, Passes(r, next, h), NEW ry, Exchanged(rx, ry, r, h)
    PROVE  Ring(x, ry, next) /\ Open(x, ry, next)
<1> USE Lists
<1> DEFINE b == IF x.rba = NRx THEN 0 ELSE x.rba
           d == Depth(x, r)
<1>1. b \in 0 .. NRx - 1
  OBVIOUS
<1>2. d = Off(b, r) /\ Depth(x, next) = Off(b, next)
  BY DEF Depth
<1>3. next \in 0 .. NRx - 1 /\ h \in 0 .. NRx - 1 /\ h # r /\ r \in 0 .. NRx
  BY DEF Passes
<1>4. ASSUME NEW i \in 0 .. NRx - 1
      PROVE  /\ Off(i, r) \in 0 .. NRx - 1
             /\ Off(i, r) = 0 <=> i = r
             /\ Off(i, r) = NRx - 1 <=> i = h
             /\ Off(i, next) = IF i = r THEN NRx - 1 ELSE Off(i, r) - 1
  BY DEF Passes
<1> HIDE DEF b, d
<1>5. d \in 1 .. NRx - 1 /\ Depth(x, next) = d - 1
  <2>1. 0 < d
    <3>1. Off(r, r) = 0 /\ Off(r, r) < d
      BY <1>4 DEF Ring, d
    <3> QED BY <3>1
  <2>2. b # r /\ d \in 0 .. NRx - 1
    BY <1>1, <1>2, <1>4, <2>1
  <2> QED BY <1>1, <1>2, <1>4, <2>1, <2>2
<1>6. Valid(rx, r) /\ \A i \in 0 .. NRx - 1 : Full(rx, i) <=> Off(i, r) < d
  BY DEF Ring, d
<1>7. ASSUME NEW i \in 0 .. NRx - 1
      PROVE  /\ ry[i].valid <=> Off(i, next) # NRx - 1
             /\ Full(ry, i) <=> Off(i, next) < d - 1
             /\ d < NRx - 1 /\ Off(i, next) + 1 = d - 1 => i # r /\ i # h /\ Off(i, r) + 1 = d
  <2> DEFINE o == Off(i, r)
             p == Off(i, next)
  <2>1. o \in 0 .. NRx - 1 /\ (o = 0 <=> i = r) /\ (o = NRx - 1 <=> i = h)
        /\ p = IF i = r THEN NRx - 1 ELSE o - 1
    BY <1>4
  <2>2. (rx[i].valid <=> o # NRx - 1) /\ (Full(rx, i) <=> o < d)
    BY <1>6 DEF Valid
  <2> HIDE DEF o, p
  <2>3. CASE i = r
    <3>1. ~Full(ry, i) /\ ~ry[i].valid
      BY <2>3 DEF Exchanged
    <3>2. p = NRx - 1
      BY <2>1, <2>3
    <3> QED BY <1>5, <3>1, <3>2 DEF p
  <2>4. CASE i = h
    <3>1. ~Full(ry, i) /\ ry[i].valid
      BY <2>4 DEF Exchanged
    <3>2. p = NRx - 2
      BY <1>3, <2>1, <2>4
    <3> QED BY <1>5, <3>1, <3>2 DEF p
  <2>5. CASE i # r /\ i # h
    <3>1. ry[i] = rx[i]
      BY <1>3, <2>5 DEF Exchanged
    <3>2. (ry[i].valid <=> o # NRx - 1) /\ (Full(ry, i) <=> o < d)
      BY <2>2, <3>1 DEF Full
    <3>3. p = o - 1 /\ o \in 1 .. NRx - 2
      BY <2>1, <2>5
    <3> QED BY <1>5, <2>5, <3>2, <3>3 DEF o, p
  <2> QED BY <2>3, <2>4, <2>5
<1>8. Ring(x, ry, next)
  <2>1. ry[NRx] = rx[NRx]
    BY <1>3 DEF Exchanged
  <2>2. ry[NRx].valid /\ ~Full(ry, NRx)
    BY <1>6, <2>1 DEF Valid, Full
  <2> QED BY <1>5, <1>7, <2>2 DEF Ring, Valid
<1>9. ASSUME "RL" \notin x.csr PROVE d - 1 < NRx - 1 /\ AtEnd(x, ry, next)
  <2>1. d < NRx - 1 /\ AtEnd(x, rx, r)
    BY <1>9 DEF Open, d
  <2>2. ASSUME NEW i \in 0 .. NRx - 1, Off(i, next) + 1 = d - 1 PROVE Ends(ry[i].st)
    <3>1. i # r /\ i # h /\ Off(i, r) + 1 = d
      BY <1>7, <2>1, <2>2
    <3>2. ry[i] = rx[i]
      BY <1>3, <3>1 DEF Exchanged
    <3> QED BY <2>1, <3>1, <3>2 DEF AtEnd, d
  <2> QED BY <1>5, <2>1, <2>2 DEF AtEnd
<1> QED BY <1>5, <1>8, <1>9 DEF Open

LEMMA CallReadList == ASSUME XqInv, CallInv, xq.mode = "normal", ReadSegment PROVE CallInv'
<1> DEFINE r == drv.rix
           h == (r + NRx - 1) % NRx
           next == (r + 1) % NRx
           ry == [mem.rx EXCEPT ![h] = Buffer(TRUE), ![r] = Buffer(FALSE)]
           log == Append(drv.log, mem.rx[r].st)
<1>1. drv' = [drv EXCEPT !.rix = next, !.log = log]
  BY DEF ReadSegment
<1>2. drv.pc = "scan" /\ Full(mem.rx, r) /\ UNCHANGED <<xq, net, count>> /\ mem' = [mem EXCEPT !.rx = ry]
  BY DEF ReadSegment, Full
<1>3. ListInv(xq, mem.rx, drv) /\ CallPart(xq, mem.rx, drv) /\ Owned(count) /\ DrvFields \subseteq DOMAIN drv
      /\ r \in 0 .. NRx - 1 /\ xq.rba \in 0 .. NRx /\ DOMAIN mem.rx = 0 .. NRx /\ "rx" \in DOMAIN mem
  BY Holds, HoldsNormal DEF Shaped
<1> HIDE DEF ry, log, next, h
<1>4. drv'.pc = "scan" /\ drv'.want = drv.want /\ drv'.rix = next /\ drv'.busy = drv.busy /\ mem'.rx = ry
  BY <1>1, <1>2, <1>3 DEF DrvFields
<1>5. Ring(xq, mem.rx, r) /\ Open(xq, mem.rx, r)
  BY <1>2, <1>3 DEF ListInv, Reads
<1> HIDE DEF r
<1>6. Ring(xq, ry, next) /\ Open(xq, ry, next)
  <2>1. Passes(r, next, h)
    BY <1>3, Passing DEF next, h
  <2>2. Exchanged(mem.rx, ry, r, h)
    <3>1. r \in 0 .. NRx /\ h \in 0 .. NRx /\ h # r
      BY <1>3, <2>1, Lists DEF Passes
    <3> QED BY <1>3, <3>1, Exchange DEF ry
  <2> QED BY <1>2, <1>3, <1>5, <2>1, <2>2, ReadMoves
<1>7. Reads(xq, ry, drv')
  <2> HIDE DEF Ring, Open, Full, Ended
  <2> QED BY <1>4, <1>6 DEF Reads, Waits
<1> HIDE DEF Reads
<1>8. ListInv(xq, ry, drv')
  BY <1>2, <1>3, <1>4, <1>7 DEF ListInv, Waits, Seen
<1>9. CallPart(xq', mem'.rx, drv')
  BY <1>2, <1>3, <1>4, <1>8 DEF CallPart
<1> QED BY <1>2, <1>3, <1>9, CallParts

LEMMA CallRelistList == ASSUME XqInv, CallInv, xq.mode = "normal", Relist PROVE CallInv'
<1> DEFINE s == State
           z == xq_dispatch_rbdl(s, drv.rix)
<1>1. drv' = [drv EXCEPT !.pc = "idle"] /\ UNCHANGED count /\ drv.pc = "relist"
  BY DEF Relist
<1>2. ListInv(xq, mem.rx, drv) /\ CallPart(xq, mem.rx, drv) /\ Owned(count) /\ DrvFields \subseteq DOMAIN drv
      /\ s.xq = xq /\ s.mem = mem /\ Fit(s) /\ ListEnds(s) /\ drv.rix \in 0 .. NRx - 1 /\ xq.rba \in 0 .. NRx
  BY Holds, HoldsNormal DEF Shaped
<1>3. drv'.pc = "idle" /\ drv'.want = drv.want /\ drv'.rix = drv.rix /\ drv'.busy = drv.busy
  BY <1>1, <1>2 DEF DrvFields
<1>4. Reads(xq, mem.rx, drv) /\ Called(xq, {})
  BY <1>1, <1>2 DEF ListInv, Waits, Seen
<1>5. CASE Becomes(z) /\ ~Full(mem.rx, drv.rix)
  <2>1. Valid(mem.rx, drv.rix) /\ \A i \in 0 .. NRx - 1 : ~Full(mem.rx, i)
    BY <1>2, <1>4, <1>5, Emptied DEF Reads, Ring
  <2> HIDE DEF s
  <2>2. Offers(s, z, drv.rix)
    BY <1>2, <2>1, DispatchOffers
  <2> HIDE DEF z
  <2>3. Reads(z.xq, z.mem.rx, drv')
    <3> HIDE DEF Ring, Open, Full, Ended
    <3> QED BY <1>3, <2>2 DEF Offers, Readable, Reads, Waits
  <2>4. Called(z.xq, {})
    BY <1>2, <1>4, <2>2 DEF Offers
  <2> HIDE DEF Reads, Called
  <2>5. ListInv(z.xq, z.mem.rx, drv')
    BY <1>1, <1>2, <1>3, <2>2, <2>3, <2>4 DEF ListInv, Waits, Seen, Offers, W1
  <2>6. CallPart(z.xq, z.mem.rx, drv')
    BY <1>2, <1>3, <2>2, <2>5 DEF CallPart, Offers, Fit, Turbo, Shaped
  <2> QED BY <1>1, <1>2, <1>5, <2>6, CallBecomes
<1>6. CASE UNCHANGED <<xq, mem, net>> /\ ("RL" \notin xq.csr \/ Full(mem.rx, drv.rix))
  <2>1. Reads(xq, mem.rx, drv')
    <3> HIDE DEF Ring, Open, Full, Ended
    <3> QED BY <1>1, <1>3, <1>4, <1>6 DEF Reads, Waits
  <2> HIDE DEF Reads, Called
  <2>2. ListInv(xq, mem.rx, drv')
    BY <1>1, <1>2, <1>3, <1>4, <2>1 DEF ListInv, Waits, Seen
  <2>3. CallPart(xq, mem.rx, drv')
    BY <1>2, <1>3, <2>2 DEF CallPart
  <2> QED BY <1>1, <1>2, <1>6, <2>3, CallParts
<1> QED BY <1>5, <1>6 DEF Relist, Full

LEMMA FreshRing ==
    /\ Valid(FreshRx, 0) /\ \A i \in 0 .. NRx - 1 : ~Full(FreshRx, i)
<1> USE Lists
<1>1. \A i \in 0 .. NRx : FreshRx[i] = Buffer(i # NRx - 1)
  BY DEF FreshRx
<1>2. \A v : Buffer(v).valid = v /\ Buffer(v).st = Free
  BY DEF Buffer
<1>3. \A i \in 0 .. NRx : ~Full(FreshRx, i) /\ (FreshRx[i].valid <=> i # NRx - 1)
  BY <1>1, <1>2 DEF Full
<1>4. \A i \in 0 .. NRx - 1 : Off(i, 0) = i
  BY DEF Off
<1>5. NRx \in 0 .. NRx /\ NRx # NRx - 1 /\ \A i \in 0 .. NRx - 1 : i \in 0 .. NRx
  OBVIOUS
<1> QED BY <1>3, <1>4, <1>5 DEF Valid

LEMMA CallBegin == ASSUME XqInv, CallInv, Start PROVE CallInv'
<1> DEFINE s == State
<1>1. PICK c \in CsrModes : Becomes(xq_wr_csr(s, c)) /\ drv' = [drv EXCEPT !.pc = "init", !.want = c]
  BY DEF Start
<1> DEFINE z == xq_wr_csr(s, c)
<1>2. drv.pc = "down" /\ xq.mode = "normal" /\ "Srqr" \notin xq.units /\ UNCHANGED count
  BY DEF Start, Settled
<1>3. ListInv(xq, mem.rx, drv) /\ Owned(count) /\ DrvFields \subseteq DOMAIN drv
      /\ s.xq = xq /\ s.mem = mem /\ Fit(s)
  BY <1>2, Holds, HoldsNormal
<1>4. c \subseteq {"EL", "IL", "IE", "RE"}
  BY XqAssumption
<1>5. Rests(xq, mem.rx, drv)
  BY <1>2, <1>3 DEF ListInv
<1> HIDE DEF s
<1>6. Writes(s, z, c)
  BY <1>3, <1>4, <1>5, WritePlain DEF Rests
<1>7. Becomes(z)
  BY <1>1
<1> HIDE DEF z
<1>8. drv'.pc = "init" /\ drv'.want = c /\ drv'.rix = 0 /\ drv'.busy = drv.busy /\ ~drv.busy
  BY <1>1, <1>3, <1>5 DEF DrvFields, Rests
<1>9. Blank(z.xq, z.mem.rx)
  BY <1>3, <1>5, <1>6 DEF Writes, Rests, Blank
<1>10. "SR" \notin z.xq.csr /\ "Srqr" \notin z.xq.units
  BY <1>2, <1>3, <1>4, <1>6 DEF Writes, RW
<1>11. Called(z.xq, {})
  BY <1>9 DEF Blank, Called
<1> HIDE DEF Called, Blank
<1>12. ListInv(z.xq, z.mem.rx, drv')
  BY <1>8, <1>9, <1>10, <1>11 DEF ListInv, Waits, Seen
<1>13. CallPart(z.xq, z.mem.rx, drv')
  BY <1>4, <1>6, <1>8, <1>12 DEF CallPart, Writes, Fit, Turbo, Shaped
<1> QED BY <1>2, <1>3, <1>7, <1>13, CallBecomes

LEMMA CallGiveList == ASSUME XqInv, CallInv, GiveList PROVE CallInv'
<1> DEFINE s == State
           z == xq_dispatch_rbdl(s, 0)
<1>1. Becomes(z) /\ drv' = [drv EXCEPT !.pc = "idle"] /\ UNCHANGED count /\ drv.pc = "init"
  BY DEF GiveList
<1>2. xq.mode = "normal"
  BY <1>1, Holds DEF CallPart, RingInv
<1>3. ListInv(xq, mem.rx, drv) /\ Owned(count) /\ DrvFields \subseteq DOMAIN drv
      /\ s.xq = xq /\ s.mem = mem /\ Fit(s) /\ ListEnds(s) /\ drv.want \subseteq {"EL", "IL", "IE", "RE"}
  BY <1>2, Holds, HoldsNormal
<1>4. Blank(xq, mem.rx) /\ drv.rix = 0 /\ Called(xq, {}) /\ ~drv.busy
  BY <1>1, <1>3 DEF ListInv, Waits, Seen, Blank, W1
<1>5. 0 \in 0 .. NRx - 1 /\ Valid(s.mem.rx, 0) /\ \A i \in 0 .. NRx - 1 : ~Full(s.mem.rx, i)
  BY <1>3, <1>4, FreshRing, Lists DEF Blank
<1> HIDE DEF s
<1>6. Offers(s, z, 0)
  BY <1>3, <1>5, DispatchOffers
<1> HIDE DEF z
<1>7. drv'.pc = "idle" /\ drv'.want = drv.want /\ drv'.rix = 0 /\ drv'.busy = drv.busy
  BY <1>1, <1>3, <1>4 DEF DrvFields
<1>8. Reads(z.xq, z.mem.rx, drv')
  <2> HIDE DEF Ring, Open, Full, Ended
  <2> QED BY <1>6, <1>7 DEF Offers, Readable, Reads, Waits
<1>9. Called(z.xq, {})
  BY <1>3, <1>4, <1>6 DEF Offers
<1> HIDE DEF Reads, Called
<1>10. "SR" \notin z.xq.csr /\ "Srqr" \notin z.xq.units
  BY <1>1, <1>3, <1>6 DEF ListInv, Offers
<1>11. ListInv(z.xq, z.mem.rx, drv')
  BY <1>4, <1>7, <1>8, <1>9, <1>10 DEF ListInv, Waits, Seen
<1>12. CallPart(z.xq, z.mem.rx, drv')
  BY <1>3, <1>6, <1>7, <1>11 DEF CallPart, Offers, Fit, Turbo, Shaped
<1> QED BY <1>1, <1>3, <1>12, CallBecomes

LEMMA CallBoot == ASSUME XqInv, CallInv, Boot PROVE CallInv'
<1> DEFINE s == State
           t == xq_dispatch_rbdl(s, 0)
           data == {"EL", "BD"}
           z == xq_wr_csr(t, data)
<1>1. Becomes(z) /\ drv' = [drv EXCEPT !.pc = "scan"] /\ UNCHANGED count
      /\ drv.pc = "down" /\ xq.mode = "normal" /\ "Srqr" \notin xq.units
  BY DEF Boot, Settled
<1>2. ListInv(xq, mem.rx, drv) /\ Owned(count) /\ DrvFields \subseteq DOMAIN drv
      /\ s.xq = xq /\ s.mem = mem /\ Fit(s) /\ ListEnds(s) /\ drv.want \subseteq {"EL", "IL", "IE", "RE"}
  BY <1>1, Holds, HoldsNormal
<1>3. Rests(xq, mem.rx, drv)
  BY <1>1, <1>2 DEF ListInv
<1>4. 0 \in 0 .. NRx - 1 /\ Valid(s.mem.rx, 0) /\ \A i \in 0 .. NRx - 1 : ~Full(s.mem.rx, i)
  BY <1>2, <1>3, FreshRing, Lists DEF Rests, Blank
<1> HIDE DEF s, data
<1>5. Offers(s, t, 0) /\ t.mem = s.mem
  BY <1>2, <1>3, <1>4, DispatchOffers DEF Rests
<1> HIDE DEF t
<1>6. Fit(t) /\ ListEnds(t) /\ "SR" \notin t.xq.csr /\ Readable(t, 0) /\ "Srqr" \notin t.xq.units
  BY <1>1, <1>2, <1>3, <1>5 DEF Offers, Rests, ListEnds
<1>7. PICK v : Writes(t, v, data) /\ Fares(v, z, 0)
  BY <1>4, <1>6, WriteBoot DEF data
<1> HIDE DEF z
<1>8. Readable(v, 0)
  BY <1>6, <1>7 DEF Writes, Readable, Ring, Open, Depth, AtEnd
<1>9. Readable(z, 0)
  BY <1>7, <1>8 DEF Fares
<1>10. z.xq.csr \cap {"IE", "SR", "RE"} = {} /\ "Srqr" \notin z.xq.units /\ Fit(z)
  <2>1. v.xq.csr \cap {"IE", "SR", "RE"} = {}
    BY <1>7 DEF Writes, RW, data
  <2> QED BY <1>6, <1>7, <2>1 DEF Writes, Fares, Follows
<1>11. drv'.pc = "scan" /\ drv'.want = drv.want /\ drv'.rix = 0 /\ ~drv'.busy
  BY <1>1, <1>2, <1>3 DEF DrvFields, Rests
<1>12. Reads(z.xq, z.mem.rx, drv')
  <2> HIDE DEF Ring, Open, Full, Ended
  <2> QED BY <1>9, <1>11 DEF Readable, Reads, Waits
<1>13. Called(z.xq, {})
  BY <1>10 DEF Called
<1> HIDE DEF Reads, Called
<1>14. ListInv(z.xq, z.mem.rx, drv')
  BY <1>10, <1>11, <1>12, <1>13 DEF ListInv, Waits, Seen
<1>15. CallPart(z.xq, z.mem.rx, drv')
  BY <1>2, <1>10, <1>11, <1>14 DEF CallPart, Fit, Turbo, Shaped
<1> QED BY <1>1, <1>2, <1>15, CallBecomes

(* After a reset.                                                          *)
LEMMA CallAnew ==
    ASSUME XqInv, CallInv, NEW s, NEW z, Resets(s, z), DownAfterReset(z), count'.own = count.own,
           "own" \in DOMAIN count'
    PROVE  CallInv'
<1> DEFINE m == [rx |-> FreshRx, tx |-> FreshTx]
           floor == [net |-> count.net - Len(net), own |-> count.own]
           y == [z EXCEPT !.mem = m]
<1>1. Becomes(y) /\ drv' = Down(floor)
  BY DEF DownAfterReset
<1>2. y.xq = z.xq /\ y.mem = m /\ m.rx = FreshRx
  BY DEF Resets, Shaped
<1> HIDE DEF y, m, floor
<1>3. /\ drv'.pc = "down" /\ drv'.want = {} /\ drv'.rix = 0 /\ drv'.tix = 0 /\ drv'.busy = FALSE
  BY <1>1 DEF Down
<1>4. Rests(y.xq, y.mem.rx, drv')
  BY <1>2, <1>3 DEF Resets, Rests, Blank
<1>5. Called(y.xq, {}) /\ "SR" \notin y.xq.csr
  BY <1>4 DEF Rests, Called
<1> HIDE DEF Rests, Called
<1>6. ListInv(y.xq, y.mem.rx, drv')
  BY <1>3, <1>4, <1>5 DEF ListInv, Waits, Seen
<1>7. <<>> \in Seq(Queued)
  OBVIOUS
<1>8. CallPart(y.xq, y.mem.rx, drv')
  BY <1>2, <1>3, <1>6, <1>7 DEF CallPart, Packed, Resets, Turbo, Shaped
<1>9. Owned(count')
  BY Holds DEF Owned
<1> QED BY <1>1, <1>8, <1>9, CallBecomes

LEMMA CallBusReset == ASSUME XqInv, CallInv, BusReset PROVE CallInv'
<1> DEFINE z == xq_reset(State)
<1>1. DownAfterReset(z) /\ count'.own = count.own /\ "own" \in DOMAIN count'
  BY Holds DEF BusReset, Owned
<1>2. Resets(State, z)
  BY Holds, BusResets
<1> HIDE DEF z
<1> QED BY <1>1, <1>2, CallAnew

LEMMA SoftResets ==
    ASSUME XqInv, CallInv, drv.pc = "resetting" \/ xq.mode = "turbo"
    PROVE  Resets(State, IF xq.mode = "turbo" THEN xq_sw_reset(State) ELSE xq_wr_csr(State, {}))
<1> DEFINE s == State
           r == xq_sw_reset(s)
           w == xq_wr_csr(s, {})
<1>1. s.xq = xq /\ Shaped(s)
  BY Holds
<1>2. xq.mode # "turbo" => w = r
  <2>1. ASSUME xq.mode # "turbo" PROVE "SR" \in xq.csr
    BY <2>1, Holds, HoldsNormal DEF ListInv
  <2>2. "SR" \in xq.csr => w = r
    BY <1>1 DEF xq_wr_csr
  <2> QED BY <2>1, <2>2
<1>3. Resets(s, r)
  BY <1>1, SwResets
<1> HIDE DEF r, w
<1>4. Resets(s, IF xq.mode = "turbo" THEN r ELSE w)
  BY <1>2, <1>3
<1> QED BY <1>4 DEF r, w, s

LEMMA CallSoftReset == ASSUME XqInv, CallInv, SoftReset PROVE CallInv'
<1> DEFINE s == State
           z == xq_wr_csr(s, {"SR"})
           y == IF xq.mode = "turbo" THEN xq_sw_reset(s) ELSE xq_wr_csr(s, {})
<1>0. s.xq = xq /\ s.mem = mem /\ Shaped(s) /\ Owned(count)
  BY Holds
<1>1. CASE /\ drv.pc \in {"idle", "down"} /\ xq.mode = "normal" /\ Becomes(z)
           /\ drv' = [drv EXCEPT !.pc = "resetting"] /\ UNCHANGED count
  <2>1. ListInv(xq, mem.rx, drv) /\ DrvFields \subseteq DOMAIN drv
        /\ drv.want \subseteq {"EL", "IL", "IE", "RE"} /\ Fit(s)
    BY <1>1, Holds, HoldsNormal
  <2> DEFINE data == {"SR"}
  <2>2. "BD" \notin data /\ "SR" \in data /\ z = xq_wr_csr(s, data)
    OBVIOUS
  <2>3. data \cap RW = {"SR"} /\ "XI" \notin data
    BY DEF RW
  <2> HIDE DEF s, z, data
  <2>4. Writes(s, z, data)
    BY <2>1, <2>2, WritePlain
  <2>5. "SR" \in z.xq.csr /\ "IE" \notin z.xq.csr
    BY <2>3, <2>4 DEF Writes, RW
  <2>6. drv.busy => "XI" \in z.xq.csr
    BY <1>0, <2>1, <2>3, <2>4 DEF ListInv, Writes, W1
  <2>7. drv'.pc = "resetting" /\ drv'.want = drv.want /\ drv'.busy = drv.busy
    BY <1>1, <2>1 DEF DrvFields
  <2>8. Called(z.xq, {})
    BY <2>5 DEF Called
  <2> HIDE DEF Called
  <2>9. ListInv(z.xq, z.mem.rx, drv')
    BY <2>5, <2>6, <2>7, <2>8 DEF ListInv, Waits, Seen
  <2>10. CallPart(z.xq, z.mem.rx, drv')
    BY <2>1, <2>4, <2>7, <2>9 DEF CallPart, Writes, Fit, Turbo, Shaped
  <2> QED BY <1>0, <1>1, <2>10, CallBecomes
<1>2. CASE /\ drv.pc = "resetting" \/ xq.mode = "turbo"
           /\ DownAfterReset(y)
           /\ count' = [count EXCEPT !.resets = @ + 1]
  <2>1. Resets(s, y)
    BY <1>2, SoftResets
  <2>2. count'.own = count.own /\ "own" \in DOMAIN count'
    BY <1>0, <1>2 DEF Owned
  <2> HIDE DEF s, y
  <2> QED BY <1>2, <2>1, <2>2, CallAnew
<1> QED BY <1>1, <1>2 DEF SoftReset

(* What the driver sends.                                                  *)
LEMMA MessageIs ==
    ASSUME Owned(count), NEW m \in Messages
    PROVE  /\ Len(m) \in 1 .. NTx
           /\ \A j \in 1 .. Len(m) : Descriptor(m[j]).valid = TRUE /\ Descriptor(m[j]).pkt \in Packets
           /\ Descriptor(m[Len(m)]).last
           /\ count.own + Last(m).nth \in Nat
<1> DEFINE D == [last : BOOLEAN, setup : BOOLEAN, bad : BOOLEAN, nth : Nat \ {0}, size : 1 .. NRx - 1]
<1>1. m \in Seq(D) /\ Last(m).last /\ Len(m) \in 1 .. NTx
  BY XqAssumption, DriverAssumption
<1>2. Last(m) = m[Len(m)]
  BY DEF Last
<1> HIDE DEF D
<1>3. \A j \in 1 .. Len(m) : m[j] \in D
  BY <1>1
<1>4. ASSUME NEW d \in D
      PROVE  /\ Descriptor(d).valid = TRUE /\ Descriptor(d).last = d.last
             /\ Descriptor(d).pkt \in Packets /\ count.own + d.nth \in Nat
  <2>1. d.nth \in Nat /\ d.size \in 1 .. NRx - 1
    BY DEF D
  <2>2. count.own + d.nth \in Nat
    BY <2>1 DEF Owned
  <2> DEFINE id == count.own + d.nth
             p == [src |-> "own", id |-> id, size |-> d.size]
  <2>3. Descriptor(d).valid = TRUE /\ Descriptor(d).last = d.last /\ Descriptor(d).pkt = p
    BY DEF Descriptor
  <2> HIDE DEF id
  <2>4. p \in Packets
    BY <2>1, <2>2 DEF Packets, id
  <2> QED BY <2>2, <2>3, <2>4 DEF id
<1>5. Len(m) \in 1 .. Len(m) /\ m[Len(m)] \in D /\ m[Len(m)].last
  BY <1>1, <1>2, <1>3
<1>6. \A j \in 1 .. Len(m) : Descriptor(m[j]).valid = TRUE /\ Descriptor(m[j]).pkt \in Packets
  BY <1>3, <1>4
<1>7. Descriptor(m[Len(m)]).last /\ count.own + Last(m).nth \in Nat
  BY <1>2, <1>4, <1>5
<1> QED BY <1>1, <1>6, <1>7

LEMMA ListLoaded ==
    ASSUME Owned(count), NEW m \in Messages
    PROVE  Loaded(Listed(m), Len(m))
<1> USE Lists
<1> DEFINE tx == Listed(m)
           n == Len(m)
<1>1. n \in 1 .. NTx /\ \A j \in 1 .. n : Descriptor(m[j]).valid = TRUE /\ Descriptor(m[j]).pkt \in Packets
  BY MessageIs
<1>2. Descriptor(m[n]).last
  BY MessageIs
<1>3. \A i \in 0 .. NTx : tx[i] = IF i < n THEN Descriptor(m[i + 1]) ELSE Unused
  BY DEF Listed
<1> HIDE DEF tx, n
<1>4. Unused.valid = FALSE
  BY DEF Unused
<1>5. ASSUME NEW i \in 0 .. NTx PROVE (tx[i].valid <=> i < n) /\ (i < n => tx[i].pkt \in Packets)
  <2>1. CASE i < n
    <3>1. i + 1 \in 1 .. n
      BY <1>1, <2>1
    <3> QED BY <1>1, <1>3, <2>1, <3>1
  <2>2. CASE ~(i < n)
    BY <1>3, <1>4, <2>2
  <2> QED BY <2>1, <2>2
<1>6. tx[n - 1].last
  <2>1. n - 1 \in 0 .. NTx /\ n - 1 < n /\ (n - 1) + 1 = n
    BY <1>1
  <2> QED BY <1>2, <1>3, <2>1
<1> QED BY <1>1, <1>5, <1>6 DEF Loaded, tx, n

LEMMA NewTxFit ==
    ASSUME NEW s, Shaped(s), NEW tx
    PROVE  LET t == [s EXCEPT !.mem.tx = tx]
           IN  t.xq = s.xq /\ t.net = s.net /\ t.mem.rx = s.mem.rx /\ t.mem.tx = tx /\ Shaped(t)
<1> DEFINE t == [s EXCEPT !.mem.tx = tx]
<1>1. t.xq = s.xq /\ t.net = s.net /\ t.mem = [s.mem EXCEPT !.tx = tx] /\ DOMAIN t = DOMAIN s
  BY DEF Shaped
<1> HIDE DEF t
<1>2. t.mem.rx = s.mem.rx /\ t.mem.tx = tx /\ DOMAIN t.mem = DOMAIN s.mem
  BY <1>1 DEF Shaped
<1>3. Shaped(t)
  BY <1>1, <1>2 DEF Shaped
<1> QED BY <1>1, <1>2, <1>3 DEF t

LEMMA CallSendList ==
    ASSUME XqInv, CallInv, drv.pc = "idle", xq.mode = "normal", NEW m \in Messages,
           NEW z, z = xq_dispatch_xbdl([State EXCEPT !.mem.tx = Listed(m)]), NEW tix,
           drv' = [drv EXCEPT !.busy = TRUE, !.tix = tix]
    PROVE  CallPart(z.xq, z.mem.rx, drv')
<1> DEFINE tx == Listed(m)
           a == [State EXCEPT !.mem.tx = tx]
<1>1. ListInv(xq, mem.rx, drv) /\ Owned(count) /\ DrvFields \subseteq DOMAIN drv /\ drv.rix \in 0 .. NRx - 1
      /\ State.xq = xq /\ State.mem = mem /\ Fit(State) /\ Good(State)
      /\ drv.want \subseteq {"EL", "IL", "IE", "RE"}
  BY Holds, HoldsNormal
<1>2. Loaded(tx, Len(m))
  BY <1>1, ListLoaded
<1>3. z = xq_dispatch_xbdl(a)
  OBVIOUS
<1>4. Good(a)
  BY <1>1, NewTx
<1> HIDE DEF tx
<1>5. a.xq = xq /\ a.mem.rx = mem.rx /\ a.mem.tx = tx /\ Shaped(a)
  <2>1. Shaped(State)
    BY <1>1 DEF Fit
  <2>2. a.xq = State.xq /\ a.mem.rx = State.mem.rx /\ a.mem.tx = tx /\ Shaped(a)
    BY <2>1, NewTxFit
  <2> QED BY <1>1, <2>2
<1> HIDE DEF a
<1>6. Fit(a)
  BY <1>1, <1>5 DEF Fit, Turbo
<1>7. Sends(a, z, drv.rix) /\ "XI" \in z.xq.csr
  BY <1>1, <1>2, <1>3, <1>4, <1>5, <1>6, DispatchSends
<1>8. Reads(xq, mem.rx, drv) /\ Called(xq, {}) /\ "SR" \notin xq.csr /\ "Srqr" \notin xq.units
  BY <1>1 DEF ListInv, Waits, Seen
<1>9. drv'.pc = "idle" /\ drv'.want = drv.want /\ drv'.rix = drv.rix /\ drv'.busy = TRUE
  BY <1>1 DEF DrvFields
<1>10. Fit(z) /\ Called(z.xq, {}) /\ "SR" \notin z.xq.csr /\ "Srqr" \notin z.xq.units
  BY <1>5, <1>7, <1>8 DEF Sends, Follows
<1>11. Reads(z.xq, z.mem.rx, drv')
  <2> HIDE DEF Ring, Open, Full, Ended
  <2>1. Readable(a, drv.rix) /\ Told(a.xq, a.mem.rx)
    BY <1>5, <1>8 DEF Reads, Readable
  <2>2. Readable(z, drv.rix) /\ Told(z.xq, z.mem.rx)
    BY <1>7, <2>1 DEF Sends, Follows
  <2> QED BY <1>7, <1>9, <2>2 DEF Readable, Reads, Waits
<1> HIDE DEF Reads, Called
<1>12. ListInv(z.xq, z.mem.rx, drv')
  BY <1>7, <1>9, <1>10, <1>11 DEF ListInv, Waits, Seen
<1> QED BY <1>1, <1>9, <1>10, <1>12 DEF CallPart, Fit, Turbo, Shaped

-----------------------------------------------------------------------------
(* Reception in turbo mode                                                 *)

(* What the ring of the receiver depends on, and what tells the driver.    *)
Spins(s, t, r) ==
    /\ Steady(s, t)
    /\ Packed(t.xq)
    /\ Circle(t.xq, t.mem.rx, r) /\ Carries(s, t, r)
    /\ Some(t.mem.rx) => Some(s.mem.rx) \/ Coming(t.xq)
    /\ Coming(s.xq) => Coming(t.xq)
    /\ s.xq.icr /\ ~s.xq.pending => ~t.xq.pending

LEMMA SpinsSame ==
    ASSUME NEW s, Shaped(s), Packed(s.xq), NEW r, Circle(s.xq, s.mem.rx, r)
    PROVE  Spins(s, s, r)
BY SteadySame, CarriesSame DEF Spins

LEMMA SpinsChain ==
    ASSUME NEW s, NEW t, NEW u, NEW r, Spins(s, t, r), Spins(t, u, r)
    PROVE  Spins(s, u, r)
<1>1. Steady(s, u) /\ t.xq.icr = s.xq.icr
  BY SteadyChain DEF Spins, Steady
<1>2. Carries(s, u, r)
  BY CarriesChain DEF Spins
<1> QED BY <1>1, <1>2 DEF Spins

LEMMA SpinsInt ==
    ASSUME NEW s, Shaped(s), Turbo(s), Packed(s.xq), NEW r \in 0 .. NRx - 1, Circle(s.xq, s.mem.rx, r),
           NEW t, t = xq_setint(s)
    PROVE  Spins(s, t, r) /\ Coming(t.xq) /\ t.mem = s.mem /\ t.xq.csr = s.xq.csr
<1>1. Alike(s, t) /\ Coming(t.xq) /\ (s.xq.icr => ~t.xq.pending)
  BY SetIntTells DEF Coming
<1>2. Circle(t.xq, t.mem.rx, r)
  BY <1>1 DEF Alike, Silent, Circle
<1>3. Even(s, t)
  BY <1>1 DEF Alike, Silent, Even
<1>4. Carries(s, t, r)
  BY <1>3, EvenCarries
<1> QED BY <1>1, <1>2, <1>4 DEF Alike, Silent, Spins, Packed

(* A packet goes into buffer i of the ring.                                *)
Changed(rx, ry, i) ==
    /\ \A k \in 0 .. NRx : k # i => (ry[k].valid = rx[k].valid) /\ (Full(ry, k) <=> Full(rx, k))
    /\ ry[i].valid = FALSE /\ Full(ry, i)

Turned(s, t, i) ==
    /\ Steady(s, t)
    /\ Packed(t.xq)
    /\ \E seg : Hands(s, t, seg) /\ Puts(s.mem.rx, t.mem.rx, i, seg)
    /\ t.xq.irq = s.xq.irq /\ t.xq.pending = s.xq.pending
    /\ t.xq.rbindx = (i + 1) % NRx
    /\ Changed(s.mem.rx, t.mem.rx, i)

Flagged(u, t, i, next) ==
    /\ Shaped(t) /\ Steady(u, t)
    /\ t.xq.irq = u.xq.irq /\ t.xq.pending = u.xq.pending /\ t.xq.q = u.xq.q
    /\ t.xq.loss = u.xq.loss /\ t.net = u.net
    /\ t.xq.rbindx = next
    /\ \A k \in 0 .. NRx : /\ t.mem.rx[k].st = u.mem.rx[k].st
                           /\ k # i => t.mem.rx[k].valid = u.mem.rx[k].valid
    /\ t.mem.rx[i].valid = FALSE

LEMMA BufferFlagged ==
    ASSUME NEW u, Shaped(u), Turbo(u), NEW i \in 0 .. NRx, NEW next
    PROVE  Flagged(u, [u EXCEPT !.xq.rbindx = next, !.mem.rx[i].valid = FALSE], i, next)
<1> DEFINE m == [u.mem EXCEPT !.rx[i].valid = FALSE]
           t == [u EXCEPT !.xq.rbindx = next, !.mem.rx[i].valid = FALSE]
           old == u.mem.rx
           new == [old EXCEPT ![i] = [old[i] EXCEPT !.valid = FALSE]]
<1>1. t.xq = [u.xq EXCEPT !.rbindx = next] /\ t.mem = m /\ t.net = u.net /\ DOMAIN t = DOMAIN u
  BY DEF Shaped
<1>2. DOMAIN m = DOMAIN u.mem /\ m.tx = u.mem.tx /\ m.rx = new
  BY DEF Shaped
<1>3. DOMAIN old = 0 .. NRx /\ \A k \in 0 .. NRx : {"valid", "st"} \subseteq DOMAIN old[k]
  BY DEF Shaped
<1> HIDE DEF t, m, old
<1>4. /\ DOMAIN new = 0 .. NRx
      /\ \A k \in 0 .. NRx : /\ {"valid", "st"} \subseteq DOMAIN new[k]
                             /\ new[k].st = old[k].st
                             /\ k # i => new[k].valid = old[k].valid
      /\ new[i].valid = FALSE
  BY <1>3
<1> HIDE DEF new
<1>5. /\ DOMAIN t.xq = DOMAIN u.xq /\ t.xq.mode = u.xq.mode /\ t.xq.units = u.xq.units /\ t.xq.csr = u.xq.csr
      /\ t.xq.srr = u.xq.srr /\ t.xq.loop = u.xq.loop /\ t.xq.tbindx = u.xq.tbindx /\ t.xq.icr = u.xq.icr
      /\ t.xq.irq = u.xq.irq /\ t.xq.pending = u.xq.pending /\ t.xq.q = u.xq.q /\ t.xq.rba = u.xq.rba
      /\ t.xq.rbindx = next /\ t.xq.loss = u.xq.loss
  BY <1>1 DEF Shaped, Registers
<1>6. t.mem.rx = new /\ t.mem.tx = u.mem.tx /\ DOMAIN t.mem = DOMAIN u.mem /\ t.net = u.net
      /\ DOMAIN t = DOMAIN u
  BY <1>1, <1>2
<1>7. Shaped(t)
  <2>1. {"xq", "mem", "net"} \subseteq DOMAIN t /\ {"rx", "tx"} \subseteq DOMAIN t.mem
    BY <1>6 DEF Shaped
  <2>2. DOMAIN t.mem.rx = 0 .. NRx /\ \A k \in 0 .. NRx : {"valid", "st"} \subseteq DOMAIN t.mem.rx[k]
    BY <1>4, <1>6
  <2>3. Registers \subseteq DOMAIN t.xq /\ t.xq.mode \in {"normal", "turbo"} /\ t.xq.rba \in 0 .. NRx
    BY <1>5 DEF Shaped
  <2>4. Incoming(t.net)
    BY <1>6 DEF Shaped
  <2> QED BY <2>1, <2>2, <2>3, <2>4 DEF Shaped
<1>8. Steady(u, t)
  BY <1>5, <1>6, <1>7 DEF Steady, Quiet, Enabled, Turbo
<1>9. \A k \in 0 .. NRx : /\ t.mem.rx[k].st = u.mem.rx[k].st
                          /\ k # i => t.mem.rx[k].valid = u.mem.rx[k].valid
  BY <1>4, <1>6 DEF old
<1>10. t.mem.rx[i].valid = FALSE
  BY <1>4, <1>6
<1>11. Flagged(u, t, i, next)
  BY <1>5, <1>6, <1>7, <1>8, <1>9, <1>10 DEF Flagged
<1> QED BY <1>11 DEF t

LEMMA BufferTurned ==
    ASSUME NEW s, Shaped(s), Turbo(s), Packed(s.xq), s.xq.q # <<>>, NEW i \in 0 .. NRx
    PROVE  Turned(s, [Deliver(s, i, Segment(s, QueMax + NTx)) EXCEPT
                         !.xq.rbindx = (i + 1) % NRx, !.mem.rx[i].valid = FALSE], i)
<1> DEFINE room == QueMax + NTx
           seg == Segment(s, room)
           u == Deliver(s, i, seg)
           next == (i + 1) % NRx
           t == [u EXCEPT !.xq.rbindx = next, !.mem.rx[i].valid = FALSE]
<1>1. room \in Nat \ {0}
  BY Lists
<1> HIDE DEF room
<1>2. seg # Free
  <2> HIDE DEF seg
  <2> QED BY <1>1, SegmentIs DEF seg
<1>3. Gives(s, u, i, seg)
  <2> HIDE DEF seg, u
  <2> QED BY <1>1, DeliverGives DEF seg, u
<1> HIDE DEF seg, u, next
<1>4. Steady(s, u) /\ Shaped(u) /\ Turbo(u)
  BY <1>3 DEF Gives, Steady, Quiet, Turbo
<1>5. Flagged(u, t, i, next)
  BY <1>4, BufferFlagged
<1> HIDE DEF t
<1>6. Steady(s, t)
  BY <1>4, <1>5, SteadyChain DEF Flagged
<1>7. ASSUME NEW k \in 0 .. NRx, k # i
      PROVE  t.mem.rx[k].valid = s.mem.rx[k].valid /\ (Full(t.mem.rx, k) <=> Full(s.mem.rx, k))
  <2>1. t.mem.rx[k].valid = u.mem.rx[k].valid /\ t.mem.rx[k].st = u.mem.rx[k].st
    BY <1>5, <1>7 DEF Flagged
  <2>2. u.mem.rx[k].valid = s.mem.rx[k].valid /\ u.mem.rx[k].st = s.mem.rx[k].st
    BY <1>3, <1>7 DEF Gives
  <2> QED BY <2>1, <2>2 DEF Full
<1>8. Full(t.mem.rx, i)
  <2>1. t.mem.rx[i].st = u.mem.rx[i].st /\ u.mem.rx[i].st = seg
    BY <1>3, <1>5 DEF Flagged, Gives
  <2> QED BY <1>2, <2>1 DEF Full
<1>9. Hands(s, t, seg) /\ Puts(s.mem.rx, t.mem.rx, i, seg)
  <2>1. Hands(s, t, seg)
    BY <1>3, <1>5 DEF Gives, Flagged, Hands
  <2>2. \A k \in 0 .. NRx : /\ t.mem.rx[k].st = u.mem.rx[k].st
                            /\ k # i => u.mem.rx[k].st = s.mem.rx[k].st
    BY <1>3, <1>5 DEF Gives, Flagged
  <2>3. \A k \in 0 .. NRx - 1 : k \in 0 .. NRx
    BY Sizes
  <2>4. u.mem.rx[i].st = seg
    BY <1>3 DEF Gives
  <2> QED BY <2>1, <2>2, <2>3, <2>4 DEF Puts
<1>10. Turned(s, t, i)
  <2>1. t.xq.irq = s.xq.irq /\ t.xq.pending = s.xq.pending /\ Packed(t.xq) /\ t.xq.rbindx = next
        /\ t.mem.rx[i].valid = FALSE
    BY <1>3, <1>5 DEF Flagged, Gives, Packed
  <2> QED BY <1>6, <1>7, <1>8, <1>9, <2>1 DEF Turned, Changed, next
<1> QED BY <1>10 DEF t, u, seg, room, next

(* The next buffer of the ring is filled.                                  *)
LEMMA CircleTurns ==
    ASSUME NEW x, NEW rx, NEW r \in 0 .. NRx - 1, Circle(x, rx, r), NEW i, i = x.rbindx, rx[i].valid,
           NEW y, NEW ry, y.rbindx = IF i + 1 = NRx THEN 0 ELSE i + 1, Changed(rx, ry, i)
    PROVE  Circle(y, ry, r)
<1> USE Lists
<1> DEFINE j == IF i + 1 = NRx THEN 0 ELSE i + 1
           o == Off(i, r)
<1>1. i \in 0 .. NRx - 1 /\ ~Full(rx, i) /\ ~Full(rx, NRx) /\ y.rbindx = j /\ j \in 0 .. NRx - 1
  BY DEF Circle
<1>2. /\ o \in 0 .. NRx - 1
      /\ o # NRx - 1 => Off(j, r) = o + 1
      /\ o = NRx - 1 => j = r
  BY <1>1, OffNext
<1>3. \A k \in 0 .. NRx - 1 : Off(k, r) \in 0 .. NRx - 1 /\ (Off(k, r) = o => k = i)
  BY <1>1, OffNext
<1> HIDE DEF o, j
<1>4. \A k \in 0 .. NRx - 1 : Full(rx, k) <=> Off(k, r) < o
  BY <1>1 DEF Circle, o
<1>5. ASSUME NEW k \in 0 .. NRx - 1 PROVE ry[k].valid <=> ~Full(ry, k)
  <2>1. k \in 0 .. NRx /\ (rx[k].valid <=> ~Full(rx, k))
    BY DEF Circle
  <2> QED BY <2>1 DEF Changed
<1>6. ~Full(ry, NRx)
  BY <1>1 DEF Changed
<1>7. ASSUME NEW k \in 0 .. NRx - 1 PROVE Full(ry, k) <=> Off(k, r) < o + 1
  <2>1. CASE k = i
    BY <1>2, <2>1 DEF o, Changed
  <2>2. CASE k # i
    <3>1. k \in 0 .. NRx /\ (Full(ry, k) <=> Off(k, r) < o) /\ Off(k, r) # o
      BY <1>3, <1>4, <2>2 DEF Changed
    <3> QED BY <1>2, <1>3, <3>1
  <2> QED BY <2>1, <2>2
<1>8. CASE o = NRx - 1
  <2>1. \A k \in 0 .. NRx - 1 : Full(ry, k)
    BY <1>3, <1>7, <1>8
  <2> QED BY <1>1, <1>2, <1>5, <1>6, <1>8, <2>1 DEF Circle
<1>9. CASE o # NRx - 1
  <2>1. \A k \in 0 .. NRx - 1 : Full(ry, k) <=> Off(k, r) < Off(y.rbindx, r)
    BY <1>1, <1>2, <1>7, <1>9
  <2> QED BY <1>1, <1>5, <1>6, <2>1 DEF Circle
<1> QED BY <1>8, <1>9

LEMMA CircleHands ==
    ASSUME NEW s, NEW t, NEW r \in 0 .. NRx - 1, NEW i, i = s.xq.rbindx, Circle(s.xq, s.mem.rx, r),
           s.mem.rx[i].valid, Turned(s, t, i)
    PROVE  Carries(s, t, r)
<1> DEFINE rx == s.mem.rx
           n == Off(i, r)
<1>1. PICK seg : Hands(s, t, seg) /\ Puts(s.mem.rx, t.mem.rx, i, seg)
  BY DEF Turned
<1>2. i \in 0 .. NRx - 1 /\ rx[i].valid /\ ~Full(rx, i)
  BY DEF Circle
<1>3. n \in 0 .. NRx - 1 /\ i = Slot(r, n)
  BY <1>2, Slots
<1> HIDE DEF rx
<1>4. \A k \in 0 .. NRx - 1 : Full(rx, k) <=> Off(k, r) < n
  BY <1>2 DEF Circle, rx
<1>5. Buffers(s.mem.rx, r, n)
  BY <1>3, <1>4, Sizes DEF Buffers, rx
<1> HIDE DEF n
<1> QED BY <1>1, <1>3, <1>5, HandsCarries

(* Until the interrupt at the end of the loop.                             *)
Spinning(s, l, r) ==
    /\ {"s", "consumed"} \subseteq DOMAIN l
    /\ Steady(s, l.s)
    /\ Packed(l.s.xq)
    /\ Circle(l.s.xq, l.s.mem.rx, r) /\ Carries(s, l.s, r)
    /\ l.s.xq.irq = s.xq.irq /\ l.s.xq.pending = s.xq.pending
    /\ l.consumed \in BOOLEAN
    /\ ~l.consumed => l.s = s

LEMMA RoundSpins ==
    ASSUME NEW s, Shaped(s), Turbo(s), NEW r \in 0 .. NRx - 1, NEW l, Spinning(s, l, r)
    PROVE  Spinning(s, TurboReceiveRound(l), r)
<1> DEFINE i == l.s.xq.rbindx
           d == Deliver(l.s, i, Segment(l.s, QueMax + NTx))
           next == (i + 1) % NRx
           filled == [d EXCEPT !.xq.rbindx = next, !.mem.rx[i].valid = FALSE]
           m == [l EXCEPT !.s = filled, !.consumed = TRUE]
<1>1. TurboReceiveRound(l) = IF l.s.xq.q # <<>> /\ l.s.mem.rx[i].valid THEN m ELSE l
  BY DEF TurboReceiveRound
<1>2. CASE l.s.xq.q # <<>> /\ l.s.mem.rx[i].valid
  <2>1. i \in 0 .. NRx - 1 /\ Shaped(l.s) /\ Turbo(l.s) /\ Packed(l.s.xq)
    BY DEF Spinning, Circle, Steady, Quiet, Turbo
  <2>2. m.s = filled /\ m.consumed = TRUE /\ {"s", "consumed"} \subseteq DOMAIN m
    BY DEF Spinning
  <2>3. next = IF i + 1 = NRx THEN 0 ELSE i + 1
    BY <2>1, Lists, Around
  <2>4. i \in 0 .. NRx /\ i = l.s.xq.rbindx
    BY <2>1, Lists
  <2> HIDE DEF i
  <2>5. Turned(l.s, filled, i)
    BY <1>2, <2>1, <2>4, BufferTurned DEF i
  <2> HIDE DEF filled, m
  <2>6. filled.xq.rbindx = IF i + 1 = NRx THEN 0 ELSE i + 1
    BY <2>3, <2>5 DEF Turned
  <2> HIDE DEF next, d
  <2>7. Circle(l.s.xq, l.s.mem.rx, r) /\ l.s.mem.rx[i].valid
    BY <1>2 DEF Spinning
  <2> DEFINE rx == l.s.mem.rx
             ry == filled.mem.rx
             x == l.s.xq
             y == filled.xq
  <2>8. /\ Changed(rx, ry, i)
        /\ y.rbindx = IF i + 1 = NRx THEN 0 ELSE i + 1
        /\ Circle(x, rx, r) /\ rx[i].valid /\ i = x.rbindx
    BY <2>4, <2>5, <2>6, <2>7 DEF Turned
  <2> HIDE DEF rx, ry, x, y
  <2>9. Circle(y, ry, r)
    BY <2>8, CircleTurns
  <2>10. Circle(filled.xq, filled.mem.rx, r)
    BY <2>9 DEF y, ry
  <2>11. /\ Steady(s, filled) /\ Packed(filled.xq)
         /\ filled.xq.irq = s.xq.irq /\ filled.xq.pending = s.xq.pending
    BY <2>5, SteadyChain DEF Spinning, Turned
  <2>12. Carries(l.s, filled, r)
    BY <2>4, <2>5, <2>7, CircleHands
  <2>13. Carries(s, filled, r)
    BY <2>12, CarriesChain DEF Spinning
  <2> QED BY <1>1, <1>2, <2>2, <2>10, <2>11, <2>13 DEF Spinning
<1>3. CASE ~(l.s.xq.q # <<>> /\ l.s.mem.rx[i].valid)
  BY <1>1, <1>3
<1> QED BY <1>2, <1>3

LEMMA ReceiveSpins ==
    ASSUME NEW s, Shaped(s), Turbo(s), Packed(s.xq),
           NEW r \in 0 .. NRx - 1, Circle(s.xq, s.mem.rx, r)
    PROVE  Spins(s, TurboReceive(s), r)
<1> DEFINE R == TurboReceiveRounds(s)
           B == {n \in 0 .. NRx : Spinning(s, R[n], r)}
<1>1. /\ R[0] = [s |-> s, consumed |-> FALSE]
      /\ \A n \in 0 .. NRx - 1 : R[n + 1] = TurboReceiveRound(R[n])
  BY TurboReceiveLoop
<1> HIDE DEF R
<1>2. 0 \in B
  <2> DEFINE l == R[0]
  <2>1. l.s = s /\ l.consumed = FALSE /\ {"s", "consumed"} \subseteq DOMAIN l
    BY <1>1
  <2> HIDE DEF l
  <2>2. Spinning(s, l, r)
    BY <2>1, SteadySame, CarriesSame DEF Spinning
  <2> QED BY <2>2, Sizes DEF l
<1>3. ASSUME NEW n \in 0 .. NRx - 1, n \in B PROVE n + 1 \in B
  <2>1. Spinning(s, TurboReceiveRound(R[n]), r)
    BY <1>3, RoundSpins
  <2> QED BY <1>1, <2>1, Sizes
<1>4. 0 .. NRx \subseteq B
  <2> HIDE DEF B
  <2> QED BY <1>2, <1>3, Climb, Sizes
<1> DEFINE l == R[NRx]
           t == l.s
           z == xq_setint(t)
<1>5. Spinning(s, l, r)
  BY <1>4, Sizes
<1>6. TurboReceive(s) = IF l.consumed THEN z ELSE t
  BY DEF TurboReceive, R
<1> HIDE DEF l
<1>7. CASE l.consumed = TRUE
  <2>1. Shaped(t) /\ Turbo(t) /\ t.xq.icr = s.xq.icr
    BY <1>5 DEF Spinning, Steady, Quiet, Turbo
  <2>2. Steady(s, t) /\ Packed(t.xq) /\ Circle(t.xq, t.mem.rx, r) /\ t.xq.pending = s.xq.pending
    BY <1>5 DEF Spinning
  <2> HIDE DEF t, z
  <2>3. Spins(t, z, r) /\ Coming(z.xq)
    BY <2>1, <2>2, SpinsInt DEF z
  <2>4. Steady(s, z)
    BY <2>2, <2>3, SteadyChain DEF Spins
  <2>5. Carries(s, z, r)
    <3>1. Carries(s, t, r) /\ Carries(t, z, r)
      BY <1>5, <2>3 DEF Spinning, Spins, t
    <3> QED BY <3>1, CarriesChain
  <2> QED BY <1>6, <1>7, <2>1, <2>2, <2>3, <2>4, <2>5 DEF Spins
<1>8. CASE l.consumed = FALSE
  <2>1. t = s
    BY <1>5, <1>8 DEF Spinning
  <2> QED BY <1>6, <1>8, <2>1, SpinsSame
<1> QED BY <1>5, <1>7, <1>8 DEF Spinning

(* Nothing waits: nothing happens.                                         *)
LEMMA ReceiveRests ==
    ASSUME NEW s, s.xq.q = <<>>
    PROVE  TurboReceive(s) = s
<1> DEFINE R == TurboReceiveRounds(s)
           a == [s |-> s, consumed |-> FALSE]
           B == {n \in 0 .. NRx : R[n] = a}
<1>1. /\ R[0] = a
      /\ \A n \in 0 .. NRx - 1 : R[n + 1] = TurboReceiveRound(R[n])
  BY TurboReceiveLoop
<1>2. TurboReceiveRound(a) = a
  BY DEF TurboReceiveRound
<1>3. a.s = s /\ a.consumed = FALSE
  OBVIOUS
<1> HIDE DEF R, a
<1>4. 0 .. NRx \subseteq B
  <2>1. 0 \in B
    BY <1>1, Sizes
  <2>2. ASSUME NEW n \in 0 .. NRx - 1, n \in B PROVE n + 1 \in B
    BY <1>1, <1>2, <2>2, Sizes
  <2> HIDE DEF B
  <2> QED BY <2>1, <2>2, Climb, Sizes
<1>5. R[NRx] = a
  BY <1>4, Sizes
<1> QED BY <1>3, <1>5 DEF TurboReceive, R

(* What the ring needs for a reception.                                    *)
Rolls(s, r) == Shaped(s) /\ Turbo(s) /\ Packed(s.xq) /\ Circle(s.xq, s.mem.rx, r)

LEMMA SpinsRolls ==
    ASSUME NEW s, NEW t, NEW r, Rolls(s, r), Spins(s, t, r)
    PROVE  Rolls(t, r)
BY DEF Rolls, Spins, Steady, Quiet, Turbo

LEMMA ProcessSpins ==
    ASSUME NEW s, NEW r \in 0 .. NRx - 1, Rolls(s, r)
    PROVE  Spins(s, xq_process_turbo_rbdl(s), r) /\ Spins(s, xq_process_rbdl(s), r)
<1>1. Spins(s, TurboReceive(s), r) /\ Spins(s, s, r)
  BY ReceiveSpins, SpinsSame DEF Rolls
<1>2. Spins(s, xq_process_turbo_rbdl(s), r)
  BY <1>1 DEF xq_process_turbo_rbdl
<1>3. xq_process_rbdl(s) = xq_process_turbo_rbdl(s)
  BY DEF xq_process_rbdl, Rolls
<1> QED BY <1>2, <1>3

LEMMA PumpSpins ==
    ASSUME NEW s, NEW r \in 0 .. NRx - 1, Rolls(s, r)
    PROVE  Spins(s, Pump(s), r)
<1>1. Spins(s, xq_process_rbdl(s), r) /\ Spins(s, s, r)
  BY ProcessSpins, SpinsSame DEF Rolls
<1> QED BY <1>1 DEF Pump

LEMMA ReadSpins ==
    ASSUME NEW s, NEW r, Rolls(s, r)
    PROVE  Spins(s, eth_read_all(s), r)
<1> DEFINE t == eth_read_all(s)
<1>1. Takes(s, t)
  BY ReadTakes DEF Rolls
<1> HIDE DEF t
<1>2. Circle(t.xq, t.mem.rx, r)
  BY <1>1 DEF Takes, Rolls, Circle
<1>3. Carries(s, t, r)
  BY ReadCarries DEF Rolls, t
<1>4. Spins(s, t, r)
  BY <1>1, <1>2, <1>3 DEF Takes, Spins, Coming
<1> QED BY <1>4 DEF t

LEMMA SvcSpins ==
    ASSUME NEW s, NEW r \in 0 .. NRx - 1, Rolls(s, r)
    PROVE  Spins(s, xq_svc(s), r)
<1> DEFINE t == Pump(s)
           u == eth_read_all(t)
           v == Pump(u)
<1>1. Spins(s, t, r) /\ Rolls(t, r)
  BY PumpSpins, SpinsRolls
<1>2. Spins(t, u, r) /\ Rolls(u, r)
  <2> HIDE DEF t
  <2> QED BY <1>1, ReadSpins, SpinsRolls
<1>3. Spins(u, v, r) /\ Rolls(v, r)
  <2> HIDE DEF u
  <2> QED BY <1>2, PumpSpins, SpinsRolls
<1>4. xq_svc(s) = v
  <2> Turbo(s)
    BY DEF Rolls
  <2>1. Turbo(v)
    BY <1>3 DEF Rolls
  <2> QED BY <2>1 DEF xq_svc
<1> HIDE DEF t, u, v
<1>5. Spins(s, u, r)
  BY <1>1, <1>2, SpinsChain
<1> QED BY <1>3, <1>4, <1>5, SpinsChain

(* What the driver relies on in turbo mode outlives a reception.           *)
LEMMA SpinsKeeps ==
    ASSUME NEW s, NEW t, NEW d, Turbo(s), CallPart(s.xq, s.mem.rx, d), Spins(s, t, d.rix),
           d.pc \in {"idle", "ack", "scan", "relist"}
    PROVE  CallPart(t.xq, t.mem.rx, d)
<1>1. RingInv(s.xq, s.mem.rx, d) /\ Turns(s.xq, s.mem.rx, d) /\ d.want \subseteq {"EL", "IL", "IE", "RE"}
  BY DEF CallPart, RingInv, Turbo
<1>2. t.xq.units = s.xq.units /\ t.xq.srr = s.xq.srr /\ t.xq.tbindx = s.xq.tbindx /\ t.xq.icr = s.xq.icr
      /\ t.xq.mode = "turbo"
  BY DEF Spins, Steady, Quiet, Turbo
<1>3. Turns(t.xq, t.mem.rx, d)
  BY <1>1, <1>2 DEF Turns, Spins
<1>4. RingInv(t.xq, t.mem.rx, d)
  BY <1>1, <1>2, <1>3 DEF RingInv
<1> QED BY <1>1, <1>2, <1>4 DEF CallPart, Spins

-----------------------------------------------------------------------------
(* Transmission in turbo mode                                              *)

(* The ring of the transmitter, from t0: how far is entry i, and which one *)
(* is c entries away.                                                       *)
Along(i, t0) == IF t0 <= i THEN i - t0 ELSE i - t0 + NTx
At(c, t0) == IF t0 + c < NTx THEN t0 + c ELSE t0 + c - NTx

LEMMA AlongIs ==
    ASSUME NEW t0 \in 0 .. NTx - 1
    PROVE  /\ \A c \in 0 .. NTx : At(c, t0) \in 0 .. NTx - 1 /\ At(c, t0) = (t0 + c) % NTx
           /\ \A c \in 0 .. NTx - 1 : Along(At(c, t0), t0) = c /\ (At(c, t0) + 1) % NTx = At(c + 1, t0)
           /\ \A i \in 0 .. NTx - 1 : Along(i, t0) \in 0 .. NTx - 1 /\ At(Along(i, t0), t0) = i
           /\ \A i \in 0 .. NTx - 1 : (i + NTx - t0) % NTx = Along(i, t0)
           /\ At(0, t0) = t0
<1> USE Lists
<1>1. ASSUME NEW c \in 0 .. NTx PROVE At(c, t0) \in 0 .. NTx - 1 /\ At(c, t0) = (t0 + c) % NTx
  BY DEF At
<1>2. ASSUME NEW c \in 0 .. NTx - 1 PROVE Along(At(c, t0), t0) = c /\ (At(c, t0) + 1) % NTx = At(c + 1, t0)
  BY DEF At, Along
<1>3. ASSUME NEW i \in 0 .. NTx - 1 PROVE Along(i, t0) \in 0 .. NTx - 1 /\ At(Along(i, t0), t0) = i
  BY DEF At, Along
<1>4. ASSUME NEW i \in 0 .. NTx - 1 PROVE (i + NTx - t0) % NTx = Along(i, t0)
  BY DEF At, Along
<1>5. At(0, t0) = t0
  BY DEF At
<1> QED BY <1>1, <1>2, <1>3, <1>4, <1>5

(* The entries that wait, when c of n are done.                            *)
Left(tx, c, n, t0) ==
    /\ \A i \in 0 .. NTx : "valid" \in DOMAIN tx[i]
    /\ DOMAIN tx = 0 .. NTx
    /\ \A i \in 0 .. NTx - 1 :
           /\ tx[i].valid <=> c <= Along(i, t0) /\ Along(i, t0) < n
           /\ tx[i].valid => tx[i].pkt \in Packets

(* What a transmission leaves to the receiver.                             *)
Spares(s, t) ==
    /\ Shaped(t) /\ Packed(t.xq)
    /\ t.mem.rx = s.mem.rx
    /\ t.xq.mode = s.xq.mode /\ t.xq.units = s.xq.units /\ t.xq.srr = s.xq.srr /\ t.xq.icr = s.xq.icr
    /\ t.xq.irq = s.xq.irq /\ t.xq.pending = s.xq.pending /\ t.xq.rbindx = s.xq.rbindx

LEMMA SparesChain ==
    ASSUME NEW s, NEW t, NEW u, Spares(s, t), Spares(t, u)
    PROVE  Spares(s, u)
BY DEF Spares

(* The entry at which the transmitter is leaves the ring.                  *)
Cleaned(s, t, i, next) ==
    /\ Spares(s, t) /\ Even(s, t)
    /\ t.xq.tbindx = next
    /\ DOMAIN t.mem.tx = DOMAIN s.mem.tx
    /\ \A k \in DOMAIN s.mem.tx : k # i => t.mem.tx[k] = s.mem.tx[k]
    /\ t.mem.tx[i].valid = FALSE /\ "valid" \in DOMAIN t.mem.tx[i]

LEMMA EntryCleaned ==
    ASSUME NEW s, Shaped(s), Turbo(s), Packed(s.xq), NEW i, i \in DOMAIN s.mem.tx,
           "valid" \in DOMAIN s.mem.tx[i], NEW next
    PROVE  Cleaned(s, [s EXCEPT !.xq.tbindx = next, !.mem.tx[i].valid = FALSE], i, next)
<1> DEFINE m == [s.mem EXCEPT !.tx[i].valid = FALSE]
           t == [s EXCEPT !.xq.tbindx = next, !.mem.tx[i].valid = FALSE]
           old == s.mem.tx
           new == [old EXCEPT ![i] = [old[i] EXCEPT !.valid = FALSE]]
<1>1. t.xq = [s.xq EXCEPT !.tbindx = next] /\ t.mem = m /\ t.net = s.net /\ DOMAIN t = DOMAIN s
  BY DEF Shaped
<1>2. DOMAIN m = DOMAIN s.mem /\ m.rx = s.mem.rx /\ m.tx = new
  BY DEF Shaped
<1>3. i \in DOMAIN old /\ "valid" \in DOMAIN old[i]
  OBVIOUS
<1> HIDE DEF t, m, old
<1>4. /\ DOMAIN new = DOMAIN old
      /\ \A k \in DOMAIN old : k # i => new[k] = old[k]
      /\ new[i].valid = FALSE /\ "valid" \in DOMAIN new[i]
  BY <1>3
<1> HIDE DEF new
<1>5. /\ DOMAIN t.xq = DOMAIN s.xq /\ t.xq.mode = s.xq.mode /\ t.xq.units = s.xq.units
      /\ t.xq.srr = s.xq.srr /\ t.xq.icr = s.xq.icr /\ t.xq.rbindx = s.xq.rbindx
      /\ t.xq.irq = s.xq.irq /\ t.xq.pending = s.xq.pending /\ t.xq.q = s.xq.q /\ t.xq.rba = s.xq.rba
      /\ t.xq.tbindx = next /\ t.xq.loss = s.xq.loss
  BY <1>1 DEF Shaped, Registers
<1>6. t.mem.rx = s.mem.rx /\ t.mem.tx = new /\ DOMAIN t.mem = DOMAIN s.mem /\ t.net = s.net
      /\ DOMAIN t = DOMAIN s
  BY <1>1, <1>2
<1>7. Shaped(t)
  BY <1>5, <1>6 DEF Shaped
<1>8. Spares(s, t)
  BY <1>5, <1>6, <1>7 DEF Spares, Packed
<1>9. Cleaned(s, t, i, next)
  BY <1>4, <1>5, <1>6, <1>8 DEF Cleaned, Even, old
<1> QED BY <1>9 DEF t

LEMMA LeftCleaned ==
    ASSUME NEW t0 \in 0 .. NTx - 1, NEW c \in Nat, NEW n \in 1 .. NTx, c < n, NEW s, NEW t, NEW i,
           i = At(c, t0), NEW next,
           Left(s.mem.tx, c, n, t0), Cleaned(s, t, i, next)
    PROVE  Left(t.mem.tx, c + 1, n, t0)
<1> DEFINE tx == s.mem.tx
           ty == t.mem.tx
<1>1. c \in 0 .. NTx - 1 /\ i \in 0 .. NTx - 1 /\ Along(i, t0) = c
  <2>1. c \in 0 .. NTx - 1 /\ c \in 0 .. NTx
    BY Lists
  <2>2. At(c, t0) \in 0 .. NTx - 1 /\ Along(At(c, t0), t0) = c
    BY <2>1, AlongIs
  <2> QED BY <2>1, <2>2
<1>2. ASSUME NEW k \in 0 .. NTx - 1 PROVE Along(k, t0) \in 0 .. NTx - 1 /\ (Along(k, t0) = c => k = i)
  <2>1. Along(k, t0) \in 0 .. NTx - 1 /\ At(Along(k, t0), t0) = k
    BY AlongIs
  <2> QED BY <2>1
<1>3. /\ DOMAIN tx = 0 .. NTx /\ DOMAIN ty = 0 .. NTx
      /\ \A k \in 0 .. NTx : "valid" \in DOMAIN tx[k]
      /\ \A k \in 0 .. NTx : k # i => ty[k] = tx[k]
      /\ ty[i].valid = FALSE /\ "valid" \in DOMAIN ty[i]
  BY DEF Left, Cleaned
<1>4. \A k \in 0 .. NTx - 1 :
           /\ tx[k].valid <=> c <= Along(k, t0) /\ Along(k, t0) < n
           /\ tx[k].valid => tx[k].pkt \in Packets
  BY DEF Left
<1> HIDE DEF tx, ty
<1>5. \A k \in 0 .. NTx : "valid" \in DOMAIN ty[k]
  BY <1>3
<1>6. ASSUME NEW k \in 0 .. NTx - 1
      PROVE  /\ ty[k].valid <=> c + 1 <= Along(k, t0) /\ Along(k, t0) < n
             /\ ty[k].valid => ty[k].pkt \in Packets
  <2>1. CASE k = i
    BY <1>1, <1>3, <2>1
  <2>2. CASE k # i
    <3>1. k \in 0 .. NTx /\ ty[k] = tx[k]
      BY <1>3, <2>2, Lists
    <3>2. Along(k, t0) # c /\ Along(k, t0) \in 0 .. NTx - 1
      BY <1>2, <2>2
    <3> QED BY <1>4, <3>1, <3>2, Lists
  <2> QED BY <2>1, <2>2
<1>7. Left(ty, c + 1, n, t0)
  BY <1>3, <1>5, <1>6 DEF Left
<1> QED BY <1>7 DEF ty

(* Looped packets come into the read queue.                                *)
LEMMA PutSpares ==
    ASSUME NEW t, Shaped(t), Packed(t.xq), NEW p \in Packets, NEW u, u = ethq_insert(t, p)
    PROVE  Spares(t, u) /\ u.mem = t.mem /\ u.xq.tbindx = t.xq.tbindx
<1>1. Calm(t, u) /\ Packed(u.xq)
  BY InsertCalm, InsertPacked
<1> QED BY <1>1 DEF Calm, Steady, Quiet, Spares

Posting(s, n, t0, j, l) ==
    LET c == IF j < n THEN j ELSE n
    IN  /\ {"s", "consumed"} \subseteq DOMAIN l
        /\ Spares(s, l.s)
        /\ l.s.xq.tbindx = At(c, t0)
        /\ Left(l.s.mem.tx, c, n, t0)
        /\ l.consumed <=> j > 0

LEMMA RoundPosts ==
    ASSUME NEW s, Turbo(s), NEW n \in 1 .. NTx, NEW t0 \in 0 .. NTx - 1, NEW j \in 0 .. NTx - 1, NEW l,
           Posting(s, n, t0, j, l)
    PROVE  Posting(s, n, t0, j + 1, TurboTransmitRound(l))
<1> DEFINE u == l.s
           i == u.xq.tbindx
           d == u.mem.tx[i]
           next == (i + 1) % NTx
           t == [u EXCEPT !.xq.tbindx = next, !.mem.tx[i].valid = FALSE]
           sent == IF d.last /\ u.xq.loop THEN ethq_insert(t, d.pkt) ELSE t
           m == [l EXCEPT !.s = sent, !.consumed = TRUE]
<1>1. TurboTransmitRound(l) = IF d.valid THEN m ELSE l
  BY DEF TurboTransmitRound
<1>2. Shaped(u) /\ Turbo(u) /\ Packed(u.xq) /\ Spares(s, u)
  BY DEF Posting, Spares, Turbo
<1>3. CASE j < n
  <2>1. i = At(j, t0) /\ Left(u.mem.tx, j, n, t0)
    BY <1>3 DEF Posting
  <2>2. /\ i \in 0 .. NTx - 1 /\ Along(i, t0) = j /\ next = At(j + 1, t0)
        /\ j \in Nat
    BY <2>1, AlongIs, Lists
  <2>3. d.valid /\ d.pkt \in Packets /\ i \in DOMAIN u.mem.tx /\ "valid" \in DOMAIN u.mem.tx[i]
    BY <1>3, <2>1, <2>2, Lists DEF Left
  <2>4. m.s = sent /\ m.consumed = TRUE /\ {"s", "consumed"} \subseteq DOMAIN m
    BY DEF Posting
  <2> HIDE DEF u, i, next
  <2>5. Cleaned(u, t, i, next)
    BY <1>2, <2>3, EntryCleaned
  <2> HIDE DEF t, m
  <2>6. Left(t.mem.tx, j + 1, n, t0)
    BY <1>3, <2>1, <2>2, <2>5, LeftCleaned
  <2>7. Spares(u, sent) /\ sent.mem = t.mem /\ sent.xq.tbindx = t.xq.tbindx
    <3>1. Spares(u, t) /\ Shaped(t) /\ Packed(t.xq)
      BY <2>5 DEF Cleaned, Spares
    <3>2. CASE d.last /\ u.xq.loop
      <4> DEFINE p == d.pkt
      <4>1. p \in Packets /\ sent = ethq_insert(t, p)
        BY <2>3, <3>2
      <4> HIDE DEF p, sent
      <4> QED BY <3>1, <4>1, PutSpares, SparesChain
    <3>3. CASE ~(d.last /\ u.xq.loop)
      <4>1. sent = t
        BY <3>3
      <4> QED BY <3>1, <4>1
    <3> QED BY <3>2, <3>3
  <2> HIDE DEF sent, d
  <2>8. Spares(s, sent) /\ sent.xq.tbindx = At(j + 1, t0) /\ Left(sent.mem.tx, j + 1, n, t0)
    BY <1>2, <2>2, <2>5, <2>6, <2>7, SparesChain DEF Cleaned
  <2>9. (IF j + 1 < n THEN j + 1 ELSE n) = j + 1 /\ j + 1 > 0
    BY <1>3
  <2>10. Posting(s, n, t0, j + 1, m)
    BY <2>4, <2>8, <2>9 DEF Posting
  <2> QED BY <1>1, <2>3, <2>10
<1>4. CASE ~(j < n)
  <2>1. i = At(n, t0) /\ Left(u.mem.tx, n, n, t0)
    BY <1>4 DEF Posting
  <2>2. i \in 0 .. NTx - 1 /\ Along(i, t0) \in 0 .. NTx - 1
    BY <2>1, AlongIs, Lists
  <2>3. ~d.valid
    BY <2>1, <2>2, Lists DEF Left
  <2>4. (IF j + 1 < n THEN j + 1 ELSE n) = n /\ (IF j < n THEN j ELSE n) = n /\ j + 1 > 0 /\ j > 0
    BY <1>4
  <2>5. Posting(s, n, t0, j + 1, l)
    BY <2>4 DEF Posting
  <2> QED BY <1>1, <2>3, <2>5
<1> QED BY <1>3, <1>4

(* The packets of the ring, in their order; those from c on are still to   *)
(* come.                                                                   *)
Unrolled(tx, n, t0) == [c \in 0 .. n - 1 |-> tx[At(c, t0)]]

Traces(s, u, n, t0, c, r) ==
    /\ \A k \in c .. n - 1 : u.mem.tx[At(k, t0)] = s.mem.tx[At(k, t0)]
    /\ LET tx == Unrolled(s.mem.tx, n, t0)
       IN  \A w, top : Numbers(tx, n, top) /\ Orders(s, r, w, tx, n, 0, top) => Orders(u, r, w, tx, n, c, top)

LEMMA EntryTraces ==
    ASSUME NEW s, NEW u, NEW n \in 1 .. NTx, NEW t0 \in 0 .. NTx - 1, NEW c \in 0 .. n - 1,
           NEW r \in 0 .. NRx - 1,
           Traces(s, u, n, t0, c, r), DOMAIN u.mem.tx = 0 .. NTx, NEW i, i = At(c, t0),
           NEW d, d = u.mem.tx[i], d.pkt \in Packets, NEW t, NEW next, Cleaned(u, t, i, next), NEW loop,
           NEW z, z = IF d.last /\ loop THEN ethq_insert(t, d.pkt) ELSE t,
           NEW more, more = c + 1
    PROVE  Traces(s, z, n, t0, more, r)
<1> DEFINE tx == Unrolled(s.mem.tx, n, t0)
           p == d.pkt
<1>1. n \in Nat /\ c \in Nat /\ c \in c .. n - 1 /\ Shaped(t) /\ Carries(u, t, r)
  BY Lists, EvenCarries DEF Cleaned, Spares
<1>2. d = tx[c]
  <2>1. u.mem.tx[At(c, t0)] = s.mem.tx[At(c, t0)]
    BY <1>1 DEF Traces
  <2> QED BY <2>1 DEF Unrolled
<1>3. z.mem = t.mem
  <2>1. ethq_insert(t, p).mem = t.mem
    BY <1>1, InsertCalm DEF Calm
  <2> QED BY <2>1
<1>4. ASSUME NEW k \in more .. n - 1 PROVE z.mem.tx[At(k, t0)] = s.mem.tx[At(k, t0)]
  <2>1. k \in c .. n - 1 /\ k # c /\ {k, c} \subseteq 0 .. NTx - 1 /\ {k, c} \subseteq 0 .. NTx
    BY Lists
  <2>2. At(k, t0) \in 0 .. NTx - 1 /\ Along(At(k, t0), t0) = k /\ Along(At(c, t0), t0) = c
    BY <2>1, AlongIs
  <2>3. At(k, t0) \in DOMAIN u.mem.tx /\ At(k, t0) # i
    BY <2>1, <2>2, Lists
  <2>4. t.mem.tx[At(k, t0)] = u.mem.tx[At(k, t0)]
    BY <2>3 DEF Cleaned
  <2> QED BY <1>3, <2>1, <2>4 DEF Traces
<1>5. ASSUME NEW w, NEW top, Numbers(tx, n, top), Orders(s, r, w, tx, n, 0, top)
      PROVE  Orders(z, r, w, tx, n, more, top)
  <2>1. Orders(u, r, w, tx, n, c, top)
    BY <1>5 DEF Traces
  <2> HIDE DEF tx
  <2>2. Orders(t, r, w, tx, n, c, top) /\ Orders(t, r, w, tx, n, more, top)
    BY <1>1, <2>1, OrdersCarry
  <2>3. CASE d.last /\ loop
    <3>1. z = ethq_insert(t, p) /\ p = tx[c].pkt /\ p \in Packets /\ tx[c].last
      BY <1>2, <2>3
    <3> HIDE DEF p
    <3> QED BY <1>1, <1>5, <2>2, <3>1, PutOrders
  <2>4. CASE ~(d.last /\ loop)
    BY <2>2, <2>4
  <2> QED BY <2>3, <2>4
<1> QED BY <1>4, <1>5 DEF Traces

LEMMA RoundTraces ==
    ASSUME NEW s, Turbo(s), NEW n \in 1 .. NTx, NEW t0 \in 0 .. NTx - 1, NEW j \in 0 .. NTx - 1, NEW l,
           Posting(s, n, t0, j, l), NEW r \in 0 .. NRx - 1,
           NEW c, c = (IF j < n THEN j ELSE n), Traces(s, l.s, n, t0, c, r),
           NEW z, z = TurboTransmitRound(l), NEW more, more = IF j + 1 < n THEN j + 1 ELSE n
    PROVE  Traces(s, z.s, n, t0, more, r)
<1> DEFINE u == l.s
           i == u.xq.tbindx
           d == u.mem.tx[i]
           next == (i + 1) % NTx
           t == [u EXCEPT !.xq.tbindx = next, !.mem.tx[i].valid = FALSE]
           sent == IF d.last /\ u.xq.loop THEN ethq_insert(t, d.pkt) ELSE t
           m == [l EXCEPT !.s = sent, !.consumed = TRUE]
<1>1. z = IF d.valid THEN m ELSE l
  BY DEF TurboTransmitRound
<1>2. Shaped(u) /\ Turbo(u) /\ Packed(u.xq) /\ i = At(c, t0) /\ Left(u.mem.tx, c, n, t0)
  BY DEF Posting, Spares, Turbo
<1>3. i \in 0 .. NTx - 1 /\ i \in 0 .. NTx /\ c \in 0 .. n
  <2>1. c \in 0 .. NTx /\ c \in 0 .. n
    BY Lists
  <2>2. At(c, t0) \in 0 .. NTx - 1
    BY <2>1, AlongIs
  <2>3. i = At(c, t0)
    BY <1>2
  <2> HIDE DEF i
  <2> QED BY <2>1, <2>2, <2>3, Lists
<1>4. CASE j < n
  <2>1. c \in 0 .. n - 1 /\ c \in 0 .. NTx - 1 /\ more = c + 1
    BY <1>4, Lists
  <2>2. Along(i, t0) = c
    BY <1>2, <2>1, AlongIs
  <2>3. d.valid /\ d.pkt \in Packets /\ DOMAIN u.mem.tx = 0 .. NTx /\ i \in DOMAIN u.mem.tx
        /\ "valid" \in DOMAIN u.mem.tx[i]
    BY <1>2, <1>3, <2>1, <2>2 DEF Left
  <2>4. m.s = sent
    BY DEF Posting
  <2> HIDE DEF u, i, next, m
  <2>5. Cleaned(u, t, i, next)
    BY <1>2, <2>3, EntryCleaned
  <2> HIDE DEF t
  <2> DEFINE loop == u.xq.loop
  <2>6. Traces(s, u, n, t0, c, r) /\ sent = IF d.last /\ loop THEN ethq_insert(t, d.pkt) ELSE t
    BY DEF u
  <2>7. d = u.mem.tx[i] /\ d.pkt \in Packets
    BY <2>3
  <2> HIDE DEF sent, d, loop
  <2>8. Traces(s, sent, n, t0, more, r)
    BY <1>2, <2>1, <2>3, <2>5, <2>6, <2>7, EntryTraces
  <2> QED BY <1>1, <2>3, <2>4, <2>8
<1>5. CASE ~(j < n)
  <2>1. c = n /\ more = n
    BY <1>5
  <2>2. Along(i, t0) \in 0 .. NTx - 1
    BY <1>3, AlongIs
  <2>3. ~d.valid
    BY <1>2, <1>3, <2>1, <2>2, Lists DEF Left
  <2> QED BY <1>1, <2>1, <2>3
<1> QED BY <1>4, <1>5

(* The whole ring: the driver is told, and the network is read.            *)
Posts(s, z, n, t0, r) ==
    /\ Rolls(z, r)
    /\ z.xq.units = s.xq.units /\ z.xq.srr = s.xq.srr /\ z.xq.icr = s.xq.icr
    /\ z.xq.tbindx = At(n, t0)
    /\ Coming(z.xq)
    /\ s.xq.icr /\ ~s.xq.pending => ~z.xq.pending
    /\ LET tx == Unrolled(s.mem.tx, n, t0)
       IN  \A w, top : Numbers(tx, n, top) /\ Orders(s, r, w, tx, n, 0, top) => Orders(z, r, w, tx, n, n, top)

LEMMA TransmitPosts ==
    ASSUME NEW s, NEW r \in 0 .. NRx - 1, Rolls(s, r), NEW n \in 1 .. NTx, NEW t0 \in 0 .. NTx - 1,
           s.xq.tbindx = t0, Left(s.mem.tx, 0, n, t0)
    PROVE  Posts(s, TurboTransmit(s), n, t0, r)
<1> DEFINE R == TurboTransmitRounds(s)
           Done(j) == IF j < n THEN j ELSE n
           B == {j \in 0 .. NTx : Posting(s, n, t0, j, R[j]) /\ Traces(s, R[j].s, n, t0, Done(j), r)}
<1>1. /\ R[0] = [s |-> s, consumed |-> FALSE]
      /\ \A j \in 0 .. NTx - 1 : R[j + 1] = TurboTransmitRound(R[j])
  BY TurboTransmitLoop
<1> HIDE DEF R
<1>2. 0 \in B
  <2> DEFINE l == R[0]
  <2>1. l.s = s /\ l.consumed = FALSE /\ {"s", "consumed"} \subseteq DOMAIN l
    BY <1>1
  <2> HIDE DEF l
  <2>2. Spares(s, s) /\ (IF 0 < n THEN 0 ELSE n) = 0 /\ At(0, t0) = t0
    BY AlongIs, Lists DEF Spares, Rolls
  <2>3. Posting(s, n, t0, 0, l)
    BY <2>1, <2>2 DEF Posting
  <2>4. Traces(s, l.s, n, t0, Done(0), r)
    BY <2>1, <2>2 DEF Traces
  <2> QED BY <2>3, <2>4, Lists DEF l
<1>3. ASSUME NEW j \in 0 .. NTx - 1, j \in B PROVE j + 1 \in B
  <2>1. Posting(s, n, t0, j + 1, TurboTransmitRound(R[j]))
    BY <1>3, RoundPosts DEF Rolls
  <2>2. Traces(s, TurboTransmitRound(R[j]).s, n, t0, Done(j + 1), r)
    <3> DEFINE c == Done(j)
               more == Done(j + 1)
    <3>1. Traces(s, R[j].s, n, t0, c, r) /\ Posting(s, n, t0, j, R[j])
      BY <1>3
    <3>2. c = (IF j < n THEN j ELSE n) /\ more = IF j + 1 < n THEN j + 1 ELSE n
      OBVIOUS
    <3> HIDE DEF Done
    <3> HIDE DEF c, more
    <3>3. Traces(s, TurboTransmitRound(R[j]).s, n, t0, more, r)
      BY <3>1, <3>2, RoundTraces DEF Rolls
    <3> QED BY <3>3 DEF more
  <2> HIDE DEF Done
  <2> QED BY <1>1, <2>1, <2>2, Lists
<1>4. 0 .. NTx \subseteq B
  <2> HIDE DEF B
  <2> QED BY <1>2, <1>3, Climb, Lists
<1> DEFINE l == R[NTx]
           t == l.s
           u == xq_setint(t)
           z == xq_svc(u)
<1>5. Posting(s, n, t0, NTx, l) /\ Traces(s, l.s, n, t0, Done(NTx), r)
  BY <1>4, Lists
<1>6. TurboTransmit(s) = IF l.consumed THEN z ELSE t
  BY DEF TurboTransmit, R
<1>7. (IF NTx < n THEN NTx ELSE n) = n /\ NTx > 0
  BY Lists
<1> HIDE DEF l
<1>8. Spares(s, t) /\ l.consumed /\ t.xq.tbindx = At(n, t0) /\ Traces(s, t, n, t0, n, r)
  BY <1>5, <1>7 DEF Posting
<1> HIDE DEF t
<1>9. Rolls(t, r)
  BY <1>8 DEF Spares, Rolls, Turbo, Circle
<1>10. Spins(t, u, r) /\ Coming(u.xq)
  BY <1>9, SpinsInt DEF Rolls
<1>11. Rolls(u, r)
  BY <1>9, <1>10, SpinsRolls
<1> HIDE DEF u
<1>12. Spins(u, z, r) /\ Rolls(z, r)
  BY <1>11, SvcSpins, SpinsRolls
<1> HIDE DEF z
<1>13. Spins(t, z, r) /\ Coming(z.xq)
  BY <1>10, <1>12, SpinsChain DEF Spins
<1>14. Carries(t, z, r)
  BY <1>13 DEF Spins
<1> DEFINE tx == Unrolled(s.mem.tx, n, t0)
<1>15. ASSUME NEW w, NEW top, Numbers(tx, n, top), Orders(s, r, w, tx, n, 0, top)
       PROVE  Orders(z, r, w, tx, n, n, top)
  <2>1. Orders(t, r, w, tx, n, n, top) /\ n \in Nat
    BY <1>8, <1>15 DEF Traces
  <2> HIDE DEF tx
  <2> QED BY <1>14, <2>1, OrdersCarry
<1>16. Posts(s, z, n, t0, r)
  BY <1>8, <1>12, <1>13, <1>15 DEF Posts, Spins, Steady, Quiet, Spares
<1> QED BY <1>6, <1>8, <1>16

-----------------------------------------------------------------------------
(* The steps in turbo mode                                                 *)

LEMMA HoldsTurbo ==
    ASSUME XqInv, CallInv, xq.mode = "turbo"
    PROVE  Shaped(State) /\ Turbo(State) /\ Packed(xq) /\ RingInv(xq, mem.rx, drv)
BY Holds DEF CallPart, Turbo

LEMMA HoldsTurns ==
    ASSUME XqInv, CallInv, xq.mode = "turbo", drv.pc \in {"idle", "ack", "scan", "relist"}
    PROVE  Turns(xq, mem.rx, drv) /\ Rolls(State, drv.rix)
<1>1. Turns(xq, mem.rx, drv)
  BY HoldsTurbo DEF RingInv
<1> QED BY <1>1, Holds, HoldsTurbo DEF Turns, Rolls

LEMMA CallReceiveRing == ASSUME XqInv, CallInv, xq.mode = "turbo", xq_receivesvc PROVE CallInv'
<1> DEFINE a == [State EXCEPT !.xq.units = @ \ {"Rcv"}]
           z == xq_process_rbdl(a)
<1>1. Becomes(z) /\ UNCHANGED <<drv, count>>
  BY DEF xq_receivesvc, Service
<1>2. Retimed(State, a) /\ CallPart(a.xq, a.mem.rx, drv)
  BY TakenHolds
<1> HIDE DEF a
<1>3. Shaped(a) /\ Turbo(a) /\ a.xq.mode = "turbo" /\ RingInv(a.xq, a.mem.rx, drv) /\ Packed(a.xq)
  BY <1>2, Holds DEF Retimed, Turbo, CallPart
<1>4. drv.rix \in 0 .. NRx - 1 /\ Owned(count)
  BY Holds
<1>5. CASE drv.pc \in {"idle", "ack", "scan", "relist"}
  <2>1. Circle(a.xq, a.mem.rx, drv.rix)
    BY <1>3, <1>5 DEF RingInv, Turns
  <2>2. Spins(a, z, drv.rix)
    BY <1>3, <1>4, <2>1, ProcessSpins DEF Rolls
  <2> HIDE DEF z
  <2>3. CallPart(z.xq, z.mem.rx, drv)
    BY <1>2, <1>3, <1>5, <2>2, SpinsKeeps
  <2> QED BY <1>1, <1>4, <2>3, CallBecomes
<1>6. CASE drv.pc \notin {"idle", "ack", "scan", "relist"}
  <2>1. a.xq.srr = "STRT" => a.xq.q = <<>>
    BY <1>3, <1>6 DEF RingInv, Starting
  <2>2. z = a
    BY <1>3, <2>1, ReceiveRests DEF xq_process_rbdl, xq_process_turbo_rbdl
  <2> HIDE DEF z
  <2> QED BY <1>1, <1>2, <1>4, <2>2, CallBecomes
<1> QED BY <1>5, <1>6

(* The answer to a request in turbo mode.                                  *)
LEMMA SrqrAnswers ==
    ASSUME NEW s, Shaped(s), Turbo(s), NEW z, z = xq_wr_srqr_action(s)
    PROVE  /\ z.mem = s.mem /\ z.xq.mode = s.xq.mode /\ z.xq.srr = s.xq.srr /\ z.xq.q = s.xq.q
           /\ z.xq.units \subseteq s.xq.units
           /\ s.xq.srr = "STRT" => z.xq.rbindx = 0 /\ z.xq.tbindx = 0 /\ z.xq.icr /\ ~z.xq.pending
           /\ Even(s, z)
<1>1. CASE s.xq.srr = "STRT"
  <2> DEFINE t == [s EXCEPT !.xq.icr = TRUE, !.xq.rbindx = 0, !.xq.tbindx = 0]
             y == xq_setint(t)
  <2>1. t.xq = [s.xq EXCEPT !.icr = TRUE, !.rbindx = 0, !.tbindx = 0] /\ t.mem = s.mem
        /\ t.net = s.net /\ DOMAIN t = DOMAIN s
    BY DEF Shaped
  <2>2. DOMAIN t.xq = DOMAIN s.xq /\ t.xq.mode = s.xq.mode /\ t.xq.srr = s.xq.srr /\ t.xq.q = s.xq.q
        /\ t.xq.units = s.xq.units /\ t.xq.rba = s.xq.rba /\ t.xq.loss = s.xq.loss
        /\ t.xq.icr = TRUE /\ t.xq.rbindx = 0 /\ t.xq.tbindx = 0
    BY <2>1 DEF Shaped, Registers
  <2>3. Shaped(t) /\ Turbo(t)
    BY <2>1, <2>2 DEF Shaped, Turbo
  <2>4. z = y
    BY <1>1, <2>3 DEF xq_wr_srqr_action, xq_start_receiver
  <2> HIDE DEF t
  <2>5. Alike(t, y) /\ ~y.xq.pending
    BY <2>2, <2>3, SetIntTells
  <2> HIDE DEF y
  <2> QED BY <2>1, <2>2, <2>4, <2>5 DEF Alike, Silent, Quiet, Steady, Even
<1>2. CASE s.xq.srr # "STRT"
  <2> DEFINE U == s.xq.units \ {"Poll", "Start"}
             t == IF s.xq.srr = "STOP" THEN [s EXCEPT !.xq.units = U] ELSE s
             y == xq_setint(t)
  <2>1. z = y
    BY <1>2 DEF xq_wr_srqr_action, xq_stop_receiver
  <2>2. Shaped(t) /\ Turbo(t) /\ t.mem = s.mem /\ t.xq.mode = s.xq.mode /\ t.xq.srr = s.xq.srr
        /\ t.xq.q = s.xq.q
        /\ t.xq.units \subseteq s.xq.units
        /\ t.net = s.net /\ t.xq.loss = s.xq.loss
    <3>1. CASE s.xq.srr = "STOP"
      <4> DEFINE v == [s EXCEPT !.xq.units = U]
      <4>1. Retimed(s, v) /\ v.xq.units = U
        <5> HIDE DEF U
        <5> QED BY Retime
      <4>2. t = v
        BY <3>1
      <4> HIDE DEF v, t
      <4> QED BY <4>1, <4>2 DEF Retimed, Turbo
    <3>2. CASE s.xq.srr # "STOP"
      BY <3>2
    <3> QED BY <3>1, <3>2
  <2> HIDE DEF t
  <2>3. Alike(t, y)
    BY <2>2, SetIntTells
  <2> HIDE DEF y
  <2> QED BY <1>2, <2>1, <2>2, <2>3 DEF Alike, Silent, Quiet, Steady, Even
<1> QED BY <1>1, <1>2

LEMMA CallSrqrRing == ASSUME XqInv, CallInv, xq.mode = "turbo", xq_srqrsvc PROVE CallInv'
<1> DEFINE U == xq.units \ {"Srqr"}
           a == [State EXCEPT !.xq.units = @ \ {"Srqr"}]
           z == xq_wr_srqr_action(a)
<1>1. Becomes(z) /\ UNCHANGED <<drv, count>> /\ "Srqr" \in xq.units
  BY DEF xq_srqrsvc, Service
<1>2. Shaped(State) /\ State.xq = xq /\ State.mem = mem /\ Owned(count) /\ CallPart(xq, mem.rx, drv)
  BY Holds
<1>3. a = [State EXCEPT !.xq.units = U]
  BY <1>2
<1>4. "Srqr" \notin U /\ ("Poll" \notin xq.units => "Poll" \notin U)
  OBVIOUS
<1> HIDE DEF a, U
<1>5. Retimed(State, a) /\ a.xq.units = U
  BY <1>2, <1>3, Retime
<1>6. Shaped(a) /\ Turbo(a) /\ a.xq.mode = "turbo" /\ a.xq.srr = xq.srr /\ a.xq.q = xq.q /\ a.mem = mem
  BY <1>2, <1>5 DEF Retimed, Turbo
<1>7. /\ z.mem = mem /\ z.xq.mode = "turbo" /\ z.xq.srr = xq.srr /\ z.xq.q = xq.q
      /\ z.xq.units \subseteq U
      /\ xq.srr = "STRT" => z.xq.rbindx = 0 /\ z.xq.tbindx = 0 /\ z.xq.icr /\ ~z.xq.pending
  BY <1>5, <1>6, SrqrAnswers
<1>8. RingInv(xq, mem.rx, drv) /\ Packed(xq)
  BY HoldsTurbo
<1> HIDE DEF z
<1>9. RingInv(z.xq, mem.rx, drv)
  BY <1>1, <1>4, <1>7, <1>8 DEF RingInv, Starting, Turns
<1>10. CallPart(z.xq, z.mem.rx, drv)
  BY <1>2, <1>7, <1>8, <1>9 DEF CallPart, Packed
<1> QED BY <1>1, <1>2, <1>10, CallBecomes

(* The new ring is empty.                                                  *)
LEMMA NewCircle ==
    ASSUME NEW x, x.rbindx = 0
    PROVE  Circle(x, NewRx, 0)
<1> USE Lists
<1>1. \A i \in 0 .. NRx : ~Full(NewRx, i) /\ (NewRx[i].valid <=> i < NRx)
  BY DEF NewRx, Buffer, Full
<1>2. \A i \in 0 .. NRx - 1 : ~(Off(i, 0) < Off(0, 0))
  BY DEF Off
<1> QED BY <1>1, <1>2 DEF Circle

(* The interrupt is taken.                                                 *)
LEMMA CallInt == ASSUME XqInv, CallInv, xq_int PROVE CallInv'
<1> DEFINE z == xq_clrint(State)
           pc == IF drv.pc \in {"idle", "waiting"} THEN "ack" ELSE "down"
<1>1. Becomes(z) /\ UNCHANGED count /\ xq.irq /\ drv.pc \in {"idle", "waiting", "stopping", "down"}
      /\ drv' = [drv EXCEPT !.pc = pc]
  BY DEF xq_int
<1>2. Shaped(State) /\ State.xq = xq /\ State.mem = mem /\ Owned(count) /\ CallPart(xq, mem.rx, drv)
      /\ DrvFields \subseteq DOMAIN drv /\ xq.mode \in {"normal", "turbo"}
  BY Holds
<1> HIDE DEF pc
<1>3. drv'.pc = pc /\ drv'.want = drv.want /\ drv'.rix = drv.rix /\ drv'.busy = drv.busy /\ drv'.tix = drv.tix
      /\ drv'.seen = drv.seen
  BY <1>1, <1>2 DEF DrvFields
<1>4. Alike(State, z) /\ ~z.xq.irq /\ z.xq.pending = xq.pending
  BY <1>2, ClrIntTells
<1> HIDE DEF z
<1>5. /\ z.mem = mem /\ z.xq.mode = xq.mode /\ z.xq.units = xq.units /\ z.xq.csr = xq.csr /\ z.xq.q = xq.q
      /\ z.xq.rba = xq.rba /\ z.xq.srr = xq.srr /\ z.xq.icr = xq.icr /\ z.xq.rbindx = xq.rbindx
      /\ z.xq.tbindx = xq.tbindx
  BY <1>2, <1>4 DEF Alike, Silent, Quiet, Steady
<1>6. CASE xq.mode = "normal"
  <2>1. ListInv(xq, mem.rx, drv)
    BY <1>2, <1>6 DEF CallPart
  <2>2. CASE drv.pc = "idle"
    <3>1. pc = "ack"
      BY <2>2 DEF pc
    <3>2. Reads(xq, mem.rx, drv) /\ "SR" \notin xq.csr /\ "Srqr" \notin xq.units
          /\ (drv.busy => "XI" \in xq.csr)
      BY <2>1, <2>2 DEF ListInv, Waits
    <3>3. Reads(z.xq, mem.rx, drv')
      BY <1>3, <1>5, <2>2, <3>1, <3>2 DEF Reads, Waits, Ring, Open, AtEnd, Depth, Told
    <3>4. Called(z.xq, Seen(drv'))
      BY <1>3, <3>1 DEF Called, Seen
    <3>5. ListInv(z.xq, mem.rx, drv')
      BY <1>3, <1>5, <3>1, <3>2, <3>3, <3>4 DEF ListInv, Waits
    <3> QED BY <1>1, <1>2, <1>3, <1>5, <1>6, <3>5, CallBecomes DEF CallPart, Packed
  <2>3. CASE drv.pc # "idle"
    <3>1. pc = "down" /\ drv.pc = "down"
      BY <1>1, <2>1, <2>3 DEF pc, ListInv, Waits
    <3>2. ListInv(z.xq, mem.rx, drv')
      BY <1>3, <1>5, <2>1, <3>1 DEF ListInv, Waits, Rests, Blank, Called
    <3> QED BY <1>1, <1>2, <1>3, <1>5, <1>6, <3>2, CallBecomes DEF CallPart, Packed
  <2> QED BY <2>2, <2>3
<1>7. CASE xq.mode = "turbo"
  <2>1. RingInv(xq, mem.rx, drv)
    BY <1>2, <1>7 DEF CallPart
  <2>2. CASE drv.pc = "idle"
    <3>1. pc = "ack"
      BY <2>2 DEF pc
    <3>2. Turns(z.xq, mem.rx, drv')
      BY <1>3, <1>4, <1>5, <2>1, <2>2, <3>1 DEF RingInv, Turns, Circle
    <3>3. RingInv(z.xq, mem.rx, drv')
      BY <1>3, <1>5, <2>1, <3>1, <3>2 DEF RingInv
    <3> QED BY <1>1, <1>2, <1>3, <1>5, <1>7, <3>3, CallBecomes DEF CallPart, Packed
  <2>3. CASE drv.pc = "waiting"
    <3>1. pc = "ack"
      BY <2>3 DEF pc
    <3>2. /\ Starting(xq, mem.rx, drv) /\ xq.srr = "STRT" /\ "Srqr" \notin xq.units
          /\ xq.rbindx = 0 /\ xq.tbindx = 0 /\ xq.icr /\ ~xq.pending
      BY <1>1, <2>1, <2>3 DEF RingInv
    <3>3. Circle(z.xq, NewRx, 0)
      BY <1>5, <3>2, NewCircle
    <3>4. Turns(z.xq, mem.rx, drv')
      BY <1>3, <1>4, <1>5, <3>1, <3>2, <3>3, Lists DEF Turns, Starting
    <3>5. RingInv(z.xq, mem.rx, drv')
      BY <1>3, <1>5, <2>1, <3>1, <3>4 DEF RingInv
    <3> QED BY <1>1, <1>2, <1>3, <1>5, <1>7, <3>5, CallBecomes DEF CallPart, Packed
  <2>4. CASE drv.pc \in {"stopping", "down"}
    <3>1. pc = "down"
      BY <2>4 DEF pc
    <3>2. RingInv(z.xq, mem.rx, drv')
      BY <1>1, <1>3, <1>5, <2>1, <2>4, <3>1 DEF RingInv
    <3> QED BY <1>1, <1>2, <1>3, <1>5, <1>7, <3>2, CallBecomes DEF CallPart, Packed
  <2> QED BY <1>1, <2>2, <2>3, <2>4
<1> QED BY <1>2, <1>6, <1>7

LEMMA CallEnterTurbo == ASSUME XqInv, CallInv, EnterTurbo PROVE CallInv'
<1> DEFINE s == State
           e == xq_enter_turbo(s)
           z == [e EXCEPT !.mem.rx = [i \in 0 .. NRx |-> Buffer(i < NRx)]]
<1>1. Becomes(z) /\ UNCHANGED <<drv, count>> /\ drv.pc = "down" /\ xq.mode = "normal"
      /\ "Srqr" \notin xq.units /\ ~xq.irq
  BY DEF EnterTurbo, Settled
<1>2. Shaped(s) /\ s.xq = xq /\ s.mem = mem /\ Owned(count) /\ CallPart(xq, mem.rx, drv)
  BY Holds
<1>3. Rests(xq, mem.rx, drv)
  BY <1>1, HoldsNormal DEF ListInv
<1> HIDE DEF s
<1>4. e.xq = [s.xq EXCEPT !.mode = "turbo", !.srr = "TRBO", !.units = @ \ {"Poll"}] /\ e.mem = s.mem
      /\ {"xq", "mem"} \subseteq DOMAIN e /\ "rx" \in DOMAIN s.mem
  BY <1>2 DEF xq_enter_turbo, Shaped
<1> HIDE DEF e
<1>5. z.xq = e.xq /\ z.mem.rx = NewRx
  BY <1>4 DEF NewRx
<1> HIDE DEF z
<1>6. /\ z.xq.mode = "turbo" /\ z.xq.srr = "TRBO" /\ z.xq.units = xq.units \ {"Poll"} /\ z.xq.irq = xq.irq
      /\ z.xq.q = xq.q
  BY <1>2, <1>4, <1>5 DEF Shaped, Registers
<1>7. RingInv(z.xq, z.mem.rx, drv)
  BY <1>1, <1>3, <1>5, <1>6 DEF RingInv, Starting, Rests
<1>8. CallPart(z.xq, z.mem.rx, drv)
  BY <1>2, <1>6, <1>7 DEF CallPart, Packed
<1> QED BY <1>1, <1>2, <1>8, CallBecomes

(* A request to start or to stop.                                          *)
LEMMA Requested ==
    ASSUME NEW s, Shaped(s), NEW req, NEW z, z = xq_wr_srqr_set(s, req)
    PROVE  /\ Shaped(z) /\ z.mem = s.mem /\ z.xq.mode = s.xq.mode /\ z.xq.srr = req /\ z.xq.q = s.xq.q
           /\ z.xq.irq = s.xq.irq /\ z.xq.units = s.xq.units \cup {"Srqr"}
           /\ Even(s, z)
<1> DEFINE t == [s EXCEPT !.xq.srr = req]
           u == Activate(t, "Srqr")
           U == t.xq.units \cup {"Srqr"}
<1>1. t.xq = [s.xq EXCEPT !.srr = req] /\ t.mem = s.mem /\ t.net = s.net /\ DOMAIN t = DOMAIN s
  BY DEF Shaped
<1>2. z = u
  BY DEF xq_wr_srqr_set
<1> HIDE DEF t
<1>3. DOMAIN t.xq = DOMAIN s.xq /\ t.xq.mode = s.xq.mode /\ t.xq.srr = req /\ t.xq.q = s.xq.q
      /\ t.xq.irq = s.xq.irq /\ t.xq.units = s.xq.units /\ t.xq.rba = s.xq.rba /\ t.xq.loss = s.xq.loss
  BY <1>1 DEF Shaped, Registers
<1>4. Shaped(t)
  BY <1>1, <1>3 DEF Shaped
<1>5. u = [t EXCEPT !.xq.units = U]
  BY DEF Activate
<1> HIDE DEF u, U
<1>6. Retimed(t, u) /\ u.xq.units = U
  <2> DEFINE v == [t EXCEPT !.xq.units = U]
  <2>1. Retimed(t, v) /\ v.xq.units = U
    BY <1>4, Retime
  <2> QED BY <1>5, <2>1
<1> QED BY <1>1, <1>2, <1>3, <1>6 DEF Retimed, Even, U

LEMMA CallStartTurbo == ASSUME XqInv, CallInv, StartTurbo PROVE CallInv'
<1> DEFINE y == xq_wr_srqr_set(State, "STRT")
<1>1. PICK loop \in BOOLEAN : Becomes([y EXCEPT !.xq.loop = loop])
  BY DEF StartTurbo
<1> DEFINE z == [y EXCEPT !.xq.loop = loop]
<1>2. Becomes(z) /\ UNCHANGED count /\ drv' = [drv EXCEPT !.pc = "waiting"]
      /\ drv.pc = "down" /\ xq.mode = "turbo" /\ xq.srr = "TRBO"
  BY <1>1 DEF StartTurbo
<1>3. Shaped(State) /\ State.xq = xq /\ State.mem = mem /\ Owned(count) /\ DrvFields \subseteq DOMAIN drv
      /\ CallPart(xq, mem.rx, drv) /\ RingInv(xq, mem.rx, drv)
  BY <1>2, Holds, HoldsTurbo
<1>4. Starting(xq, mem.rx, drv) /\ ~xq.irq /\ "Poll" \notin xq.units
  BY <1>2, <1>3 DEF RingInv
<1>5. /\ Shaped(y) /\ y.mem = mem /\ y.xq.mode = "turbo" /\ y.xq.srr = "STRT" /\ y.xq.q = xq.q
      /\ y.xq.irq = xq.irq /\ y.xq.units = xq.units \cup {"Srqr"}
  BY <1>2, <1>3, Requested
<1> HIDE DEF y
<1>6. z.xq = [y.xq EXCEPT !.loop = loop] /\ z.mem = y.mem
  BY <1>5 DEF Shaped
<1> HIDE DEF z
<1>7. /\ z.xq.mode = "turbo" /\ z.xq.srr = "STRT" /\ z.xq.q = xq.q /\ z.xq.irq = xq.irq
      /\ z.xq.units = xq.units \cup {"Srqr"} /\ z.mem = mem
  BY <1>5, <1>6 DEF Shaped, Registers
<1>8. drv'.pc = "waiting" /\ drv'.want = drv.want /\ drv'.rix = drv.rix /\ drv'.tix = drv.tix
      /\ drv'.busy = drv.busy
  BY <1>2, <1>3 DEF DrvFields
<1>9. RingInv(z.xq, z.mem.rx, drv')
  BY <1>4, <1>7, <1>8 DEF RingInv, Starting
<1>10. CallPart(z.xq, z.mem.rx, drv')
  BY <1>3, <1>7, <1>8, <1>9 DEF CallPart, Packed
<1> QED BY <1>2, <1>3, <1>10, CallBecomes

LEMMA CallStopTurbo == ASSUME XqInv, CallInv, StopTurbo PROVE CallInv'
<1> DEFINE z == xq_wr_srqr_set(State, "STOP")
<1>1. Becomes(z) /\ UNCHANGED count /\ drv' = [drv EXCEPT !.pc = "stopping"] /\ xq.mode = "turbo"
  BY DEF StopTurbo
<1>2. Shaped(State) /\ State.xq = xq /\ Owned(count) /\ DrvFields \subseteq DOMAIN drv
      /\ CallPart(xq, mem.rx, drv) /\ RingInv(xq, mem.rx, drv)
  BY <1>1, Holds, HoldsTurbo
<1>3. z.xq.mode = "turbo" /\ z.xq.srr = "STOP" /\ z.xq.q = xq.q /\ z.xq.units = xq.units \cup {"Srqr"}
  BY <1>1, <1>2, Requested
<1> HIDE DEF z
<1>4. drv'.pc = "stopping" /\ drv'.want = drv.want
  BY <1>1, <1>2 DEF DrvFields
<1>5. RingInv(z.xq, z.mem.rx, drv')
  BY <1>2, <1>3, <1>4 DEF RingInv
<1>6. CallPart(z.xq, z.mem.rx, drv')
  BY <1>2, <1>3, <1>4, <1>5 DEF CallPart, Packed
<1> QED BY <1>1, <1>2, <1>6, CallBecomes

LEMMA CallAcknowledgeRing ==
    ASSUME XqInv, CallInv, xq.mode = "turbo", Acknowledge
    PROVE  CallInv'
<1> DEFINE z == xq_wr_icr(State, FALSE)
           busy == drv.busy /\ ~(xq.mode = "turbo" \/ "XI" \in drv.seen)
<1>1. RingInv(xq, mem.rx, drv) /\ Shaped(State) /\ State.xq = xq /\ State.mem = mem /\ Owned(count)
      /\ DrvFields \subseteq DOMAIN drv /\ CallPart(xq, mem.rx, drv)
  BY Holds, HoldsTurbo
<1>2. drv.pc = "ack" /\ Becomes(z) /\ drv' = [drv EXCEPT !.pc = "scan", !.busy = busy] /\ UNCHANGED count
  BY <1>1 DEF Acknowledge, RingInv
<1>3. busy = FALSE
  OBVIOUS
<1> HIDE DEF busy
<1>4. drv'.pc = "scan" /\ drv'.want = drv.want /\ drv'.rix = drv.rix /\ drv'.tix = drv.tix /\ drv'.busy = FALSE
  BY <1>1, <1>2, <1>3 DEF DrvFields
<1>5. z.xq = [xq EXCEPT !.icr = FALSE] /\ z.mem = mem
  BY <1>1 DEF xq_wr_icr, Shaped
<1> HIDE DEF z
<1>6. /\ z.xq.mode = xq.mode /\ z.xq.srr = xq.srr /\ z.xq.q = xq.q /\ z.xq.units = xq.units
      /\ z.xq.icr = FALSE /\ z.xq.rbindx = xq.rbindx /\ z.xq.tbindx = xq.tbindx
  BY <1>1, <1>5 DEF Shaped, Registers
<1>7. Turns(xq, mem.rx, drv)
  BY <1>1, <1>2 DEF RingInv
<1>8. Turns(z.xq, mem.rx, drv')
  BY <1>4, <1>6, <1>7 DEF Turns, Circle
<1>9. RingInv(z.xq, mem.rx, drv')
  BY <1>1, <1>4, <1>6, <1>8 DEF RingInv
<1>10. CallPart(z.xq, z.mem.rx, drv')
  BY <1>1, <1>4, <1>5, <1>6, <1>9 DEF CallPart, Packed
<1> QED BY <1>1, <1>2, <1>10, CallBecomes

(* The driver gives buffer r back and goes to the next.                    *)
LEMMA CircleReads ==
    ASSUME NEW x, NEW rx, NEW r \in 0 .. NRx - 1, Circle(x, rx, r), Full(rx, r), NEW next, NEW h,
           Passes(r, next, h),
           NEW ry, ~Full(ry, r), ry[r].valid, \A i \in 0 .. NRx : i # r => ry[i] = rx[i]
    PROVE  Circle(x, ry, next)
<1> USE Lists
<1> DEFINE b == x.rbindx
<1>1. b \in 0 .. NRx - 1 /\ ~Full(ry, NRx)
  BY DEF Circle, Full
<1>2. ASSUME NEW i \in 0 .. NRx - 1
      PROVE  (ry[i].valid <=> ~Full(ry, i)) /\ (i # r => (Full(ry, i) <=> Full(rx, i)))
  <2>1. i \in 0 .. NRx /\ (rx[i].valid <=> ~Full(rx, i))
    BY DEF Circle
  <2>2. i # r => ry[i] = rx[i]
    BY <2>1
  <2> QED BY <2>1, <2>2 DEF Full
<1>3. Full(rx, r)
  OBVIOUS
<1>4. \A i \in 0 .. NRx - 1 :
           /\ Off(i, r) \in 0 .. NRx - 1
           /\ Off(i, r) = 0 <=> i = r
           /\ Off(i, next) = IF i = r THEN NRx - 1 ELSE Off(i, r) - 1
  BY DEF Passes
<1>5. \/ b = r /\ \A i \in 0 .. NRx - 1 : Full(rx, i)
      \/ \A i \in 0 .. NRx - 1 : Full(rx, i) <=> Off(i, r) < Off(b, r)
  BY DEF Circle
<1> HIDE DEF Off, b
<1>6. \A i \in 0 .. NRx - 1 : Full(ry, i) <=> Off(i, next) < Off(b, next)
  <2>1. CASE b = r /\ \A i \in 0 .. NRx - 1 : Full(rx, i)
    BY <1>1, <1>2, <1>4, <2>1
  <2>2. CASE \A i \in 0 .. NRx - 1 : Full(rx, i) <=> Off(i, r) < Off(b, r)
    <3>1. Off(b, r) > 0 /\ b # r
      BY <1>1, <1>3, <1>4, <2>2
    <3> QED BY <1>1, <1>2, <1>4, <2>2, <3>1
  <2> QED BY <1>5, <2>1, <2>2
<1> QED BY <1>1, <1>2, <1>6 DEF Circle, b

LEMMA CallReadRing == ASSUME XqInv, CallInv, xq.mode = "turbo", ReadSegment PROVE CallInv'
<1> DEFINE r == drv.rix
           h == (r + NRx - 1) % NRx
           next == (r + 1) % NRx
           ry == [mem.rx EXCEPT ![r] = Buffer(TRUE)]
           log == Append(drv.log, mem.rx[r].st)
<1>1. drv' = [drv EXCEPT !.rix = next, !.log = log]
  BY DEF ReadSegment
<1>2. drv.pc = "scan" /\ Full(mem.rx, r) /\ UNCHANGED <<xq, net, count>> /\ mem' = [mem EXCEPT !.rx = ry]
  BY DEF ReadSegment, Full
<1>3. RingInv(xq, mem.rx, drv) /\ CallPart(xq, mem.rx, drv) /\ Owned(count) /\ DrvFields \subseteq DOMAIN drv
      /\ r \in 0 .. NRx - 1 /\ DOMAIN mem.rx = 0 .. NRx /\ "rx" \in DOMAIN mem
  BY Holds, HoldsTurbo DEF Shaped
<1>4. Turns(xq, mem.rx, drv) /\ Circle(xq, mem.rx, r)
  BY <1>2, <1>3 DEF RingInv, Turns
<1> HIDE DEF log
<1>5. /\ ~Full(ry, r) /\ ry[r].valid
      /\ \A i \in 0 .. NRx : i # r => ry[i] = mem.rx[i]
  <2> HIDE DEF r
  <2> QED BY <1>3, Lists DEF Full, Buffer
<1>6. Passes(r, next, h)
  BY <1>3, Passing
<1> HIDE DEF next, h, ry
<1>7. drv'.pc = "scan" /\ drv'.want = drv.want /\ drv'.rix = next /\ drv'.busy = drv.busy /\ drv'.tix = drv.tix
      /\ mem'.rx = ry
  BY <1>1, <1>2, <1>3 DEF DrvFields
<1> HIDE DEF r
<1>8. Circle(xq, ry, next)
  BY <1>2, <1>3, <1>4, <1>5, <1>6, CircleReads
<1>9. Turns(xq, ry, drv')
  BY <1>2, <1>4, <1>7, <1>8 DEF Turns
<1>10. RingInv(xq, ry, drv')
  BY <1>3, <1>7, <1>9 DEF RingInv
<1>11. CallPart(xq', mem'.rx, drv')
  BY <1>2, <1>3, <1>7, <1>10 DEF CallPart
<1> QED BY <1>2, <1>3, <1>11, CallParts

LEMMA CallEndScanRing == ASSUME XqInv, CallInv, xq.mode = "turbo", EndScan PROVE CallInv'
<1>1. drv.pc = "scan" /\ ~Full(mem.rx, drv.rix) /\ drv' = [drv EXCEPT !.pc = "relist"]
      /\ UNCHANGED <<xq, mem, net, count>>
  BY DEF EndScan, Full
<1>2. RingInv(xq, mem.rx, drv) /\ CallPart(xq, mem.rx, drv) /\ Owned(count) /\ DrvFields \subseteq DOMAIN drv
      /\ drv.rix \in 0 .. NRx - 1
  BY Holds, HoldsTurbo
<1>3. drv'.pc = "relist" /\ drv'.want = drv.want /\ drv'.rix = drv.rix /\ drv'.busy = drv.busy
      /\ drv'.tix = drv.tix
  BY <1>1, <1>2 DEF DrvFields
<1>4. Turns(xq, mem.rx, drv)
  BY <1>1, <1>2 DEF RingInv
<1>5. ~Some(mem.rx)
  <2> DEFINE rx == mem.rx
             r == drv.rix
             b == xq.rbindx
  <2>1. Circle(xq, rx, r) /\ b \in 0 .. NRx - 1
    BY <1>4 DEF Turns, Circle
  <2>2. \A i \in 0 .. NRx - 1 : Full(rx, i) <=> Off(i, r) < Off(b, r)
    BY <1>1, <1>2, <2>1 DEF Circle
  <2>3. \A i \in 0 .. NRx - 1 : Off(i, r) \in 0 .. NRx - 1 /\ (Off(i, r) = 0 <=> i = r)
    BY <1>2, OffNext
  <2>4. ~Full(rx, NRx) /\ ~Full(rx, r)
    BY <1>1, <2>1 DEF Circle
  <2> HIDE DEF rx, r, b
  <2>5. r \in 0 .. NRx - 1
    BY <1>2 DEF r
  <2>6. Off(b, r) = 0
    BY <2>1, <2>2, <2>3, <2>4, <2>5, Lists
  <2>7. \A i \in 0 .. NRx : ~Full(rx, i)
    BY <2>2, <2>3, <2>4, <2>6, Lists
  <2> QED BY <2>7 DEF Some, rx
<1>6. Turns(xq, mem.rx, drv')
  BY <1>1, <1>3, <1>4, <1>5 DEF Turns
<1>7. RingInv(xq, mem.rx, drv')
  BY <1>2, <1>3, <1>6 DEF RingInv
<1>8. CallPart(xq', mem'.rx, drv')
  BY <1>1, <1>2, <1>3, <1>7 DEF CallPart
<1> QED BY <1>1, <1>2, <1>8, CallParts

(* Interrupts are enabled again: the one that was put off is raised.       *)
LEMMA IcrEnabled ==
    ASSUME NEW y, Shaped(y), Turbo(y), ~y.xq.icr, NEW z, z = xq_wr_icr(y, TRUE)
    PROVE  /\ z.mem = y.mem /\ z.xq.mode = y.xq.mode /\ z.xq.srr = y.xq.srr /\ z.xq.q = y.xq.q
           /\ z.xq.units = y.xq.units /\ z.xq.rbindx = y.xq.rbindx /\ z.xq.tbindx = y.xq.tbindx
           /\ z.xq.icr /\ ~z.xq.pending
           /\ Coming(y.xq) => Coming(z.xq)
           /\ Even(y, z)
<1> DEFINE t == [y EXCEPT !.xq.icr = TRUE]
           u == xq_setint(t)
<1>1. t.xq = [y.xq EXCEPT !.icr = TRUE] /\ t.mem = y.mem /\ t.net = y.net /\ DOMAIN t = DOMAIN y
  BY DEF Shaped
<1>2. z = IF y.xq.pending THEN u ELSE t
  BY DEF xq_wr_icr
<1> HIDE DEF t
<1>3. DOMAIN t.xq = DOMAIN y.xq /\ t.xq.mode = y.xq.mode /\ t.xq.srr = y.xq.srr /\ t.xq.q = y.xq.q
      /\ t.xq.units = y.xq.units /\ t.xq.rba = y.xq.rba /\ t.xq.rbindx = y.xq.rbindx
      /\ t.xq.tbindx = y.xq.tbindx
      /\ t.xq.irq = y.xq.irq /\ t.xq.pending = y.xq.pending /\ t.xq.icr = TRUE /\ t.xq.loss = y.xq.loss
  BY <1>1 DEF Shaped, Registers
<1>4. Shaped(t) /\ Turbo(t)
  BY <1>1, <1>3 DEF Shaped, Turbo
<1>5. CASE y.xq.pending
  <2>1. Alike(t, u) /\ u.xq.irq /\ ~u.xq.pending
    BY <1>3, <1>4, SetIntTells
  <2>2. z = u
    BY <1>2, <1>5
  <2> HIDE DEF u
  <2>3. u.mem = y.mem /\ u.xq.mode = y.xq.mode /\ u.xq.srr = y.xq.srr /\ u.xq.q = y.xq.q
        /\ u.xq.units = y.xq.units /\ u.xq.rbindx = y.xq.rbindx /\ u.xq.tbindx = y.xq.tbindx
        /\ u.xq.icr = TRUE /\ u.net = y.net /\ u.xq.loss = y.xq.loss
    BY <1>1, <1>3, <2>1 DEF Alike, Silent, Quiet, Steady
  <2> QED BY <2>1, <2>2, <2>3 DEF Coming, Even
<1>6. CASE ~y.xq.pending
  <2>1. z = t
    BY <1>2, <1>6
  <2> QED BY <1>1, <1>3, <1>6, <2>1 DEF Coming, Even
<1> QED BY <1>5, <1>6

LEMMA CallRelistRing == ASSUME XqInv, CallInv, xq.mode = "turbo", Relist PROVE CallInv'
<1> DEFINE s == State
           y == xq_process_turbo_rbdl(s)
           z == xq_wr_icr(y, TRUE)
           r == drv.rix
<1>1. drv' = [drv EXCEPT !.pc = "idle"] /\ UNCHANGED count /\ drv.pc = "relist" /\ Becomes(z)
  BY DEF Relist
<1>2. RingInv(xq, mem.rx, drv) /\ CallPart(xq, mem.rx, drv) /\ Owned(count) /\ DrvFields \subseteq DOMAIN drv
      /\ s.xq = xq /\ s.mem = mem /\ r \in 0 .. NRx - 1
  BY Holds, HoldsTurbo
<1>3. Turns(xq, mem.rx, drv) /\ Rolls(s, r)
  BY <1>1, HoldsTurns
<1>4. drv'.pc = "idle" /\ drv'.want = drv.want /\ drv'.rix = r /\ drv'.busy = drv.busy /\ drv'.tix = drv.tix
  BY <1>1, <1>2 DEF DrvFields
<1> HIDE DEF s
<1>5. Spins(s, y, r) /\ Rolls(y, r)
  BY <1>2, <1>3, ProcessSpins, SpinsRolls
<1> HIDE DEF y
<1>6. /\ y.xq.srr = xq.srr /\ y.xq.units = xq.units /\ y.xq.tbindx = xq.tbindx
      /\ y.xq.icr = xq.icr /\ ~y.xq.icr
      /\ Some(y.mem.rx) => Coming(y.xq)
      /\ drv.busy => Coming(y.xq)
  <2>1. y.xq.srr = xq.srr /\ y.xq.units = xq.units /\ y.xq.tbindx = xq.tbindx /\ y.xq.icr = xq.icr
    BY <1>2, <1>5 DEF Spins, Steady, Quiet
  <2>2. ~xq.icr
    BY <1>1, <1>3 DEF Turns
  <2>3. Some(mem.rx) => Coming(xq)
    BY <1>1, <1>3 DEF Turns
  <2>4. drv.busy => Coming(xq)
    BY <1>1, <1>3 DEF Turns
  <2>5. (Some(y.mem.rx) => Some(mem.rx) \/ Coming(y.xq)) /\ (Coming(xq) => Coming(y.xq))
    BY <1>2, <1>5 DEF Spins
  <2> QED BY <2>1, <2>2, <2>3, <2>4, <2>5
<1>7. /\ z.mem = y.mem /\ z.xq.mode = y.xq.mode /\ z.xq.srr = y.xq.srr /\ z.xq.q = y.xq.q
      /\ z.xq.units = y.xq.units /\ z.xq.rbindx = y.xq.rbindx /\ z.xq.tbindx = y.xq.tbindx
      /\ z.xq.icr /\ ~z.xq.pending
      /\ Coming(y.xq) => Coming(z.xq)
  <2>1. Shaped(y) /\ Turbo(y) /\ ~y.xq.icr
    BY <1>5, <1>6 DEF Rolls
  <2> QED BY <2>1, IcrEnabled
<1> HIDE DEF z
<1>8. Circle(z.xq, z.mem.rx, r) /\ z.xq.mode = "turbo" /\ Packed(z.xq)
  BY <1>5, <1>7 DEF Rolls, Circle, Turbo, Packed
<1> HIDE DEF r
<1>9. Turns(z.xq, z.mem.rx, drv')
  BY <1>3, <1>4, <1>6, <1>7, <1>8 DEF Turns
<1>10. RingInv(z.xq, z.mem.rx, drv')
  BY <1>2, <1>4, <1>6, <1>7, <1>9 DEF RingInv
<1>11. CallPart(z.xq, z.mem.rx, drv')
  BY <1>2, <1>4, <1>8, <1>10 DEF CallPart
<1> QED BY <1>1, <1>2, <1>11, CallBecomes

LEMMA RingLoaded ==
    ASSUME Owned(count), NEW m \in Messages, drv.tix \in 0 .. NTx - 1
    PROVE  Left(Ringed(m), 0, Len(m), drv.tix) /\ Len(m) \in 1 .. NTx
<1> USE Lists
<1> DEFINE tx == Ringed(m)
           n == Len(m)
           t0 == drv.tix
           k(i) == (i + NTx - t0) % NTx
<1>1. n \in 1 .. NTx /\ \A j \in 1 .. n : Descriptor(m[j]).valid = TRUE /\ Descriptor(m[j]).pkt \in Packets
  BY MessageIs
<1>2. DOMAIN tx = 0 .. NTx
      /\ \A i \in 0 .. NTx : tx[i] = IF i < NTx /\ k(i) < n THEN Descriptor(m[k(i) + 1]) ELSE Unused
  BY DEF Ringed
<1>3. \A i \in 0 .. NTx - 1 : k(i) = Along(i, t0) /\ Along(i, t0) \in 0 .. NTx - 1
  BY AlongIs
<1>4. Unused.valid = FALSE /\ "valid" \in DOMAIN Unused /\ \A d : "valid" \in DOMAIN Descriptor(d)
  BY DEF Unused, Descriptor
<1> HIDE DEF tx, n, t0, k
<1>5. \A i \in 0 .. NTx : "valid" \in DOMAIN tx[i]
  BY <1>2, <1>4
<1>6. ASSUME NEW i \in 0 .. NTx - 1
      PROVE  /\ tx[i].valid <=> 0 <= Along(i, t0) /\ Along(i, t0) < n
             /\ tx[i].valid => tx[i].pkt \in Packets
  <2>1. i \in 0 .. NTx /\ i < NTx
    OBVIOUS
  <2>2. CASE k(i) < n
    <3>1. k(i) + 1 \in 1 .. n
      BY <1>1, <1>3, <2>2
    <3>2. tx[i] = Descriptor(m[k(i) + 1])
      BY <1>2, <2>1, <2>2
    <3> QED BY <1>1, <1>3, <2>2, <3>1, <3>2
  <2>3. CASE ~(k(i) < n)
    <3>1. tx[i] = Unused
      BY <1>2, <2>3
    <3> QED BY <1>3, <1>4, <2>3, <3>1
  <2> QED BY <2>2, <2>3
<1>7. Left(tx, 0, n, t0)
  BY <1>2, <1>5, <1>6 DEF Left
<1> QED BY <1>1, <1>7 DEF tx, n, t0

LEMMA CallSendRing ==
    ASSUME XqInv, CallInv, drv.pc = "idle", xq.mode = "turbo", NEW m \in Messages,
           NEW z, z = xq_process_turbo_xbdl([State EXCEPT !.mem.tx = Ringed(m)]), NEW tix,
           tix = (drv.tix + Len(m)) % NTx,
           drv' = [drv EXCEPT !.busy = TRUE, !.tix = tix]
    PROVE  CallPart(z.xq, z.mem.rx, drv')
<1> DEFINE tx == Ringed(m)
           a == [State EXCEPT !.mem.tx = tx]
           n == Len(m)
           t0 == drv.tix
           r == drv.rix
<1>1. RingInv(xq, mem.rx, drv) /\ Owned(count) /\ DrvFields \subseteq DOMAIN drv /\ r \in 0 .. NRx - 1
      /\ State.xq = xq /\ State.mem = mem /\ drv.want \subseteq {"EL", "IL", "IE", "RE"}
  BY Holds, HoldsTurbo
<1>2. Turns(xq, mem.rx, drv) /\ Rolls(State, r)
  BY HoldsTurns
<1>3. t0 \in 0 .. NTx - 1 /\ xq.tbindx = t0 /\ xq.srr = "STRT" /\ xq.icr /\ ~xq.pending
      /\ "Srqr" \notin xq.units
  BY <1>2 DEF Turns
<1>4. Left(tx, 0, n, t0) /\ n \in 1 .. NTx
  BY <1>1, <1>3, RingLoaded
<1>5. z = xq_process_turbo_xbdl(a)
  OBVIOUS
<1>6. drv'.pc = "idle" /\ drv'.want = drv.want /\ drv'.rix = drv.rix /\ drv'.busy = TRUE /\ drv'.tix = tix
  BY <1>1 DEF DrvFields
<1>7. tix = At(n, t0) /\ At(n, t0) \in 0 .. NTx - 1
  <2>1. n \in 0 .. NTx
    BY <1>4, Lists
  <2> QED BY <1>3, <2>1, AlongIs
<1> HIDE DEF tx
<1>8. a.xq = xq /\ a.mem.rx = mem.rx /\ a.mem.tx = tx /\ Shaped(a)
  <2>1. Shaped(State)
    BY <1>2 DEF Rolls
  <2>2. a.xq = State.xq /\ a.mem.rx = State.mem.rx /\ a.mem.tx = tx /\ Shaped(a)
    BY <2>1, NewTxFit
  <2> QED BY <1>1, <2>2
<1> HIDE DEF a, n, t0
<1>9. Rolls(a, r) /\ a.xq.tbindx = t0 /\ Left(a.mem.tx, 0, n, t0)
  BY <1>1, <1>2, <1>3, <1>4, <1>8 DEF Rolls, Turbo
<1>10. z = TurboTransmit(a)
  BY <1>3, <1>5, <1>8 DEF xq_process_turbo_xbdl
<1>11. Posts(a, z, n, t0, r)
  BY <1>1, <1>3, <1>4, <1>9, <1>10, TransmitPosts
<1>12. /\ Rolls(z, r) /\ z.xq.units = xq.units /\ z.xq.srr = xq.srr /\ z.xq.icr = xq.icr
       /\ z.xq.tbindx = tix /\ Coming(z.xq) /\ ~z.xq.pending
  BY <1>3, <1>7, <1>8, <1>11 DEF Posts
<1>13. Turns(z.xq, z.mem.rx, drv')
  BY <1>3, <1>6, <1>7, <1>12 DEF Turns, Rolls
<1>14. RingInv(z.xq, z.mem.rx, drv')
  BY <1>1, <1>6, <1>12, <1>13 DEF RingInv
<1> QED BY <1>1, <1>6, <1>12, <1>14 DEF CallPart, Rolls, Turbo

LEMMA CallSend == ASSUME XqInv, CallInv, Send PROVE CallInv'
<1>1. PICK m \in Messages :
          /\ \/ xq.mode = "normal" /\ Becomes(xq_dispatch_xbdl([State EXCEPT !.mem.tx = Listed(m)]))
             \/ xq.mode = "turbo" /\ Becomes(xq_process_turbo_xbdl([State EXCEPT !.mem.tx = Ringed(m)]))
          /\ drv' = [drv EXCEPT !.busy = TRUE, !.tix = (@ + Len(m)) % NTx]
          /\ count' = [count EXCEPT !.own = @ + Last(m).nth]
  BY DEF Send
<1> DEFINE tix == (drv.tix + Len(m)) % NTx
           own == count.own + Last(m).nth
<1>2. drv' = [drv EXCEPT !.busy = TRUE, !.tix = tix] /\ count' = [count EXCEPT !.own = own] /\ drv.pc = "idle"
  BY <1>1 DEF Send
<1>3. Owned(count) /\ own \in Nat
  BY Holds, MessageIs
<1> HIDE DEF own
<1>4. Owned(count')
  BY <1>2, <1>3 DEF Owned
<1> HIDE DEF tix
<1>5. CASE xq.mode = "normal" /\ Becomes(xq_dispatch_xbdl([State EXCEPT !.mem.tx = Listed(m)]))
  <2> DEFINE z == xq_dispatch_xbdl([State EXCEPT !.mem.tx = Listed(m)])
  <2>1. CallPart(z.xq, z.mem.rx, drv')
    BY <1>2, <1>5, CallSendList
  <2>2. Becomes(z)
    BY <1>5
  <2> HIDE DEF z
  <2> QED BY <1>4, <2>1, <2>2, CallBecomes
<1>6. CASE xq.mode = "turbo" /\ Becomes(xq_process_turbo_xbdl([State EXCEPT !.mem.tx = Ringed(m)]))
  <2> DEFINE z == xq_process_turbo_xbdl([State EXCEPT !.mem.tx = Ringed(m)])
  <2>1. tix = (drv.tix + Len(m)) % NTx
    BY DEF tix
  <2>2. CallPart(z.xq, z.mem.rx, drv')
    BY <1>2, <1>6, <2>1, CallSendRing
  <2>3. Becomes(z)
    BY <1>6
  <2> HIDE DEF z
  <2> QED BY <1>4, <2>2, <2>3, CallBecomes
<1> QED BY <1>1, <1>5, <1>6

-----------------------------------------------------------------------------
(* The second theorem                                                      *)

LEMMA CallInit == Init => CallInv
<1> SUFFICES ASSUME Init PROVE CallInv
  OBVIOUS
<1>1. /\ xq.mode = "normal" /\ xq.csr = {"RL", "XL"} /\ xq.q = <<>> /\ xq.units = {}
      /\ mem.rx = FreshRx /\ "own" \in DOMAIN count /\ count.own = 0
  BY DEF Init
<1>2. drv.pc = "down" /\ drv.want = {} /\ drv.rix = 0 /\ drv.tix = 0 /\ drv.busy = FALSE
  BY DEF Init, Down
<1>3. Packed(xq)
  BY <1>1 DEF Packed
<1>4. Rests(xq, mem.rx, drv)
  BY <1>1, <1>2 DEF Rests, Blank, W1
<1>5. ListInv(xq, mem.rx, drv)
  BY <1>1, <1>2, <1>4 DEF ListInv, Called, Waits
<1>6. CallPart(xq, mem.rx, drv)
  BY <1>1, <1>2, <1>3, <1>5 DEF CallPart
<1> QED BY <1>1, <1>6 DEF CallInv, Owned

LEMMA CallStep == XqInv /\ CallInv /\ [Next]_vars => CallInv'
<1> SUFFICES ASSUME XqInv, CallInv, [Next]_vars PROVE CallInv'
  OBVIOUS
<1>1. CASE xq.mode = "normal"
  <2>1. CASE Units
    BY <1>1, <2>1, CallPoll, CallStart, CallReceiveList, CallSrqrList DEF Units
  <2>2. CASE Driver
    BY <1>1, <2>2, CallBegin, CallGiveList, CallBoot, CallEnterTurbo, CallStartTurbo, CallStopTurbo,
       CallInt, CallReadCsr, CallAcknowledgeList, CallReadList, CallEndScanList, CallRelistList, CallSend,
       CallSoftReset, CallBusReset DEF Driver
  <2>3. CASE Arrive
    BY <2>3, CallArrive
  <2>4. CASE UNCHANGED vars
    BY <2>4, CallParts DEF vars
  <2> QED BY <2>1, <2>2, <2>3, <2>4 DEF Next
<1>2. CASE xq.mode = "turbo"
  <2>1. CASE Units
    BY <1>2, <2>1, CallPoll, CallStart, CallReceiveRing, CallSrqrRing DEF Units
  <2>2. CASE Driver
    BY <1>2, <2>2, CallBegin, CallGiveList, CallBoot, CallEnterTurbo, CallStartTurbo, CallStopTurbo,
       CallInt, CallReadCsr, CallAcknowledgeRing, CallReadRing, CallEndScanRing, CallRelistRing, CallSend,
       CallSoftReset, CallBusReset DEF Driver
  <2>3. CASE Arrive
    BY <2>3, CallArrive
  <2>4. CASE UNCHANGED vars
    BY <2>4, CallParts DEF vars
  <2> QED BY <2>1, <2>2, <2>3, <2>4 DEF Next
<1> QED BY <1>1, <1>2, Holds

LEMMA CallInvMeans == XqInv /\ CallInv => NothingForgotten
<1> SUFFICES ASSUME XqInv, CallInv, drv.pc = "idle", Listening, WorkForDriver PROVE xq.irq
  BY DEF NothingForgotten
<1>1. DOMAIN mem.rx = 0 .. NRx /\ xq.mode \in {"normal", "turbo"}
  BY Holds DEF Shaped
<1>2. (\E i \in DOMAIN mem.rx : mem.rx[i].st # Free /\ Ends(mem.rx[i].st)) => Ended(mem.rx) /\ Some(mem.rx)
  BY <1>1 DEF Ended, Some, Full
<1>3. CASE xq.mode = "normal"
  <2>1. ListInv(xq, mem.rx, drv) /\ Called(xq, {}) /\ Reads(xq, mem.rx, drv)
    BY <1>3, HoldsNormal DEF ListInv, Waits, Seen
  <2>2. Told(xq, mem.rx) /\ ("RL" \in xq.csr => "XI" \in xq.csr \/ Ended(mem.rx))
        /\ (drv.busy => "XI" \in xq.csr)
    BY <2>1 DEF ListInv, Reads, Waits
  <2>3. xq.csr \cap W1 # {}
    BY <1>2, <1>3, <2>2 DEF WorkForDriver, Told, W1
  <2> QED BY <1>3, <2>1, <2>3 DEF Called, Listening
<1>4. CASE xq.mode = "turbo"
  <2>1. Turns(xq, mem.rx, drv)
    BY <1>4, HoldsTurns
  <2> QED BY <1>2, <1>4, <2>1 DEF Turns, Listening, WorkForDriver, Coming
<1> QED BY <1>1, <1>3, <1>4

(* xq_csr_set_clr, xq_setint, xq_wr_icr, xq_process_rbdl, xq_process_xbdl  *)
(* and their turbo forms: a driver that sleeps with interrupts enabled has *)
(* one coming for the end of a packet, for that of a transmission and for  *)
(* a list to be given again; with lists and a queue of every size, every   *)
(* message that fits, in both modes, and every order of frames, sendings,  *)
(* resets and services.                                                    *)
THEOREM NothingEverForgotten == Spec => []NothingForgotten
<1>1. Spec => [](XqInv /\ CallInv)
  BY XqInit, XqStep, CallInit, CallStep, PTL DEF Spec
<1> QED BY <1>1, CallInvMeans, PTL
-----------------------------------------------------------------------------
(* Delivered in order: the steps                                           *)

(* What the driver has read, of all the frames there were.                 *)
History(d, c) == [log |-> d.log, floor |-> d.floor, total |-> c.net, local |-> c.local]

OrderPart(s, d, c) ==
    /\ {"log", "floor"} \subseteq DOMAIN d
    /\ {"net", "own", "local"} \subseteq DOMAIN c
    /\ Streams(s, d.rix, History(d, c), c.own)
    /\ s.xq.mode = "normal" => Ready(s, d.rix)

OrderInv == OrderPart(State, drv, count)

LEMMA OrderHolds ==
    ASSUME OrderInv
    PROVE  /\ {"log", "floor"} \subseteq DOMAIN drv
           /\ {"net", "own", "local"} \subseteq DOMAIN count
           /\ Streams(State, drv.rix, History(drv, count), count.own)
           /\ State.xq.mode = "normal" => Ready(State, drv.rix)
BY DEF OrderInv, OrderPart

LEMMA OrderBecomes ==
    ASSUME NEW z, Becomes(z), OrderPart(z, drv', count')
    PROVE  OrderInv'
<1> DEFINE t == [xq |-> xq', mem |-> mem', net |-> net']
<1>1. t.xq = z.xq /\ t.mem = z.mem /\ t.net = z.net
  BY DEF Becomes
<1>2. OrderInv' <=> OrderPart(t, drv', count')
  BY DEF OrderInv, OrderPart, State, Streams, History, Stocked, Buffers, Full, Flow, Got, Slot, Tops, InOrder,
         Joined, Rises, Accounted, Linked, Behind, Whole, Here, LastNet, NetId, Flaw, Ready, Readable, Ring,
         Open, AtEnd, Depth, Off, Valid
<1> HIDE DEF t
<1>3. Streams(z, drv'.rix, History(drv', count'), count'.own) =>
          Streams(t, drv'.rix, History(drv', count'), count'.own)
  BY <1>1 DEF Streams
<1>4. Ready(z, drv'.rix) => Ready(t, drv'.rix)
  BY <1>1 DEF Ready, Readable
<1> QED BY <1>1, <1>2, <1>3, <1>4 DEF OrderPart

(* The driver reads nothing.                                               *)
SameLog ==
    /\ {"log", "floor"} \subseteq DOMAIN drv'
    /\ drv'.rix = drv.rix /\ drv'.log = drv.log /\ drv'.floor = drv.floor
    /\ UNCHANGED count

LEMMA OrderCarried ==
    ASSUME OrderInv, SameLog, NEW z, Becomes(z), Carries(State, z, drv.rix),
           z.xq.mode = "normal" => Ready(z, drv.rix)
    PROVE  OrderInv'
<1>1. History(drv', count') = History(drv, count) /\ drv'.rix = drv.rix /\ count' = count
  BY DEF History, SameLog
<1>2. Streams(z, drv.rix, History(drv, count), count.own) /\ {"net", "own", "local"} \subseteq DOMAIN count
  BY OrderHolds DEF Carries
<1>3. OrderPart(z, drv', count')
  BY <1>1, <1>2 DEF OrderPart, SameLog
<1> QED BY <1>3, OrderBecomes

(* An invalid list, or one that goes on where the driver reads, is what    *)
(* the second invariant leaves the driver with.                            *)
LEMMA ReadyAfter ==
    ASSUME CallInv', NEW z, Becomes(z), z.xq.mode = "normal", drv'.pc # "resetting"
    PROVE  Ready(z, drv'.rix)
<1>1. ListInv(z.xq, z.mem.rx, drv')
  BY CallParts DEF Becomes, CallPart
<1> HIDE DEF Ring, Open
<1>2. CASE drv'.pc \in {"down", "init"}
  <2>1. "RL" \in z.xq.csr
    BY <1>1, <1>2 DEF ListInv, Rests, Blank
  <2> QED BY <2>1 DEF Ready
<1>3. CASE drv'.pc \in {"scan", "relist"} \cup Waits
  <2>1. Reads(z.xq, z.mem.rx, drv')
    BY <1>1, <1>3 DEF ListInv
  <2> QED BY <2>1 DEF Reads, Ready, Readable
<1>4. drv'.pc \in {"down", "init", "scan", "relist"} \cup Waits
  BY <1>1 DEF ListInv
<1> QED BY <1>2, <1>3, <1>4

LEMMA OrderRead ==
    ASSUME OrderInv, CallInv', SameLog, NEW z, Becomes(z), Carries(State, z, drv.rix), drv'.pc # "resetting"
    PROVE  OrderInv'
BY ReadyAfter, OrderCarried DEF SameLog

LEMMA ReadySame ==
    ASSUME NEW s, NEW t, NEW r, Ready(s, r), t.mem.rx = s.mem.rx, t.xq.rba = s.xq.rba,
           "RL" \in t.xq.csr <=> "RL" \in s.xq.csr
    PROVE  Ready(t, r)
BY DEF Ready, Readable, Ring, Open, AtEnd, Depth

LEMMA RetimedCarries ==
    ASSUME NEW s, NEW t, Retimed(s, t), NEW r \in 0 .. NRx - 1
    PROVE  Carries(s, t, r) /\ (Ready(s, r) => Ready(t, r))
<1>1. Even(s, t)
  BY DEF Retimed, Even
<1>2. Ready(s, r) => Ready(t, r)
  BY ReadySame DEF Retimed
<1> QED BY <1>1, <1>2, EvenCarries

LEMMA ServiceLog ==
    ASSUME OrderInv, UNCHANGED <<drv, count>>
    PROVE  SameLog
BY OrderHolds DEF SameLog

(* A service in normal mode that receives.                                 *)
LEMMA OrderFares ==
    ASSUME OrderInv, SameLog, drv.rix \in 0 .. NRx - 1, State.xq.mode = "normal", NEW a, Retimed(State, a),
           NEW z, Fares(a, z, drv.rix), Becomes(z)
    PROVE  OrderInv'
<1>1. Carries(State, a, drv.rix) /\ Ready(a, drv.rix)
  BY OrderHolds, RetimedCarries
<1>2. Carries(a, z, drv.rix) /\ Ready(z, drv.rix)
  BY <1>1, FaresSends, SendsReady DEF Fares
<1>3. Carries(State, z, drv.rix)
  BY <1>1, <1>2, CarriesChain
<1> QED BY <1>2, <1>3, OrderCarried

LEMMA OrderPoll == ASSUME XqInv, CallInv, OrderInv, PollSvc PROVE OrderInv'
<1> DEFINE a == [State EXCEPT !.xq.units = @ \ {"Poll"}]
           z == xq_svc(a)
<1>1. Becomes(z) /\ UNCHANGED <<drv, count>> /\ "Poll" \in xq.units
  BY DEF PollSvc, Service
<1>2. xq.mode = "normal"
  BY <1>1, Holds DEF CallPart, RingInv
<1>3. Retimed(State, a)
  BY TakenHolds
<1> HIDE DEF a
<1>4. Fit(a) /\ ListEnds(a)
  BY <1>2, <1>3, Holds, HoldsNormal DEF Fit, Retimed, ListEnds, Turbo, Packed
<1>5. drv.rix \in 0 .. NRx - 1 /\ State.xq.mode = "normal"
  BY <1>2, Holds
<1>6. Fares(a, z, drv.rix)
  BY <1>4, <1>5, SvcFares
<1> HIDE DEF z
<1> QED BY <1>1, <1>3, <1>5, <1>6, ServiceLog, OrderFares

LEMMA OrderStart == ASSUME XqInv, CallInv, OrderInv, xq_startsvc PROVE OrderInv'
<1> DEFINE a == [State EXCEPT !.xq.units = @ \ {"Start"}]
           U == a.xq.units \cup {"Poll"}
           b == [a EXCEPT !.xq.units = U]
           z == xq_start_receiver(a)
           r == drv.rix
<1>1. Becomes(z) /\ UNCHANGED <<drv, count>>
  BY DEF xq_startsvc, Service
<1>2. Retimed(State, a) /\ r \in 0 .. NRx - 1
  BY TakenHolds, Holds
<1>3. z = IF Turbo(a) THEN a ELSE b
  BY DEF xq_start_receiver, Activate
<1> HIDE DEF a, z, r, U
<1>4. Retimed(a, b)
  BY <1>2, Retime DEF Retimed
<1> HIDE DEF b
<1>5. /\ Carries(State, a, r) /\ (Ready(State, r) => Ready(a, r))
      /\ Carries(a, b, r) /\ (Ready(a, r) => Ready(b, r))
  BY <1>2, <1>4, RetimedCarries
<1>6. Carries(State, z, r) /\ (Ready(State, r) => Ready(z, r))
  BY <1>3, <1>5, CarriesChain
<1>7. z.xq.mode = State.xq.mode
  BY <1>2, <1>3, <1>4 DEF Retimed
<1> QED BY <1>1, <1>6, <1>7, ServiceLog, OrderHolds, OrderCarried DEF r

LEMMA OrderReceive == ASSUME XqInv, CallInv, OrderInv, xq_receivesvc PROVE OrderInv'
<1> DEFINE a == [State EXCEPT !.xq.units = @ \ {"Rcv"}]
           z == xq_process_rbdl(a)
           r == drv.rix
<1>1. Becomes(z) /\ UNCHANGED <<drv, count>>
  BY DEF xq_receivesvc, Service
<1>2. Retimed(State, a) /\ CallPart(a.xq, a.mem.rx, drv)
  BY TakenHolds
<1>3. r \in 0 .. NRx - 1 /\ State.xq = xq /\ xq.mode \in {"normal", "turbo"}
  BY Holds
<1> HIDE DEF a
<1>4. CASE xq.mode = "normal"
  <2>1. Fit(a) /\ ListEnds(a)
    BY <1>2, <1>4, Holds, HoldsNormal DEF Fit, Retimed, ListEnds, Turbo, Packed
  <2>2. Fares(a, z, r)
    BY <1>3, <2>1, ProcessFares
  <2> HIDE DEF z
  <2> QED BY <1>1, <1>2, <1>3, <1>4, <2>2, ServiceLog, OrderFares
<1>5. CASE xq.mode = "turbo"
  <2>1. Shaped(a) /\ Turbo(a) /\ a.xq.mode = "turbo" /\ RingInv(a.xq, a.mem.rx, drv) /\ Packed(a.xq)
    BY <1>2, <1>3, <1>5 DEF Retimed, Turbo, CallPart
  <2>2. Carries(State, a, r)
    BY <1>2, <1>3, RetimedCarries
  <2>3. Carries(a, z, r) /\ z.xq.mode = "turbo"
    <3>1. CASE drv.pc \in {"idle", "ack", "scan", "relist"}
      <4>1. Circle(a.xq, a.mem.rx, r)
        BY <2>1, <3>1 DEF RingInv, Turns
      <4>2. Spins(a, z, r)
        BY <1>3, <2>1, <4>1, ProcessSpins DEF Rolls
      <4> HIDE DEF z
      <4> QED BY <2>1, <4>2 DEF Spins, Steady, Quiet
    <3>2. CASE drv.pc \notin {"idle", "ack", "scan", "relist"}
      <4>1. a.xq.srr = "STRT" => a.xq.q = <<>>
        BY <2>1, <3>2 DEF RingInv, Starting
      <4>2. z = a
        BY <2>1, <4>1, ReceiveRests DEF xq_process_rbdl, xq_process_turbo_rbdl
      <4> HIDE DEF z
      <4> QED BY <2>1, <4>2, CarriesSame
    <3> QED BY <3>1, <3>2
  <2> HIDE DEF z
  <2>4. Carries(State, z, r)
    BY <2>2, <2>3, CarriesChain
  <2> QED BY <1>1, <2>3, <2>4, ServiceLog, OrderCarried
<1> QED BY <1>3, <1>4, <1>5

LEMMA OrderSrqr == ASSUME XqInv, CallInv, OrderInv, xq_srqrsvc PROVE OrderInv'
<1> DEFINE U == xq.units \ {"Srqr"}
           a == [State EXCEPT !.xq.units = @ \ {"Srqr"}]
           z == xq_wr_srqr_action(a)
           r == drv.rix
<1>1. Becomes(z) /\ UNCHANGED <<drv, count>>
  BY DEF xq_srqrsvc, Service
<1>2. Shaped(State) /\ State.xq = xq /\ r \in 0 .. NRx - 1
  BY Holds
<1>3. a = [State EXCEPT !.xq.units = U]
  BY <1>2
<1> HIDE DEF a, U
<1>4. Retimed(State, a)
  BY <1>2, <1>3, Retime
<1>5. Carries(State, a, r) /\ (Ready(State, r) => Ready(a, r)) /\ Shaped(a) /\ a.xq.mode = State.xq.mode
  BY <1>2, <1>4, RetimedCarries DEF Retimed
<1>6. Even(a, z) /\ z.xq.mode = a.xq.mode /\ (a.xq.mode = "normal" /\ Ready(a, r) => Ready(z, r))
  <2>1. CASE Turbo(a)
    BY <1>5, <2>1, SrqrAnswers DEF Turbo
  <2>2. CASE ~Turbo(a)
    <3>1. Even(a, z) /\ z.xq.mode = a.xq.mode /\ z.mem = a.mem /\ z.xq.csr = a.xq.csr /\ z.xq.rba = a.xq.rba
      BY <1>5, <2>2, SrqrCalls
    <3> HIDE DEF z
    <3> QED BY <3>1, ReadySame
  <2> QED BY <2>1, <2>2
<1> HIDE DEF z
<1>7. Carries(a, z, r)
  BY <1>2, <1>6, EvenCarries
<1>8. Carries(State, z, r)
  BY <1>5, <1>7, CarriesChain
<1> QED BY <1>1, <1>5, <1>6, <1>8, ServiceLog, OrderHolds, OrderCarried DEF r

(* A frame more in the network.                                            *)
Arrives(s, t, f) == t.mem = s.mem /\ t.xq = s.xq /\ t.net = Append(s.net, f)
Counts(w, v, f) ==
    /\ v.log = w.log /\ v.floor = w.floor /\ v.total = w.total + 1 /\ w.local \subseteq v.local
    /\ IF f.src = "net" THEN f.id = v.total ELSE v.total \in v.local

LEMMA ArriveStreams ==
    ASSUME NEW s, Incoming(s.net), NEW f \in Frames, NEW t, Arrives(s, t, f), NEW r, NEW w, NEW o,
           Streams(s, r, w, o), NEW v, Counts(w, v, f)
    PROVE  Streams(t, r, v, o)
<1> DEFINE old == s.net
           new == t.net
           base == w.total - Len(old)
           top == Tops(base, o)
<1>1. /\ w.log \in Seq(Segments) /\ w.total \in Nat /\ base \in Nat
      /\ \A k \in 1 .. Len(old) :
             IF old[k].src = "net" THEN old[k].id = base + k ELSE base + k \in w.local
  BY DEF Streams, Stocked
<1>2. PICK n : /\ Buffers(s.mem.rx, r, n)
               /\ Flow(Got(w.log, s.mem.rx, r, n), s.xq.q, s.xq.loss, w.floor, top, w.local)
  BY DEF Streams
<1> DEFINE D == Got(w.log, s.mem.rx, r, n)
<1>3. old \in Seq(Frames) /\ new = Append(old, f)
  BY DEF Incoming, Arrives
<1>4. v.total = w.total + 1 /\ w.local \subseteq v.local /\ v.log = w.log /\ v.floor = w.floor
      /\ IF f.src = "net" THEN f.id = v.total ELSE v.total \in v.local
  BY DEF Counts
<1>5. Flow(D, s.xq.q, s.xq.loss, w.floor, top, w.local)
  BY <1>2
<1>6. top.net \in Nat /\ (\A x \in Numbered : top[x] \in Nat /\ top[x] <= top[x]) /\ top.net + 1 .. top.net = {}
  <2> HIDE DEF top, D
  <2>1. \A x \in Numbered : top[x] \in Nat
    BY <1>5, FlowIs DEF Behind
  <2> QED BY <2>1 DEF Numbered
<1> HIDE DEF top, D
<1>7. Flow(D, s.xq.q, s.xq.loss, w.floor, top, v.local)
  BY <1>4, <1>5, <1>6, FlowWiden
<1> HIDE DEF old, new
<1>8. Len(new) = Len(old) + 1 /\ Len(old) \in Nat /\ new[Len(old) + 1] = f
      /\ \A k \in 1 .. Len(old) : new[k] = old[k]
  BY <1>3
<1>9. v.total - Len(new) = base /\ v.total = base + (Len(old) + 1) /\ v.total \in Nat
  BY <1>1, <1>4, <1>8
<1> HIDE DEF base
<1>10. Stocked(new, base, v.local)
  <2>1. ASSUME NEW k \in 1 .. Len(old)
        PROVE  IF new[k].src = "net" THEN new[k].id = base + k ELSE base + k \in v.local
    BY <1>1, <1>4, <1>8, <2>1
  <2>2. \A k \in 1 .. Len(new) : k \in 1 .. Len(old) \/ k = Len(old) + 1
    BY <1>8
  <2>3. IF new[Len(old) + 1].src = "net" THEN new[Len(old) + 1].id = base + (Len(old) + 1)
        ELSE base + (Len(old) + 1) \in v.local
    BY <1>4, <1>8, <1>9
  <2> QED BY <1>1, <2>1, <2>2, <2>3 DEF Stocked
<1>11. t.mem = s.mem /\ t.xq = s.xq
  BY DEF Arrives
<1>12. v.total - Len(t.net) = base
  BY <1>9 DEF new
<1> QED BY <1>1, <1>2, <1>4, <1>7, <1>9, <1>10, <1>11, <1>12 DEF Streams, new, D, top

LEMMA OrderArrive == ASSUME XqInv, CallInv, OrderInv, Arrive PROVE OrderInv'
<1> DEFINE id == count.net + 1
           w == History(drv, count)
           v == History(drv, count')
           z(f) == [xq |-> xq, mem |-> mem, net |-> Append(net, f)]
<1>1. UNCHANGED <<xq, mem, drv>> /\ id \in Nat
  BY DrvParts DEF Arrive, XqInv, Counted
<1>2. {"net", "own", "local"} \subseteq DOMAIN count
  BY OrderHolds
<1>3. \E f \in Frames : /\ net' = Append(net, f)
                        /\ count'.net = id /\ count'.own = count.own /\ count.local \subseteq count'.local
                        /\ {"net", "own", "local"} \subseteq DOMAIN count'
                        /\ IF f.src = "net" THEN f.id = id ELSE id \in count'.local
  <2>1. CASE /\ \E n \in 1 .. 2 : net' = Append(net, [src |-> "net", id |-> id, size |-> n])
             /\ count' = [count EXCEPT !.net = id]
    <3>1. PICK n \in 1 .. 2 : net' = Append(net, [src |-> "net", id |-> id, size |-> n])
      BY <2>1
    <3> DEFINE f == [src |-> "net", id |-> id, size |-> n]
    <3>2. f \in Frames /\ f.src = "net" /\ f.id = id /\ net' = Append(net, f)
      BY <1>1, <3>1 DEF Frames
    <3>3. count'.net = id /\ count'.own = count.own /\ count.local \subseteq count'.local
          /\ {"net", "own", "local"} \subseteq DOMAIN count'
      BY <1>2, <2>1
    <3> HIDE DEF f, id
    <3> QED BY <3>2, <3>3
  <2>2. CASE /\ net' = Append(net, [src |-> "local"])
             /\ count' = [count EXCEPT !.net = id, !.local = @ \cup {id}]
    <3> DEFINE f == [src |-> "local"]
               more == count.local \cup {id}
    <3>1. f \in Frames /\ f.src # "net" /\ net' = Append(net, f)
      BY <2>2 DEF Frames
    <3>2. count' = [count EXCEPT !.net = id, !.local = more]
      BY <2>2
    <3>3. count.local \subseteq more /\ id \in more
      OBVIOUS
    <3> HIDE DEF f, id, more
    <3>4. count'.net = id /\ count'.own = count.own /\ count'.local = more
          /\ {"net", "own", "local"} \subseteq DOMAIN count'
      BY <1>2, <3>2
    <3> QED BY <3>1, <3>3, <3>4
  <2> QED BY <2>1, <2>2 DEF Arrive
<1>4. PICK f \in Frames : /\ net' = Append(net, f)
                          /\ count'.net = id /\ count'.own = count.own /\ count.local \subseteq count'.local
                          /\ {"net", "own", "local"} \subseteq DOMAIN count'
                          /\ IF f.src = "net" THEN f.id = id ELSE id \in count'.local
  BY <1>3
<1>5. z(f).xq = xq /\ z(f).mem = mem /\ z(f).net = net' /\ Arrives(State, z(f), f)
  BY <1>4, StateIs DEF Arrives
<1>6. Counts(w, v, f)
  BY <1>4 DEF Counts, History
<1> DEFINE t == z(f)
<1>7. Becomes(t) /\ t.xq = State.xq /\ t.mem = State.mem
  BY <1>1, <1>5, StateIs DEF Becomes
<1>8. Incoming(State.net) /\ Streams(State, drv.rix, w, count.own)
  BY Holds, OrderHolds DEF Shaped
<1> HIDE DEF z, w, v, t
<1>9. Streams(t, drv.rix, v, count.own)
  BY <1>5, <1>6, <1>8, ArriveStreams DEF t
<1>10. t.xq.mode = "normal" => Ready(t, drv.rix)
  BY <1>7, OrderHolds, ReadySame
<1>11. OrderPart(t, drv', count')
  BY <1>1, <1>4, <1>9, <1>10, OrderHolds DEF OrderPart, v
<1> QED BY <1>7, <1>11, OrderBecomes

-----------------------------------------------------------------------------
(* The driver's steps, and the order                                       *)

LEMMA PcLog ==
    ASSUME XqInv, CallInv, OrderInv, NEW pc, drv' = [drv EXCEPT !.pc = pc], UNCHANGED count
    PROVE  SameLog /\ drv'.pc = pc
BY Holds, OrderHolds DEF SameLog, DrvFields

LEMMA OrderEven ==
    ASSUME XqInv, CallInv, OrderInv, CallInv', SameLog, NEW z, Becomes(z), Even(State, z), drv'.pc # "resetting"
    PROVE  OrderInv'
<1>1. Carries(State, z, drv.rix)
  BY Holds, EvenCarries
<1> QED BY <1>1, OrderRead

LEMMA Unmoved == ASSUME UNCHANGED <<xq, mem, net>> PROVE Becomes(State) /\ Even(State, State)
BY StateIs DEF Becomes, Even

LEMMA OrderBegin == ASSUME XqInv, CallInv, OrderInv, CallInv', Start PROVE OrderInv'
<1> DEFINE s == State
<1>1. PICK c \in CsrModes : Becomes(xq_wr_csr(s, c)) /\ drv' = [drv EXCEPT !.pc = "init", !.want = c]
  BY DEF Start
<1> DEFINE z == xq_wr_csr(s, c)
<1>2. drv.pc = "down" /\ xq.mode = "normal" /\ UNCHANGED count /\ Becomes(z)
  BY <1>1 DEF Start, Settled
<1>3. ListInv(xq, mem.rx, drv) /\ DrvFields \subseteq DOMAIN drv /\ s.xq = xq /\ Fit(s)
  BY <1>2, Holds, HoldsNormal
<1>4. c \subseteq {"EL", "IL", "IE", "RE"}
  BY XqAssumption
<1>5. Rests(xq, mem.rx, drv)
  BY <1>2, <1>3 DEF ListInv
<1>6. SameLog /\ drv'.pc = "init"
  BY <1>1, <1>2, <1>3, OrderHolds DEF SameLog, DrvFields
<1> HIDE DEF s
<1>7. Writes(s, z, c)
  BY <1>3, <1>4, <1>5, WritePlain DEF Rests
<1> HIDE DEF z
<1> QED BY <1>2, <1>6, <1>7, OrderEven DEF Writes, s

LEMMA OrderGiveList == ASSUME XqInv, CallInv, OrderInv, CallInv', GiveList PROVE OrderInv'
<1> DEFINE s == State
           z == xq_dispatch_rbdl(s, 0)
<1>1. Becomes(z) /\ drv' = [drv EXCEPT !.pc = "idle"] /\ UNCHANGED count /\ drv.pc = "init"
  BY DEF GiveList
<1>2. xq.mode = "normal"
  BY <1>1, Holds DEF CallPart, RingInv
<1>3. ListInv(xq, mem.rx, drv) /\ s.xq = xq /\ s.mem = mem /\ Fit(s) /\ ListEnds(s)
  BY <1>2, Holds, HoldsNormal
<1>4. Blank(xq, mem.rx) /\ drv.rix = 0
  BY <1>1, <1>3 DEF ListInv
<1>5. 0 \in 0 .. NRx - 1 /\ Valid(s.mem.rx, 0) /\ \A i \in 0 .. NRx - 1 : ~Full(s.mem.rx, i)
  BY <1>3, <1>4, FreshRing, Lists DEF Blank
<1>6. SameLog /\ drv'.pc = "idle"
  BY <1>1, PcLog
<1> HIDE DEF s
<1>7. Offers(s, z, 0)
  BY <1>3, <1>5, DispatchOffers
<1> HIDE DEF z
<1> QED BY <1>1, <1>4, <1>6, <1>7, OrderRead DEF Offers, s

LEMMA OrderBoot == ASSUME XqInv, CallInv, OrderInv, CallInv', Boot PROVE OrderInv'
<1> DEFINE s == State
           t == xq_dispatch_rbdl(s, 0)
           data == {"EL", "BD"}
           z == xq_wr_csr(t, data)
<1>1. /\ Becomes(z) /\ drv' = [drv EXCEPT !.pc = "scan"] /\ UNCHANGED count
      /\ drv.pc = "down" /\ xq.mode = "normal"
  BY DEF Boot, Settled
<1>2. ListInv(xq, mem.rx, drv) /\ s.xq = xq /\ s.mem = mem /\ Fit(s) /\ ListEnds(s)
  BY <1>1, Holds, HoldsNormal
<1>3. Rests(xq, mem.rx, drv) /\ drv.rix = 0
  BY <1>1, <1>2 DEF ListInv, Rests
<1>4. 0 \in 0 .. NRx - 1 /\ Valid(s.mem.rx, 0) /\ \A i \in 0 .. NRx - 1 : ~Full(s.mem.rx, i)
  BY <1>2, <1>3, FreshRing, Lists DEF Rests, Blank
<1>5. SameLog /\ drv'.pc = "scan"
  BY <1>1, PcLog
<1> HIDE DEF s, data
<1>6. Offers(s, t, 0) /\ t.mem = s.mem
  BY <1>2, <1>3, <1>4, DispatchOffers DEF Rests
<1> HIDE DEF t
<1>7. Fit(t) /\ ListEnds(t) /\ "SR" \notin t.xq.csr /\ Ready(t, 0)
  BY <1>1, <1>2, <1>3, <1>6 DEF Offers, Rests, ListEnds, Ready
<1>8. PICK v : Writes(t, v, data) /\ Fares(v, z, 0)
  BY <1>4, <1>7, WriteBoot DEF data
<1> HIDE DEF z
<1>9. Ready(v, 0)
  BY <1>7, <1>8, ReadySame DEF Writes
<1>10. Carries(t, v, 0) /\ Carries(v, z, 0)
  BY <1>4, <1>8, <1>9, EvenCarries DEF Writes, Fares
<1>11. Carries(s, z, 0)
  BY <1>6, <1>10, CarriesChain DEF Offers
<1> QED BY <1>1, <1>3, <1>5, <1>11, OrderRead DEF s

LEMMA OrderEnterTurbo == ASSUME XqInv, CallInv, OrderInv, CallInv', EnterTurbo PROVE OrderInv'
<1> DEFINE s == State
           e == xq_enter_turbo(s)
           z == [e EXCEPT !.mem.rx = [i \in 0 .. NRx |-> Buffer(i < NRx)]]
<1>1. Becomes(z) /\ UNCHANGED <<drv, count>> /\ drv.pc = "down" /\ xq.mode = "normal"
  BY DEF EnterTurbo, Settled
<1>2. Shaped(s) /\ s.xq = xq /\ s.mem = mem
  BY Holds
<1>3. Rests(xq, mem.rx, drv)
  BY <1>1, HoldsNormal DEF ListInv
<1> HIDE DEF s
<1>4. /\ e.xq = [s.xq EXCEPT !.mode = "turbo", !.srr = "TRBO", !.units = @ \ {"Poll"}]
      /\ e.mem = s.mem /\ e.net = s.net
      /\ {"xq", "mem", "net"} \subseteq DOMAIN e /\ "rx" \in DOMAIN s.mem
  BY <1>2 DEF xq_enter_turbo, Shaped
<1> HIDE DEF e
<1>5. z.xq = e.xq /\ z.mem.rx = NewRx /\ z.net = e.net
  BY <1>4 DEF NewRx
<1> HIDE DEF z
<1>6. z.xq.q = s.xq.q /\ z.xq.loss = s.xq.loss /\ z.net = s.net
  BY <1>2, <1>4, <1>5 DEF Shaped, Registers
<1>7. \A i \in 0 .. NRx - 1 : z.mem.rx[i].st = Free /\ s.mem.rx[i].st = Free
  <2>1. s.mem.rx = FreshRx /\ \A i \in 0 .. NRx - 1 : i \in 0 .. NRx
    BY <1>2, <1>3, Lists DEF Rests, Blank
  <2>2. \A v : Buffer(v).st = Free
    BY DEF Buffer
  <2> QED BY <1>5, <2>1, <2>2 DEF FreshRx, NewRx
<1>8. Even(s, z)
  BY <1>6, <1>7 DEF Even
<1> QED BY <1>1, <1>8, ServiceLog, OrderEven DEF s

LEMMA OrderStartTurbo == ASSUME XqInv, CallInv, OrderInv, CallInv', StartTurbo PROVE OrderInv'
<1> DEFINE y == xq_wr_srqr_set(State, "STRT")
<1>1. PICK loop \in BOOLEAN : Becomes([y EXCEPT !.xq.loop = loop])
  BY DEF StartTurbo
<1> DEFINE z == [y EXCEPT !.xq.loop = loop]
<1>2. Becomes(z) /\ UNCHANGED count /\ drv' = [drv EXCEPT !.pc = "waiting"]
  BY <1>1 DEF StartTurbo
<1>3. Shaped(y) /\ Even(State, y)
  BY Holds, Requested
<1>4. SameLog /\ drv'.pc = "waiting"
  BY <1>2, PcLog
<1> HIDE DEF y
<1>5. z.xq = [y.xq EXCEPT !.loop = loop] /\ z.mem = y.mem /\ z.net = y.net
  BY <1>3 DEF Shaped
<1> HIDE DEF z
<1>6. z.xq.q = y.xq.q /\ z.xq.loss = y.xq.loss
  BY <1>3, <1>5 DEF Shaped, Registers
<1>7. Even(State, z)
  BY <1>3, <1>5, <1>6 DEF Even
<1> QED BY <1>2, <1>4, <1>7, OrderEven

LEMMA OrderStopTurbo == ASSUME XqInv, CallInv, OrderInv, CallInv', StopTurbo PROVE OrderInv'
<1> DEFINE z == xq_wr_srqr_set(State, "STOP")
<1>1. Becomes(z) /\ UNCHANGED count /\ drv' = [drv EXCEPT !.pc = "stopping"]
  BY DEF StopTurbo
<1>2. Even(State, z)
  BY Holds, Requested
<1>3. SameLog /\ drv'.pc = "stopping"
  BY <1>1, PcLog
<1> HIDE DEF z
<1> QED BY <1>1, <1>2, <1>3, OrderEven

LEMMA OrderInt == ASSUME XqInv, CallInv, OrderInv, CallInv', xq_int PROVE OrderInv'
<1> DEFINE z == xq_clrint(State)
           pc == IF drv.pc \in {"idle", "waiting"} THEN "ack" ELSE "down"
<1>1. Becomes(z) /\ UNCHANGED count /\ drv' = [drv EXCEPT !.pc = pc]
  BY DEF xq_int
<1>2. pc # "resetting"
  OBVIOUS
<1>3. Alike(State, z)
  BY Holds, ClrIntTells
<1> HIDE DEF z, pc
<1>4. Even(State, z)
  BY <1>3 DEF Alike, Silent, Even
<1> QED BY <1>1, <1>2, <1>4, PcLog, OrderEven

LEMMA OrderReadCsr == ASSUME XqInv, CallInv, OrderInv, CallInv', ReadCsr PROVE OrderInv'
<1> DEFINE seen == xq.csr \cap W1
<1>1. drv' = [drv EXCEPT !.pc = "write", !.seen = seen] /\ UNCHANGED <<xq, mem, net, count>>
  BY DEF ReadCsr
<1> HIDE DEF seen
<1>2. SameLog /\ drv'.pc = "write"
  BY <1>1, Holds, OrderHolds DEF SameLog, DrvFields
<1> QED BY <1>1, <1>2, Unmoved, OrderEven

LEMMA OrderEndScan == ASSUME XqInv, CallInv, OrderInv, CallInv', EndScan PROVE OrderInv'
<1>1. drv' = [drv EXCEPT !.pc = "relist"] /\ UNCHANGED <<xq, mem, net, count>>
  BY DEF EndScan
<1>2. SameLog /\ drv'.pc = "relist"
  BY <1>1, PcLog
<1> QED BY <1>1, <1>2, Unmoved, OrderEven

LEMMA OrderAcknowledge == ASSUME XqInv, CallInv, OrderInv, CallInv', Acknowledge PROVE OrderInv'
<1> DEFINE s == State
           data == drv.want \cup drv.seen
           y == xq_wr_csr(s, data)
           z == xq_wr_icr(s, FALSE)
           busy == drv.busy /\ ~(xq.mode = "turbo" \/ "XI" \in drv.seen)
<1>1. /\ drv' = [drv EXCEPT !.pc = "scan", !.busy = busy] /\ UNCHANGED count
      /\ (drv.pc = "write" /\ Becomes(y)) \/ (xq.mode = "turbo" /\ Becomes(z))
  BY DEF Acknowledge
<1> HIDE DEF busy
<1>2. SameLog /\ drv'.pc = "scan"
  BY <1>1, Holds, OrderHolds DEF SameLog, DrvFields
<1>3. CASE drv.pc = "write" /\ Becomes(y)
  <2>1. xq.mode = "normal"
    BY <1>3, Holds DEF CallPart, RingInv
  <2>2. ListInv(xq, mem.rx, drv) /\ s.xq = xq /\ Fit(s) /\ drv.want \subseteq {"EL", "IL", "IE", "RE"}
    BY <2>1, Holds, HoldsNormal
  <2>3. drv.seen \subseteq W1 /\ "SR" \notin xq.csr
    BY <1>3, <2>2 DEF ListInv
  <2>4. "BD" \notin data
    BY <2>2, <2>3 DEF W1
  <2> HIDE DEF s, data
  <2>5. Writes(s, y, data)
    BY <2>2, <2>3, <2>4, WritePlain
  <2> HIDE DEF y
  <2> QED BY <1>2, <1>3, <2>5, OrderEven DEF Writes, s
<1>4. CASE Becomes(z)
  <2>1. Shaped(s)
    BY Holds
  <2> HIDE DEF s
  <2>2. z.xq = [s.xq EXCEPT !.icr = FALSE] /\ z.mem = s.mem /\ z.net = s.net
    BY <2>1 DEF xq_wr_icr, Shaped
  <2> HIDE DEF z
  <2>3. Even(s, z)
    BY <2>1, <2>2 DEF Even, Shaped, Registers
  <2> QED BY <1>2, <1>4, <2>3, OrderEven DEF s
<1> QED BY <1>1, <1>3, <1>4

LEMMA OrderRelist == ASSUME XqInv, CallInv, OrderInv, CallInv', Relist PROVE OrderInv'
<1> DEFINE s == State
           r == drv.rix
           v == xq_dispatch_rbdl(s, r)
           y == xq_process_turbo_rbdl(s)
           z == xq_wr_icr(y, TRUE)
<1>1. drv' = [drv EXCEPT !.pc = "idle"] /\ UNCHANGED count /\ drv.pc = "relist"
  BY DEF Relist
<1>2. SameLog /\ drv'.pc = "idle"
  BY <1>1, PcLog
<1>3. s.xq = xq /\ s.mem = mem /\ r \in 0 .. NRx - 1 /\ xq.rba \in 0 .. NRx
  BY Holds DEF Shaped
<1>4. CASE xq.mode = "normal" /\ Becomes(v) /\ ~Full(mem.rx, r)
  <2>1. Reads(xq, mem.rx, drv) /\ Fit(s) /\ ListEnds(s)
    BY <1>1, <1>4, HoldsNormal DEF ListInv
  <2>2. Valid(s.mem.rx, r) /\ \A i \in 0 .. NRx - 1 : ~Full(s.mem.rx, i)
    BY <1>3, <1>4, <2>1, Emptied DEF Reads, Ring
  <2> HIDE DEF s, r
  <2>3. Offers(s, v, r)
    BY <1>3, <2>1, <2>2, DispatchOffers
  <2> HIDE DEF v
  <2> QED BY <1>2, <1>4, <2>3, OrderRead DEF Offers, s, r
<1>5. CASE UNCHANGED <<xq, mem, net>>
  BY <1>2, <1>5, Unmoved, OrderEven
<1>6. CASE xq.mode = "turbo" /\ Becomes(z)
  <2>1. Turns(xq, mem.rx, drv) /\ Rolls(s, r)
    BY <1>1, <1>6, HoldsTurns
  <2>2. ~s.xq.icr
    BY <1>1, <1>3, <2>1 DEF Turns
  <2> HIDE DEF s, r
  <2>3. Spins(s, y, r) /\ Rolls(y, r)
    BY <1>3, <2>1, ProcessSpins, SpinsRolls
  <2> HIDE DEF y
  <2>4. ~y.xq.icr /\ Shaped(y) /\ Turbo(y) /\ Carries(s, y, r)
    BY <2>2, <2>3 DEF Spins, Steady, Rolls
  <2>5. Even(y, z)
    BY <2>4, IcrEnabled
  <2> HIDE DEF z
  <2>6. Carries(s, z, r)
    BY <1>3, <2>4, <2>5, EvenCarries, CarriesChain
  <2> QED BY <1>2, <1>6, <2>6, OrderRead DEF s, r
<1> QED BY <1>4, <1>5, <1>6 DEF Relist, Full

(* The driver has taken what buffer r holds.                               *)
Freed(rx, ry, r) == ~Full(ry, r) /\ \A i \in 0 .. NRx - 1 : i # r => ry[i].st = rx[i].st

LEMMA SegmentRead ==
    ASSUME NEW r \in 0 .. NRx - 1, NEW next, next = (r + 1) % NRx, NEW h, Passes(r, next, h),
           NEW s, Full(s.mem.rx, r), NEW t, t.net = s.net, t.xq = s.xq, Freed(s.mem.rx, t.mem.rx, r),
           NEW w, NEW o, Streams(s, r, w, o),
           NEW v, v.log = Append(w.log, s.mem.rx[r].st), v.total = w.total, v.floor = w.floor, v.local = w.local
    PROVE  Streams(t, next, v, o)
<1> DEFINE base == w.total - Len(s.net)
           top == Tops(base, o)
           rx == s.mem.rx
           ry == t.mem.rx
           log == w.log
<1>1. log \in Seq(Segments) /\ w.total \in Nat /\ Stocked(s.net, base, w.local)
  BY DEF Streams
<1>2. PICK n : Buffers(rx, r, n) /\ Flow(Got(log, rx, r, n), s.xq.q, s.xq.loss, w.floor, top, w.local)
  BY DEF Streams
<1> HIDE DEF top, base
<1>3. n \in 0 .. NRx /\ \A i \in 0 .. NRx - 1 : Full(rx, i) <=> Off(i, r) < n
  BY <1>2 DEF Buffers
<1>4. \A i \in 0 .. NRx - 1 : /\ Off(i, r) \in 0 .. NRx - 1
                              /\ Off(i, r) = 0 <=> i = r
                              /\ Off(i, next) = IF i = r THEN NRx - 1 ELSE Off(i, r) - 1
  BY DEF Passes
<1>5. n \in 1 .. NRx /\ Off(r, r) = 0
  BY <1>3, <1>4, Lists
<1>6. ASSUME NEW i \in 0 .. NRx - 1 PROVE i # r => ry[i].st = rx[i].st /\ (Full(ry, i) <=> Full(rx, i))
  BY DEF Freed, Full
<1>7. ~Full(ry, r)
  BY DEF Freed
<1> HIDE DEF rx, ry, log
<1>8. Buffers(ry, next, n - 1)
  <2>1. ASSUME NEW i \in 0 .. NRx - 1 PROVE Full(ry, i) <=> Off(i, next) < n - 1
    <3> DEFINE a == Off(i, r)
               b == Off(i, next)
    <3>1. a \in 0 .. NRx - 1 /\ (a = 0 <=> i = r) /\ b = IF i = r THEN NRx - 1 ELSE a - 1
      BY <1>4
    <3>2. (Full(rx, i) <=> a < n) /\ (i # r => (Full(ry, i) <=> Full(rx, i)))
      BY <1>3, <1>6
    <3> HIDE DEF a, b
    <3>3. CASE i = r
      BY <1>5, <1>7, <3>1, <3>3, Lists DEF b
    <3>4. CASE i # r
      BY <1>5, <3>1, <3>2, <3>4, Lists DEF b
    <3> QED BY <3>3, <3>4
  <2> QED BY <1>5, <2>1, Lists DEF Buffers
<1>9. ASSUME NEW k \in 1 .. n - 1 PROVE ry[Slot(r, k)].st = rx[Slot(r, k)].st
  <2>1. k \in 0 .. NRx - 1 /\ k # 0
    BY <1>5, Lists
  <2>2. Slot(r, k) \in 0 .. NRx - 1 /\ Off(Slot(r, k), r) = k
    BY <2>1, Slots
  <2>3. Slot(r, k) # r
    BY <1>5, <2>1, <2>2
  <2> QED BY <1>6, <2>2, <2>3
<1>10. next = IF r + 1 = NRx THEN 0 ELSE r + 1
  BY Lists, Around
<1>11. Got(log, rx, r, n) \in Seq(Segments)
  BY <1>2, FlowIs
<1>12. /\ Append(log, rx[r].st) \in Seq(Segments)
       /\ Got(Append(log, rx[r].st), ry, next, n - 1) = Got(log, rx, r, n)
  <2>1. log \in Seq(Segments) /\ n \in 1 .. NRx /\ \A k \in 1 .. n - 1 : ry[Slot(r, k)].st = rx[Slot(r, k)].st
    BY <1>1, <1>5, <1>9
  <2> QED BY <1>10, <1>11, <2>1, GotRead
<1>13. v.log = Append(log, rx[r].st)
  BY DEF log, rx
<1>14. Flow(Got(v.log, ry, next, n - 1), t.xq.q, t.xq.loss, v.floor, top, v.local)
  BY <1>2, <1>12, <1>13
<1>15. v.total - Len(t.net) = base
  BY DEF base
<1> QED BY <1>1, <1>8, <1>12, <1>13, <1>14, <1>15 DEF Streams, ry, top

LEMMA OrderReadSegment == ASSUME XqInv, CallInv, OrderInv, CallInv', ReadSegment PROVE OrderInv'
<1> DEFINE r == drv.rix
           h == (r + NRx - 1) % NRx
           next == (r + 1) % NRx
           ring == [mem.rx EXCEPT ![r] = Buffer(TRUE)]
           list == [mem.rx EXCEPT ![h] = Buffer(TRUE), ![r] = Buffer(FALSE)]
           log == Append(drv.log, mem.rx[r].st)
           z == [xq |-> xq, mem |-> mem', net |-> net]
<1>1. drv' = [drv EXCEPT !.rix = next, !.log = log]
  BY DEF ReadSegment
<1>2. /\ drv.pc = "scan" /\ Full(mem.rx, r) /\ UNCHANGED <<xq, net, count>>
      /\ mem' = [mem EXCEPT !.rx = IF xq.mode = "turbo" THEN ring ELSE list]
  BY DEF ReadSegment, Full
<1>3. /\ DrvFields \subseteq DOMAIN drv /\ r \in 0 .. NRx - 1 /\ DOMAIN mem.rx = 0 .. NRx
      /\ "rx" \in DOMAIN mem /\ State.xq = xq /\ State.mem = mem /\ State.net = net
      /\ {"log", "floor"} \subseteq DOMAIN drv
  BY Holds, OrderHolds, StateIs DEF Shaped
<1>4. Passes(r, next, h)
  BY <1>3, Passing
<1>5. Freed(mem.rx, mem'.rx, r)
  <2>1. CASE xq.mode = "turbo"
    <3>1. mem'.rx = ring
      BY <1>2, <1>3, <2>1
    <3> HIDE DEF r
    <3>2. ring[r].st = Free /\ \A i \in 0 .. NRx - 1 : i # r => ring[i] = mem.rx[i]
      BY <1>3, Lists DEF Buffer
    <3> HIDE DEF ring
    <3> QED BY <3>1, <3>2 DEF Freed, Full
  <2>2. CASE xq.mode # "turbo"
    <3>1. mem'.rx = list /\ xq.mode = "normal"
      BY <1>2, <1>3, <2>2, Holds DEF Shaped
    <3>2. ListInv(xq, mem.rx, drv) /\ xq.rba \in 0 .. NRx
      BY <3>1, HoldsNormal, Holds DEF Shaped
    <3>3. Ring(xq, mem.rx, r)
      BY <1>2, <3>2 DEF ListInv, Reads
    <3> HIDE DEF r, h, z, next, list
    <3>4. h \in 0 .. NRx - 1 /\ h # r /\ Off(h, r) = NRx - 1 /\ r \in 0 .. NRx /\ h \in 0 .. NRx
      <4>1. h \in 0 .. NRx - 1 /\ h # r /\ Off(h, r) = NRx - 1
        BY <1>4 DEF Passes
      <4>2. 0 .. NRx - 1 \subseteq 0 .. NRx
        BY Lists
      <4> QED BY <1>3, <4>1, <4>2
    <3>5. Exchanged(mem.rx, list, r, h)
      BY <1>3, <3>4, Exchange DEF list
    <3>6. ~Full(mem.rx, h)
      <4>1. (IF xq.rba = NRx THEN 0 ELSE xq.rba) \in 0 .. NRx - 1
        BY <3>2, Lists
      <4>2. Depth(xq, r) <= NRx - 1
        BY <1>3, <1>4, <4>1 DEF Depth, Passes
      <4>3. Full(mem.rx, h) <=> Off(h, r) < Depth(xq, r)
        BY <3>3, <3>4 DEF Ring
      <4>4. Depth(xq, r) \in Int
        BY <1>3, <1>4, <4>1 DEF Depth, Passes
      <4> QED BY <3>4, <4>2, <4>3, <4>4, Lists
    <3>7. ASSUME NEW i \in 0 .. NRx - 1, i # r PROVE list[i].st = mem.rx[i].st
      <4>1. CASE i = h
        BY <3>5, <3>6, <4>1 DEF Exchanged, Full
      <4>2. CASE i # h
        <5>1. i \in 0 .. NRx
          BY Lists
        <5> QED BY <3>5, <3>7, <4>2, <5>1 DEF Exchanged
      <4> QED BY <4>1, <4>2
    <3> QED BY <3>1, <3>5, <3>7 DEF Freed, Exchanged
  <2> QED BY <2>1, <2>2
<1> HIDE DEF h, next, ring, list, log
<1>6. drv'.rix = next /\ drv'.log = log /\ drv'.floor = drv.floor /\ drv'.pc = "scan"
      /\ {"log", "floor"} \subseteq DOMAIN drv'
  BY <1>1, <1>2, <1>3 DEF DrvFields
<1>7. Becomes(z) /\ z.xq = xq /\ z.net = net /\ z.mem = mem'
  BY <1>2 DEF Becomes
<1> DEFINE w == History(drv, count)
           v == History(drv', count')
<1>8. w.log = drv.log /\ v.log = log /\ v.floor = w.floor /\ v.total = w.total /\ v.local = w.local
  BY <1>2, <1>6 DEF History
<1>9. Streams(State, r, w, count.own)
  BY OrderHolds
<1> HIDE DEF w, v, r, z
<1>10. Streams(z, next, v, count.own)
  BY <1>2, <1>3, <1>4, <1>5, <1>7, <1>8, <1>9, SegmentRead DEF next, log
<1>11. z.xq.mode = "normal" => Ready(z, next)
  BY <1>6, <1>7, ReadyAfter
<1>12. OrderPart(z, drv', count')
  BY <1>2, <1>6, <1>10, <1>11, OrderHolds DEF OrderPart, v
<1> QED BY <1>7, <1>12, OrderBecomes

(* The packets of message m, in their order, are new and rising.           *)
Carried(tx, m) == \A c \in 0 .. Len(m) - 1 : tx[c] = Descriptor(m[c + 1])

LEMMA MessageNumbers ==
    ASSUME Owned(count), NEW m \in Messages, NEW tx, Carried(tx, m), NEW top, top = count.own + Last(m).nth
    PROVE  Numbers(tx, Len(m), top) /\ count.own <= top /\ \A c \in 0 .. Len(m) - 1 : count.own < tx[c].pkt.id
<1> DEFINE D == [last : BOOLEAN, setup : BOOLEAN, bad : BOOLEAN, nth : Nat \ {0}, size : 1 .. NRx - 1]
           n == Len(m)
           own == count.own
<1>1. /\ m \in Seq(D) /\ Last(m).last /\ n \in 1 .. NTx
      /\ \A j \in DOMAIN m : \A i \in 1 .. j - 1 : m[i].last => m[i].nth < m[j].nth
  BY XqAssumption, DriverAssumption
<1>2. Last(m) = m[n] /\ own \in Nat
  BY DEF Last, Owned
<1> HIDE DEF D
<1>3. DOMAIN m = 1 .. n /\ \A j \in 1 .. n : m[j] \in D
  BY <1>1
<1>4. ASSUME NEW d \in D
      PROVE  /\ d.nth \in Nat \ {0} /\ Descriptor(d).last = d.last /\ Descriptor(d).pkt.src = "own"
             /\ Descriptor(d).pkt.id = own + d.nth
  BY DEF D, Descriptor
<1> HIDE DEF n, own
<1>5. ASSUME NEW c \in 0 .. n - 1
      PROVE  /\ c + 1 \in 1 .. n /\ m[c + 1].nth \in Nat \ {0}
             /\ tx[c].last = m[c + 1].last /\ tx[c].pkt.src = "own" /\ tx[c].pkt.id = own + m[c + 1].nth
  <2>1. c + 1 \in 1 .. n
    BY <1>1
  <2>2. m[c + 1] \in D /\ tx[c] = Descriptor(m[c + 1])
    BY <1>3, <2>1 DEF Carried, n
  <2> QED BY <1>4, <2>1, <2>2
<1>6. tx[n - 1].pkt.id = top /\ top \in Nat /\ own <= top
  <2>1. n - 1 \in 0 .. n - 1 /\ (n - 1) + 1 = n
    BY <1>1
  <2>2. tx[n - 1].pkt.id = own + m[n].nth /\ m[n].nth \in Nat
    BY <1>5, <2>1
  <2> QED BY <1>2, <2>2 DEF own
<1>7. ASSUME NEW j \in 0 .. n - 1, NEW i \in 0 .. j - 1, tx[i].last PROVE tx[i].pkt.id < tx[j].pkt.id
  <2>1. i \in 0 .. n - 1 /\ i + 1 \in 1 .. (j + 1) - 1 /\ j + 1 \in 1 .. n
    BY <1>1
  <2>2. m[i + 1].last
    BY <1>5, <1>7, <2>1
  <2>3. m[i + 1].nth < m[j + 1].nth
    BY <1>1, <1>3, <2>1, <2>2
  <2> QED BY <1>2, <1>5, <2>1, <2>3
<1>8. \A c \in 0 .. n - 1 : own < tx[c].pkt.id
  BY <1>2, <1>5
<1> QED BY <1>5, <1>6, <1>7, <1>8 DEF Numbers, n, own

(* A transmission that takes all of message m keeps the order.             *)
Transmits(a, z, r, tx, n, k, top) ==
    \A w : Numbers(tx, n, top) /\ Orders(a, r, w, tx, n, 0, top) => Orders(z, r, w, tx, n, k, top)

LEMMA MessageStreams ==
    ASSUME Owned(count), NEW m \in Messages, NEW tx, Carried(tx, m), NEW own, own = count.own + Last(m).nth,
           NEW s, NEW a, NEW r \in 0 .. NRx - 1, Even(s, a), NEW w, Streams(s, r, w, count.own),
           NEW z, NEW k, Transmits(a, z, r, tx, Len(m), k, own)
    PROVE  Streams(z, r, w, own)
<1>1. Streams(a, r, w, count.own)
  BY EvenCarries DEF Carries
<1>2. Numbers(tx, Len(m), own) /\ count.own <= own /\ \A c \in 0 .. Len(m) - 1 : count.own < tx[c].pkt.id
  BY MessageNumbers
<1>3. Orders(a, r, w, tx, Len(m), 0, own)
  BY <1>1, <1>2 DEF Orders
<1>4. Orders(z, r, w, tx, Len(m), k, own)
  BY <1>2, <1>3 DEF Transmits
<1>5. PICK o : Streams(z, r, w, o) /\ o <= own
  BY <1>4 DEF Orders
<1>6. own \in Nat
  BY <1>2 DEF Numbers
<1> QED BY <1>5, <1>6, StreamsWiden

LEMMA ListTransmits ==
    ASSUME XqInv, CallInv, OrderInv, drv.pc = "idle", xq.mode = "normal", NEW m \in Messages,
           NEW z, z = xq_dispatch_xbdl([State EXCEPT !.mem.tx = Listed(m)]), NEW top
    PROVE  \E a, tx, k : Even(State, a) /\ Carried(tx, m) /\ Transmits(a, z, drv.rix, tx, Len(m), k, top)
<1> DEFINE tx == Listed(m)
           a == [State EXCEPT !.mem.tx = tx]
           n == Len(m)
           r == drv.rix
<1>1. Owned(count) /\ r \in 0 .. NRx - 1 /\ Fit(State) /\ Good(State) /\ Ready(State, r) /\ State.xq = xq
  BY Holds, HoldsNormal, OrderHolds
<1>2. Loaded(tx, n) /\ n \in 1 .. NTx
  BY <1>1, ListLoaded DEF Loaded
<1>3. z = xq_dispatch_xbdl(a) /\ Good(a)
  BY <1>1, NewTx
<1>4. Carried(tx, m)
  <2>1. ASSUME NEW c \in 0 .. n - 1 PROVE tx[c] = Descriptor(m[c + 1])
    <3>1. c \in 0 .. NTx /\ c < n
      BY <1>2, Lists
    <3> QED BY <3>1 DEF Listed
  <2> HIDE DEF tx
  <2> QED BY <2>1 DEF Carried
<1> HIDE DEF tx
<1>5. a.xq = State.xq /\ a.net = State.net /\ a.mem.rx = State.mem.rx /\ a.mem.tx = tx /\ Shaped(a)
  <2>1. Shaped(State)
    BY <1>1 DEF Fit
  <2> QED BY <2>1, NewTxFit
<1> HIDE DEF a
<1>6. Fit(a) /\ Even(State, a) /\ Ready(a, r)
  BY <1>1, <1>5, ReadySame DEF Fit, Turbo, Even
<1> HIDE DEF n, r
<1>7. Orderly(a, z, r, n, NTx + 1)
  BY <1>1, <1>2, <1>3, <1>5, <1>6, DispatchSends
<1>8. Transmits(a, z, r, tx, n, NTx + 1, top)
  BY <1>5, <1>6, <1>7 DEF Orderly, Transmits
<1> QED BY <1>4, <1>6, <1>8 DEF n, r

LEMMA RingTransmits ==
    ASSUME XqInv, CallInv, OrderInv, drv.pc = "idle", xq.mode = "turbo", NEW m \in Messages,
           NEW z, z = xq_process_turbo_xbdl([State EXCEPT !.mem.tx = Ringed(m)]), NEW top
    PROVE  \E a, tx, k : Even(State, a) /\ Carried(tx, m) /\ Transmits(a, z, drv.rix, tx, Len(m), k, top)
<1> DEFINE ring == Ringed(m)
           a == [State EXCEPT !.mem.tx = ring]
           n == Len(m)
           t0 == drv.tix
           r == drv.rix
           tx == Unrolled(ring, n, t0)
<1>1. Owned(count) /\ r \in 0 .. NRx - 1 /\ State.xq = xq /\ Turns(xq, mem.rx, drv) /\ Rolls(State, r)
  BY Holds, HoldsTurns
<1>2. t0 \in 0 .. NTx - 1 /\ xq.tbindx = t0 /\ xq.srr = "STRT"
  BY <1>1 DEF Turns
<1>3. Left(ring, 0, n, t0) /\ n \in 1 .. NTx
  BY <1>1, <1>2, RingLoaded
<1>4. Carried(tx, m)
  <2>1. ASSUME NEW c \in 0 .. n - 1 PROVE tx[c] = Descriptor(m[c + 1])
    <3> DEFINE i == At(c, t0)
    <3>1. c \in 0 .. NTx - 1 /\ c \in 0 .. NTx /\ c < n
      BY <1>3, Lists
    <3>2. i \in 0 .. NTx - 1 /\ Along(i, t0) = c
      BY <1>2, <3>1, AlongIs
    <3>3. (i + NTx - t0) % NTx = c
      BY <1>2, <3>2, AlongIs
    <3> HIDE DEF i
    <3>4. i \in 0 .. NTx /\ i < NTx
      BY <3>2, Lists
    <3>5. ring[i] = Descriptor(m[c + 1])
      BY <3>1, <3>3, <3>4 DEF Ringed
    <3> HIDE DEF ring
    <3> QED BY <3>5 DEF Unrolled, i
  <2> HIDE DEF tx
  <2> QED BY <2>1 DEF Carried
<1>5. z = xq_process_turbo_xbdl(a)
  OBVIOUS
<1> HIDE DEF ring
<1>6. a.xq = State.xq /\ a.net = State.net /\ a.mem.rx = State.mem.rx /\ a.mem.tx = ring /\ Shaped(a)
  <2>1. Shaped(State)
    BY <1>1 DEF Rolls
  <2> QED BY <2>1, NewTxFit
<1> HIDE DEF a, n, t0, r
<1>7. Rolls(a, r) /\ a.xq.tbindx = t0 /\ Left(a.mem.tx, 0, n, t0) /\ Even(State, a)
  BY <1>1, <1>2, <1>3, <1>6 DEF Rolls, Turbo, Even
<1>8. z = TurboTransmit(a)
  BY <1>1, <1>2, <1>5, <1>6 DEF xq_process_turbo_xbdl
<1>9. Posts(a, z, n, t0, r)
  BY <1>1, <1>2, <1>3, <1>7, <1>8, TransmitPosts
<1>10. Transmits(a, z, r, tx, n, n, top)
  BY <1>6, <1>9 DEF Posts, Transmits
<1> QED BY <1>4, <1>7, <1>10 DEF n, r

LEMMA OrderSend == ASSUME XqInv, CallInv, OrderInv, CallInv', Send PROVE OrderInv'
<1> DEFINE s == State
           y(m) == xq_dispatch_xbdl([State EXCEPT !.mem.tx = Listed(m)])
           x(m) == xq_process_turbo_xbdl([State EXCEPT !.mem.tx = Ringed(m)])
           r == drv.rix
<1>1. PICK m \in Messages : /\ \/ xq.mode = "normal" /\ Becomes(y(m))
                               \/ xq.mode = "turbo" /\ Becomes(x(m))
                            /\ drv' = [drv EXCEPT !.busy = TRUE, !.tix = (@ + Len(m)) % NTx]
                            /\ count' = [count EXCEPT !.own = @ + Last(m).nth]
  BY DEF Send
<1> DEFINE own == count.own + Last(m).nth
           tix == (drv.tix + Len(m)) % NTx
<1>2. drv.pc = "idle" /\ drv' = [drv EXCEPT !.busy = TRUE, !.tix = tix] /\ count' = [count EXCEPT !.own = own]
  BY <1>1 DEF Send
<1>3. \E z : /\ Becomes(z)
             /\ \E a, tx, k : Even(s, a) /\ Carried(tx, m) /\ Transmits(a, z, r, tx, Len(m), k, own)
  <2> HIDE DEF own
  <2>1. CASE xq.mode = "normal" /\ Becomes(y(m))
    BY <1>2, <2>1, ListTransmits
  <2>2. CASE xq.mode = "turbo" /\ Becomes(x(m))
    BY <1>2, <2>2, RingTransmits
  <2> HIDE DEF x, y
  <2> QED BY <1>1, <2>1, <2>2
<1> HIDE DEF x, y, s
<1>4. PICK z : /\ Becomes(z)
               /\ \E a, tx, k : Even(s, a) /\ Carried(tx, m) /\ Transmits(a, z, r, tx, Len(m), k, own)
  BY <1>3
<1>5. PICK a, tx, k : Even(s, a) /\ Carried(tx, m) /\ Transmits(a, z, r, tx, Len(m), k, own)
  BY <1>4
<1> DEFINE w == History(drv, count)
<1>6. Owned(count) /\ r \in 0 .. NRx - 1 /\ Streams(s, r, w, count.own)
  BY Holds, OrderHolds DEF s
<1> HIDE DEF w
<1>7. Streams(z, r, w, own)
  BY <1>5, <1>6, MessageStreams
<1> HIDE DEF own, tix
<1>8. /\ drv'.rix = r /\ drv'.log = drv.log /\ drv'.floor = drv.floor /\ drv'.pc = "idle"
      /\ {"log", "floor"} \subseteq DOMAIN drv'
  BY <1>2, Holds, OrderHolds DEF DrvFields
<1>9. /\ count'.own = own /\ count'.net = count.net /\ count'.local = count.local
      /\ {"net", "own", "local"} \subseteq DOMAIN count'
  BY <1>2, OrderHolds
<1>10. History(drv', count') = w
  BY <1>8, <1>9 DEF History, w
<1>11. z.xq.mode = "normal" => Ready(z, drv'.rix)
  BY <1>4, <1>8, ReadyAfter
<1>12. OrderPart(z, drv', count')
  BY <1>7, <1>8, <1>9, <1>10, <1>11 DEF OrderPart
<1> QED BY <1>4, <1>12, OrderBecomes

LEMMA FreshBuffers == Buffers(FreshRx, 0, 0)
<1>1. 0 \in 0 .. NRx - 1 /\ 0 \in 0 .. NRx
  BY Lists
<1>2. ASSUME NEW i \in 0 .. NRx - 1 PROVE ~Full(FreshRx, i) /\ ~(Off(i, 0) < 0)
  <2>1. Off(i, 0) \in 0 .. NRx - 1
    BY <1>1, Slots
  <2> QED BY <2>1, FreshRing
<1> QED BY <1>1, <1>2 DEF Buffers

(* A reset: the log, the list and the queue are empty, what waits in the   *)
(* network is all that is still to come.                                   *)
LEMMA OrderAnew ==
    ASSUME XqInv, CallInv, OrderInv, NEW z, Resets(State, z), DownAfterReset(z),
           count' = [count EXCEPT !.resets = @ + 1]
    PROVE  OrderInv'
<1> DEFINE m == [rx |-> FreshRx, tx |-> FreshTx]
           base == count.net - Len(net)
           floor == Tops(base, count.own)
           y == [z EXCEPT !.mem = m]
           w == History(drv, count)
           v == History(drv', count')
<1>1. Becomes(y) /\ drv' = Down(floor)
  BY DEF DownAfterReset, Tops
<1>2. y.xq = z.xq /\ y.mem = m /\ y.net = z.net /\ m.rx = FreshRx
  BY DEF Resets, Shaped
<1>3. /\ count'.net = count.net /\ count'.own = count.own /\ count'.local = count.local
      /\ {"net", "own", "local"} \subseteq DOMAIN count'
  BY OrderHolds
<1>4. w.total = count.net /\ w.local = count.local /\ State.net = net /\ count.own \in Nat
  BY Holds, StateIs DEF History, Owned
<1>5. Streams(State, drv.rix, w, count.own)
  BY OrderHolds
<1> HIDE DEF y, m, w
<1>6. base \in Nat /\ count.net \in Nat /\ Stocked(net, base, count.local)
  BY <1>4, <1>5 DEF Streams, Stocked
<1>7. State.xq.loss \in BOOLEAN
  BY <1>5, FlowIs DEF Streams
<1> HIDE DEF base
<1>8. z.net = net /\ z.xq.loss \in BOOLEAN /\ z.xq.q = <<>> /\ "RL" \in z.xq.csr
  BY <1>4, <1>7 DEF Resets
<1>9. \A x \in Numbered : floor[x] \in Nat
  BY <1>4, <1>6 DEF Tops, Numbered
<1> HIDE DEF floor
<1>10. drv'.rix = 0 /\ drv'.log = <<>> /\ drv'.floor = floor /\ {"log", "floor"} \subseteq DOMAIN drv'
  BY <1>1 DEF Down
<1>11. v.log = <<>> /\ v.floor = floor /\ v.total = count.net /\ v.local = count.local
  BY <1>3, <1>10 DEF History
<1> HIDE DEF v
<1>12. Flow(<<>>, <<>>, z.xq.loss, floor, floor, v.local)
  BY <1>8, <1>9, FlowStart
<1>13. <<>> \in Seq(Segments)
  OBVIOUS
<1>14. Got(<<>>, FreshRx, 0, 0) = <<>>
  BY <1>13, GotNone
<1>15. Buffers(FreshRx, 0, 0)
  BY FreshBuffers
<1>16. Streams(y, 0, v, count.own)
  BY <1>2, <1>6, <1>8, <1>11, <1>12, <1>13, <1>14, <1>15 DEF Streams, base, floor
<1>17. Ready(y, 0)
  BY <1>2, <1>8 DEF Ready
<1>18. OrderPart(y, drv', count')
  BY <1>3, <1>10, <1>16, <1>17 DEF OrderPart, v
<1> QED BY <1>1, <1>18, OrderBecomes

LEMMA OrderBusReset == ASSUME XqInv, CallInv, OrderInv, BusReset PROVE OrderInv'
<1> DEFINE z == xq_reset(State)
<1>1. DownAfterReset(z) /\ count' = [count EXCEPT !.resets = @ + 1]
  BY DEF BusReset
<1>2. Resets(State, z)
  BY Holds, BusResets
<1> HIDE DEF z
<1> QED BY <1>1, <1>2, OrderAnew

LEMMA OrderSoftReset == ASSUME XqInv, CallInv, OrderInv, SoftReset PROVE OrderInv'
<1> DEFINE s == State
           data == {"SR"}
           z == xq_wr_csr(s, data)
           y == IF xq.mode = "turbo" THEN xq_sw_reset(s) ELSE xq_wr_csr(s, {})
<1>1. CASE /\ drv.pc \in {"idle", "down"} /\ xq.mode = "normal" /\ Becomes(z)
           /\ drv' = [drv EXCEPT !.pc = "resetting"] /\ UNCHANGED count
  <2>1. Fit(s) /\ "SR" \notin s.xq.csr /\ drv.rix \in 0 .. NRx - 1 /\ Ready(s, drv.rix)
    BY <1>1, Holds, HoldsNormal, OrderHolds DEF ListInv
  <2>2. "BD" \notin data
    OBVIOUS
  <2>3. SameLog
    BY <1>1, PcLog
  <2> HIDE DEF s, data
  <2>4. Writes(s, z, data)
    BY <2>1, <2>2, WritePlain
  <2> HIDE DEF z
  <2>5. Carries(s, z, drv.rix) /\ Ready(z, drv.rix)
    BY <2>1, <2>4, EvenCarries, ReadySame DEF Writes
  <2> QED BY <1>1, <2>3, <2>5, OrderCarried DEF s
<1>2. CASE /\ drv.pc = "resetting" \/ xq.mode = "turbo"
           /\ DownAfterReset(y)
           /\ count' = [count EXCEPT !.resets = @ + 1]
  <2>1. Resets(s, y)
    BY <1>2, SoftResets
  <2> HIDE DEF y
  <2> QED BY <1>2, <2>1, OrderAnew
<1> QED BY <1>1, <1>2 DEF SoftReset

-----------------------------------------------------------------------------
(* The third theorem                                                       *)

LEMMA OrderInit == Init => OrderInv
<1> SUFFICES ASSUME Init PROVE OrderInv
  OBVIOUS
<1> DEFINE s == State
           w == History(drv, count)
           floor == Tops(0, 0)
<1>1. /\ s.net = <<>> /\ s.mem.rx = FreshRx /\ s.xq.q = <<>> /\ s.xq.loss = FALSE /\ "RL" \in s.xq.csr
  BY DEF Init, State
<1>2. /\ drv.rix = 0 /\ drv.log = <<>> /\ drv.floor = floor /\ {"log", "floor"} \subseteq DOMAIN drv
  BY DEF Init, Down, Tops
<1>3. count.net = 0 /\ count.own = 0 /\ count.local = {} /\ {"net", "own", "local"} \subseteq DOMAIN count
  BY DEF Init
<1>4. w.log = <<>> /\ w.floor = floor /\ w.total = 0 /\ w.local = {}
  BY <1>2, <1>3 DEF History
<1>5. \A x \in Numbered : floor[x] \in Nat
  BY DEF Tops, Numbered
<1> HIDE DEF s, w, floor
<1>6. Flow(<<>>, <<>>, FALSE, floor, floor, {})
  BY <1>5, FlowStart
<1>7. <<>> \in Seq(Segments) /\ Len(<<>>) = 0
  OBVIOUS
<1>8. Got(<<>>, FreshRx, 0, 0) = <<>>
  BY <1>7, GotNone
<1>9. Buffers(FreshRx, 0, 0)
  BY FreshBuffers
<1>10. Stocked(<<>>, 0, {})
  BY <1>7 DEF Stocked
<1>11. Streams(s, 0, w, 0)
  <2>1. Len(s.net) = 0
    BY <1>1, <1>7, Zenon
  <2>2. w.total - Len(s.net) = 0 /\ w.total \in Nat
    <3>1. w.total = 0
      BY <1>4
    <3> QED BY <2>1, <3>1
  <2> QED BY <1>1, <1>4, <1>6, <1>7, <1>8, <1>9, <1>10, <2>2 DEF Streams, floor
<1>12. Ready(s, 0)
  BY <1>1 DEF Ready
<1> QED BY <1>2, <1>3, <1>11, <1>12 DEF OrderInv, OrderPart, s, w

LEMMA OrderStep == XqInv /\ CallInv /\ OrderInv /\ [Next]_vars => OrderInv'
<1> SUFFICES ASSUME XqInv, CallInv, OrderInv, [Next]_vars PROVE OrderInv'
  OBVIOUS
<1>1. CallInv'
  BY CallStep
<1>2. CASE Units
  BY <1>2, OrderPoll, OrderStart, OrderReceive, OrderSrqr DEF Units
<1>3. CASE Arrive
  BY <1>3, OrderArrive
<1>4. CASE Start \/ GiveList \/ Boot
  BY <1>1, <1>4, OrderBegin, OrderGiveList, OrderBoot
<1>5. CASE EnterTurbo \/ StartTurbo \/ StopTurbo
  BY <1>1, <1>5, OrderEnterTurbo, OrderStartTurbo, OrderStopTurbo
<1>6. CASE xq_int \/ ReadCsr \/ Acknowledge
  BY <1>1, <1>6, OrderInt, OrderReadCsr, OrderAcknowledge
<1>7. CASE ReadSegment \/ EndScan \/ Relist
  BY <1>1, <1>7, OrderReadSegment, OrderEndScan, OrderRelist
<1>8. CASE Send \/ SoftReset \/ BusReset
  BY <1>1, <1>8, OrderSend, OrderSoftReset, OrderBusReset
<1>9. CASE UNCHANGED vars
  <2>1. UNCHANGED <<xq, mem, net>> /\ UNCHANGED <<drv, count>>
    BY <1>9 DEF vars
  <2>2. Becomes(State) /\ SameLog
    BY <2>1, Unmoved, ServiceLog
  <2>3. State.xq.mode = "normal" => Ready(State, drv.rix)
    BY OrderHolds
  <2> QED BY <2>2, <2>3, CarriesSame, OrderCarried
<1> QED BY <1>2, <1>3, <1>4, <1>5, <1>6, <1>7, <1>8, <1>9 DEF Next, Driver

(* What the driver has read is the first part of what there is to read.    *)
LEMMA OrderMeans == OrderInv => DeliveredInOrder
<1> SUFFICES ASSUME OrderInv PROVE DeliveredInOrder
  OBVIOUS
<1> DEFINE w == History(drv, count)
           rx == State.mem.rx
           base == w.total - Len(State.net)
           log == drv.log
<1>1. w.log = log /\ w.floor = drv.floor /\ w.local = count.local
  BY DEF History
<1>2. Streams(State, drv.rix, w, count.own)
  BY OrderHolds
<1> HIDE DEF w, log
<1>3. log \in Seq(Segments)
  BY <1>1, <1>2 DEF Streams
<1>4. PICK n : /\ n \in 0 .. NRx
               /\ Flow(Got(log, rx, drv.rix, n), State.xq.q, State.xq.loss, drv.floor,
                       Tops(base, count.own), count.local)
  BY <1>1, <1>2 DEF Streams, Buffers
<1> DEFINE D == Got(log, rx, drv.rix, n)
<1>5. D \in Seq(Segments) /\ InOrder(D, drv.floor, count.local)
  BY <1>4, FlowIs
<1>6. n \in Nat /\ Len(log) \in Nat
  BY <1>3, <1>4, LogLen, Lists
<1>7. Made(D, log, rx, drv.rix, n)
  BY <1>6, GotIs
<1> HIDE DEF D
<1>8. \A j \in 1 .. Len(log) : D[j] = log[j]
  BY <1>7 DEF Made
<1>9. InOrder(log, drv.floor, count.local)
  <2>1. Len(D) = Len(log) + n
    BY <1>3, <1>5, <1>6, GotLen DEF D
  <2>2. Len(log) <= Len(D)
    BY <1>6, <2>1
  <2> QED BY <1>3, <1>5, <1>8, <2>2, InOrderPart
<1>10. DOMAIN log = 1 .. Len(log)
  BY <1>3
<1>11. ASSUME NEW j \in DOMAIN log
       PROVE  Joined(log, j) /\ Rises(log, j, drv.floor) /\ Accounted(log, j, drv.floor, count.local)
  BY <1>9, <1>10 DEF InOrder
<1> SUFFICES ASSUME NEW j \in DOMAIN log
             PROVE  LET b == log[j]
                        src == b.pkt.src
                        before == OfNet(log, j - 1)
                        prev == IF before = {} THEN drv.floor.net
                                ELSE log[CHOOSE k \in before : \A h \in before : h <= k].pkt.id
                    IN  /\ IF j = 1 THEN b.from = 0 ELSE Continues(log[j - 1], b) \/ Begins(log[j - 1], b)
                        /\ src \in {"net", "own"} => b.pkt.id > drv.floor[src]
                        /\ \A k \in 1 .. j - 1 :
                               log[k].pkt.src = src /\ b.from = 0 /\ src # "boot" => log[k].pkt.id < b.pkt.id
                        /\ src = "net" /\ b.from = 0 =>
                               \/ prev + 1 .. b.pkt.id - 1 \subseteq count.local
                               \/ \E k \in 1 .. j : log[k].ovf /\ \A h \in before : h < k
  BY DEF DeliveredInOrder, log
<1>12. j = 1 => log[j] = log[1]
  OBVIOUS
<1> QED BY <1>11, <1>12 DEF Joined, Rises, Accounted, Numbered

(* xq_process_rbdl, ethq_insert, xq_sw_reset: whatever the numbers of      *)
(* descriptors, the size of the read queue and the traffic, what the       *)
(* driver has read since the last reset is packets in the order in which   *)
(* they came, each in one piece; what is missing is missing after an       *)
(* overflow the driver was told of.                                        *)
THEOREM AlwaysInOrder == Spec => []DeliveredInOrder
<1>1. Spec => [](XqInv /\ CallInv /\ OrderInv)
  BY XqInit, XqStep, CallInit, CallStep, OrderInit, OrderStep, PTL DEF Spec
<1> QED BY <1>1, OrderMeans, PTL
=============================================================================
