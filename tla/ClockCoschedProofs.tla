-------------------------- MODULE ClockCoschedProofs --------------------------
(***************************************************************************)
(* The invariants of clock co-scheduling, for any devices, delays, tick    *)
(* size and ticks to a calibration.  Tidy is what both lists are in every  *)
(* state between two calls; Rising and Timely relate the tick list to the  *)
(* ideal count of ticks of MCClockCosched.                                 *)
(***************************************************************************)
EXTENDS MCClockCosched, DeltaListProofs

ClockType ==
    [seq : Seq(Unit), time : [Unit -> Int], interval : Int,
     cosched : Seq(Unit), cinterval : Int, hooked : SUBSET Unit,
     usecs : [Unit -> Int], gathered : Seq(Unit)]

(* A unit is linked once, in one list; only devices wait for ticks, and    *)
(* only devices have a long wait to resume.                                *)
Tidy(s) ==
    /\ s \in ClockType
    /\ NoRepeat(s.seq) /\ NoRepeat(s.cosched) /\ NoRepeat(s.gathered)
    /\ \A v : Holds(s.cosched, v) => v \in Device /\ ~Holds(s.seq, v) /\ ~Holds(s.gathered, v)
    /\ \A v : Holds(s.gathered, v) => v \in Device /\ ~Holds(s.seq, v)
    /\ \A v : v \in s.hooked <=> Holds(s.cosched, v) \/ Holds(s.gathered, v)
    /\ s.usecs[Line] = 0 /\ s.usecs[Internal] = 0

(* The ticks the units of the tick list still have to wait: the delta of   *)
(* its head counts down in cosched_interval.                               *)
Committed(s) ==
    IF s.cosched = <<>> THEN s.time
    ELSE [s.time EXCEPT ![Head(s.cosched)] = s.cinterval]

Left(s) == Accum(s.cosched, Committed(s))

Rising(s) == \A i, j \in 1 .. Len(s.cosched) : i <= j => Left(s)[i] <= Left(s)[j]

(* From s to r nobody's remaining ticks grew; the units of anew, and those *)
(* that joined the list, have in its deltas at least what they wait.       *)
NoLater(s, r, anew) ==
    \A i \in 1 .. Len(r.cosched) :
        \/ /\ r.cosched[i] \notin anew
           /\ \E j \in 1 .. Len(s.cosched) :
                  s.cosched[j] = r.cosched[i] /\ Left(r)[i] <= Left(s)[j]
        \/ /\ r.cosched[i] \in anew \/ ~Holds(s.cosched, r.cosched[i])
           /\ Left(r)[i] <= Accum(r.cosched, r.time)[i]

(* What a call for u that queues it does, and one that takes it off.       *)
Moves(s, r, u) ==
    /\ Tidy(r) /\ r.gathered = s.gathered
    /\ \A v : Holds(s.seq, v) => Holds(r.seq, v)
    /\ \A v : Holds(r.cosched, v) => v = u \/ Holds(s.cosched, v)
    /\ Rising(s) => Rising(r) /\ NoLater(s, r, {})

Drops(s, r, u) ==
    /\ Tidy(r) /\ r.gathered = s.gathered
    /\ \A v : v # u /\ Holds(s.seq, v) => Holds(r.seq, v)
    /\ ~Holds(r.seq, u) /\ ~Holds(r.cosched, u)
    /\ \A v : Holds(r.cosched, v) => Holds(s.cosched, v)
    /\ Rising(s) => Rising(r) /\ NoLater(s, r, {})

-----------------------------------------------------------------------------
(* The tick list's sums. *)

LEMMA UnitsAre ==
    /\ Line \in Unit /\ Internal \in Unit /\ Line # Internal
    /\ Line \notin Device /\ Internal \notin Device /\ Device \subseteq Unit
BY ClockCoschedAssumption

LEMMA CommittedType ==
    ASSUME NEW s, Tidy(s)
    PROVE  Committed(s) \in [Unit -> Int]
<1>1. /\ s.cosched \in Seq(Unit) /\ s.time \in [Unit -> Int] /\ s.cinterval \in Int
    BY DEF Tidy, ClockType
<1>2. CASE s.cosched = <<>>
    BY <1>1, <1>2 DEF Committed
<1>3. CASE s.cosched # <<>>
    BY <1>1, <1>3 DEF Committed
<1> QED BY <1>2, <1>3

LEMMA LeftType ==
    ASSUME NEW s, Tidy(s)
    PROVE  /\ Len(s.cosched) \in Nat
           /\ \A i \in 1 .. Len(s.cosched) : Left(s)[i] \in Int
<1>1. s.cosched \in Seq(Unit)
    BY DEF Tidy, ClockType
<1>2. Len(s.cosched) \in Nat
    BY <1>1, LenProperties
<1>3. Accum(s.cosched, Committed(s)) \in [0 .. Len(s.cosched) -> Int]
    BY <1>1, CommittedType, AccumDef
<1> QED BY <1>2, <1>3 DEF Left

(* A step that leaves the tick list alone. *)
Steady(s, r) ==
    /\ r.cosched = s.cosched /\ r.cinterval = s.cinterval
    /\ \A v \in Unit : Holds(s.cosched, v) => r.time[v] = s.time[v]

LEMMA SteadyLeft ==
    ASSUME NEW s, Tidy(s), NEW r, Tidy(r), Steady(s, r)
    PROVE  Left(r) = Left(s)
<1> DEFINE q == s.cosched
           a == Committed(s)
           b == Committed(r)
<1>1. /\ q \in Seq(Unit) /\ r.cosched = q
      /\ a \in [Unit -> Int] /\ b \in [Unit -> Int]
    BY CommittedType DEF Tidy, ClockType, Steady
<1>2. \A i \in 1 .. Len(q) : q[i] \in Unit /\ Holds(q, q[i])
    BY <1>1, ElementOfSeq DEF Holds
<1>3. \A i \in 1 .. Len(q) : a[q[i]] = b[q[i]]
    <2>1. CASE q = <<>>
        BY <1>1, <1>2, <2>1 DEF Committed, Steady
    <2>2. CASE q # <<>>
        <3>1. Head(q) \in Unit
            BY <1>1, <2>2, HeadTailProperties
        <3>2. /\ a = [s.time EXCEPT ![Head(q)] = s.cinterval]
              /\ b = [r.time EXCEPT ![Head(q)] = s.cinterval]
            BY <1>1, <2>2 DEF Committed, Steady
        <3>3. /\ s.time \in [Unit -> Int] /\ r.time \in [Unit -> Int]
              /\ \A i \in 1 .. Len(q) : r.time[q[i]] = s.time[q[i]]
            BY <1>2 DEF Tidy, ClockType, Steady
        <3> HIDE DEF a, b, q
        <3> QED BY <1>2, <3>1, <3>2, <3>3
    <2> QED BY <2>1, <2>2
<1>4. Accum(q, a) = Accum(q, b)
    <2> HIDE DEF q, a, b
    <2> QED BY <1>1, <1>3, AccumFrame
<1> QED BY <1>1, <1>4 DEF Left

LEMMA SteadyNoLater ==
    ASSUME NEW s, Tidy(s), NEW r, Tidy(r), Steady(s, r)
    PROVE  Rising(s) => Rising(r) /\ NoLater(s, r, {})
<1>1. Left(r) = Left(s) /\ r.cosched = s.cosched
    BY SteadyLeft DEF Steady
<1>2. \A i \in 1 .. Len(s.cosched) : Left(s)[i] <= Left(s)[i]
    BY LeftType
<1>3. NoLater(s, r, {})
    BY <1>1, <1>2 DEF NoLater
<1> QED BY <1>1, <1>3 DEF Rising

-----------------------------------------------------------------------------
(* Edits of the event queue leave the tick list alone. *)

LEMMA QueuedTidy ==
    ASSUME NEW s, Tidy(s), NEW u \in Unit, NEW d \in Int,
           ~Holds(s.cosched, u), ~Holds(s.gathered, u)
    PROVE  /\ Moves(s, _sim_activate(s, u, d), u)
           /\ Holds(_sim_activate(s, u, d).seq, u)
           /\ Steady(s, _sim_activate(s, u, d))
<1> DEFINE r == _sim_activate(s, u, d)
<1>1. CASE Listed(s, u)
    <2>1. r = s /\ Holds(s.seq, u)
        BY <1>1 DEF _sim_activate, Listed, Holds
    <2>2. Steady(s, r)
        BY <2>1 DEF Steady
    <2> QED BY <2>1, <2>2, SteadyNoLater DEF Moves
<1>2. CASE ~Listed(s, u)
    <2> DEFINE q == Linked(s.seq, s.time, u, d)
               t == LinkedTime(s.seq, s.time, u, d)
    <2>1. Joined(Unit, s.seq, s.time, u, q, t)
        <3> /\ s.seq \in Seq(Unit) /\ s.time \in [Unit -> Int] /\ NoRepeat(s.seq)
            /\ ~Holds(s.seq, u)
            BY <1>2 DEF Tidy, ClockType, Listed, Holds
        <3> QED BY LinkShape
    <2>2. r = [s EXCEPT !.seq = q, !.time = t, !.interval = t[Head(q)]]
        BY <1>2 DEF _sim_activate
    <2> HIDE DEF q, t
    <2>3. t[Head(q)] \in Int /\ q \in Seq(Unit) /\ t \in [Unit -> Int]
        BY <2>1, HeadTailProperties DEF Joined
    <2>4. /\ r \in ClockType /\ r.seq = q /\ r.time = t
          /\ r.cosched = s.cosched /\ r.cinterval = s.cinterval /\ r.hooked = s.hooked
          /\ r.usecs = s.usecs /\ r.gathered = s.gathered
        BY <2>2, <2>3 DEF Tidy, ClockType
    <2> HIDE DEF r
    <2>5. Tidy(r)
        BY <2>1, <2>4 DEF Tidy, Joined
    <2>6. Steady(s, r)
        BY <2>1, <2>4 DEF Steady, Tidy, Joined
    <2>7. \A v : Holds(r.seq, v) <=> v = u \/ Holds(s.seq, v)
        BY <2>1, <2>4 DEF Joined
    <2>8. Moves(s, r, u)
        BY <2>4, <2>5, <2>6, <2>7, SteadyNoLater DEF Moves
    <2> QED BY <2>6, <2>7, <2>8 DEF r
<1> QED BY <1>1, <1>2

LEMMA UnqueuedTidy ==
    ASSUME NEW s, Tidy(s), NEW u \in Unit, Listed(s, u)
    PROVE  /\ Drops(s, [sim_cancel(s, u) EXCEPT !.usecs[u] = 0], u)
           /\ Steady(s, [sim_cancel(s, u) EXCEPT !.usecs[u] = 0])
<1> DEFINE q == Unlinked(s.seq, u)
           t == [UnlinkedTime(s.seq, s.time, u) EXCEPT ![u] = 0]
           w == IF q = <<>> THEN NoQueueWait ELSE t[Head(q)]
           x == [s.usecs EXCEPT ![u] = 0]
           r == [sim_cancel(s, u) EXCEPT !.usecs[u] = 0]
<1>1. Parted(Unit, s.seq, s.time, u, q, UnlinkedTime(s.seq, s.time, u)) /\ Holds(s.seq, u)
    <2> /\ s.seq \in Seq(Unit) /\ s.time \in [Unit -> Int] /\ NoRepeat(s.seq)
        /\ Holds(s.seq, u)
        BY DEF Tidy, ClockType, Listed, Holds
    <2> QED BY UnlinkShape
<1>2. /\ t \in [Unit -> Int] /\ q \in Seq(Unit)
      /\ \A v \in Unit : ~Holds(s.seq, v) => t[v] = s.time[v]
    BY <1>1 DEF Parted
<1>3. w \in Int
    <2> HIDE DEF q, t
    <2> QED BY <1>2, HeadTailProperties, EventQueueAssumption
<1>4. x \in [Unit -> Int] /\ x[Line] = 0 /\ x[Internal] = 0
    BY UnitsAre DEF Tidy, ClockType
<1>5. sim_cancel(s, u) = [s EXCEPT !.seq = q, !.time = t, !.interval = w]
    BY DEF sim_cancel
<1> HIDE DEF q, t, w, x
<1>6. /\ r \in ClockType /\ r.seq = q /\ r.time = t
      /\ r.cosched = s.cosched /\ r.cinterval = s.cinterval /\ r.hooked = s.hooked
      /\ r.usecs = x /\ r.gathered = s.gathered
    BY <1>2, <1>3, <1>4, <1>5 DEF Tidy, ClockType, x
<1> HIDE DEF r
<1>7. \A v : Holds(r.seq, v) <=> v # u /\ Holds(s.seq, v)
    BY <1>1, <1>6 DEF Parted
<1>8. Tidy(r)
    BY <1>1, <1>4, <1>6, <1>7 DEF Tidy, Parted
<1>9. Steady(s, r)
    BY <1>2, <1>6 DEF Steady, Tidy
<1>10. Drops(s, r, u)
    BY <1>1, <1>6, <1>7, <1>8, <1>9, SteadyNoLater DEF Drops, Tidy
<1> QED BY <1>9, <1>10 DEF r

-----------------------------------------------------------------------------
(* Edits of the tick list. *)

(* A newcomer's sums: its own is what it was asked to wait, the others'    *)
(* stay.                                                                   *)
LEMMA JoinedLeft ==
    ASSUME NEW s, Tidy(s), NEW u \in Device, ~Active(s, u), NEW n \in Int,
           NEW r, r = sim_clock_coschedule_tmr(s, u, n), Tidy(r), Rising(s)
    PROVE  Rising(r) /\ NoLater(s, r, {})
<1> DEFINE q == s.cosched
           L == Len(q)
           a == Committed(s)
           A == Left(s)
           p == Place(q, a, n)
           c == Linked(q, a, u, n)
           t == LinkedTime(q, a, u, n)
           B == Accum(c, t)
<1>0. L \in Nat /\ (\A i \in 1 .. L : A[i] \in Int)
    BY LeftType
<1>1. /\ q \in Seq(Unit) /\ a \in [Unit -> Int] /\ NoRepeat(q) /\ ~Holds(q, u) /\ u \in Unit
    BY CommittedType, UnitsAre DEF Tidy, ClockType, Active, InSeq, Holds
<1>2. /\ p \in 1 .. L + 1
      /\ \A i \in 1 .. p - 1 : A[i] <= n
      /\ p <= L => n < A[p]
    BY <1>1, PlaceFound DEF Left
<1>3. /\ \A i \in 0 .. p - 1 : B[i] = A[i]
      /\ B[p] = n
      /\ \A i \in p .. L : B[i + 1] = A[i]
    <2> LinkedInPlace(q, a, u, n)
        BY <1>1, LinkedSums
    <2> QED BY DEF LinkedInPlace, Left
<1>4. /\ Len(c) = L + 1
      /\ \A i \in 1 .. p - 1 : c[i] = q[i]
      /\ c[p] = u
      /\ \A i \in p + 1 .. L + 1 : c[i] = q[i - 1]
    <2> LinkedAt(q, p, u, c)
        BY <1>1, LinkedPlaces
    <2> QED BY DEF LinkedAt
<1>5. /\ c \in Seq(Unit) /\ c # <<>> /\ t \in [Unit -> Int] /\ NoRepeat(c)
    <2> Joined(Unit, q, a, u, c, t)
        BY <1>1, LinkShape
    <2> QED BY DEF Joined
<1>6. /\ r.cosched = c /\ r.time = t
      /\ r.cinterval = IF Head(c) = u THEN t[u] ELSE s.cinterval
    BY DEF sim_clock_coschedule_tmr, Committed, Tidy, ClockType
<1>7. t[Head(c)] = r.cinterval
    <2>1. Head(c) = c[1] /\ 1 \in 1 .. Len(c)
        BY <1>0, <1>4, <1>5, HeadTailProperties
    <2>2. CASE p = 1
        BY <1>4, <1>6, <2>1, <2>2
    <2>3. CASE p # 1
        <3>1. 1 \in 1 .. p - 1 /\ 1 \in 1 .. L /\ q # <<>>
            BY <1>0, <1>2, <2>3, EmptySeq
        <3>2. Head(c) = q[1] /\ Head(q) = q[1] /\ q[1] \in Unit /\ q[1] # u
            BY <1>1, <1>4, <2>1, <3>1, HeadTailProperties DEF Holds
        <3>3. a[q[1]] = s.cinterval
            BY <3>1, <3>2 DEF Committed, Tidy, ClockType
        <3>4. p <= L => q[p] # q[1] /\ q[p] \in Unit
            <4> SUFFICES ASSUME p <= L PROVE q[p] # q[1] /\ q[p] \in Unit
                OBVIOUS
            <4> p \in 1 .. L
                BY <1>0, <1>2
            <4> QED BY <1>1, <2>3, <3>1, ElementOfSeq DEF NoRepeat
        <3>5. t[q[1]] = a[q[1]]
            <4> DEFINE own == n - Accum(q, a)[p - 1]
            <4>1. t = IF p <= L THEN [[a EXCEPT ![u] = own] EXCEPT ![q[p]] = @ - own]
                      ELSE [a EXCEPT ![u] = own]
                BY DEF LinkedTime
            <4> HIDE DEF t, p, L, a, q, own
            <4> QED BY <1>1, <3>2, <3>4, <4>1
        <3> QED BY <1>6, <3>2, <3>3, <3>5
    <2> QED BY <2>2, <2>3
<1>8. Left(r) = B
    <2>1. Committed(r) = [t EXCEPT ![Head(c)] = r.cinterval]
        BY <1>5, <1>6 DEF Committed
    <2>2. Head(c) \in Unit
        BY <1>5, HeadTailProperties
    <2>3. Committed(r) = t
        <3> HIDE DEF c, t
        <3> QED BY <1>5, <1>7, <2>1, <2>2
    <2> QED BY <1>6, <2>3 DEF Left
<1>9. Accum(r.cosched, r.time) = B
    BY <1>6
<1>10. \A i, j \in 1 .. L : i <= j => A[i] <= A[j]
    BY DEF Rising
<1> HIDE DEF q, a, A, p, c, t, B, L
<1>11. ASSUME NEW i \in 1 .. L + 1
       PROVE  \/ i \in 1 .. p - 1 /\ i \in 1 .. L /\ B[i] = A[i] /\ c[i] = q[i]
              \/ i = p /\ B[i] = n /\ c[i] = u
              \/ /\ i \in p + 1 .. L + 1 /\ i - 1 \in 1 .. L /\ i - 1 \in p .. L
                 /\ B[i] = A[i - 1] /\ c[i] = q[i - 1]
    <2>1. CASE i < p
        <3> i \in 1 .. p - 1 /\ i \in 0 .. p - 1 /\ i \in 1 .. L
            BY <1>0, <1>2, <2>1
        <3> QED BY <1>3, <1>4
    <2>2. CASE i = p
        BY <1>3, <1>4, <2>2
    <2>3. CASE i > p
        <3> /\ i \in p + 1 .. L + 1 /\ i - 1 \in 1 .. L /\ i - 1 \in p .. L /\ (i - 1) + 1 = i
            BY <1>0, <1>2, <2>3
        <3> QED BY <1>3, <1>4
    <2> QED BY <1>0, <1>2, <2>1, <2>2, <2>3
<1>12. ASSUME NEW k \in p .. L PROVE k \in 1 .. L /\ n < A[k]
    <2>1. k \in 1 .. L /\ p \in 1 .. L /\ p <= k /\ p <= L
        BY <1>0, <1>2
    <2>2. n < A[p] /\ A[p] <= A[k] /\ A[p] \in Int /\ A[k] \in Int
        BY <1>0, <1>2, <1>10, <2>1
    <2> QED BY <2>1, <2>2
<1>13. Rising(r)
    <2>1. ASSUME NEW i \in 1 .. L + 1, NEW j \in 1 .. L + 1, i <= j PROVE B[i] <= B[j]
        <3>1. CASE i \in 1 .. p - 1 /\ B[i] = A[i] /\ i \in 1 .. L
            <4>1. CASE j \in 1 .. L /\ B[j] = A[j]
                BY <1>10, <2>1, <3>1, <4>1
            <4>2. CASE B[j] = n
                BY <1>2, <3>1, <4>2
            <4>3. CASE j - 1 \in p .. L /\ B[j] = A[j - 1]
                <5>1. i <= j - 1 /\ j - 1 \in 1 .. L
                    BY <1>2, <3>1, <4>3, <1>12
                <5> QED BY <1>10, <3>1, <4>3, <5>1
            <4> QED BY <1>11, <4>1, <4>2, <4>3
        <3>2. CASE i = p /\ B[i] = n
            <4>1. CASE j = p
                BY <3>2, <4>1
            <4>2. CASE j - 1 \in p .. L /\ B[j] = A[j - 1]
                <5> n < A[j - 1] /\ A[j - 1] \in Int
                    BY <1>0, <1>12, <4>2
                <5> QED BY <3>2, <4>2
            <4>3. ~(j \in 1 .. p - 1)
                BY <1>2, <2>1, <3>2
            <4> QED BY <1>11, <4>1, <4>2, <4>3
        <3>3. CASE i \in p + 1 .. L + 1 /\ B[i] = A[i - 1] /\ i - 1 \in 1 .. L
            <4>1. ~(j \in 1 .. p - 1) /\ j # p
                BY <1>0, <1>2, <2>1, <3>3
            <4>2. B[j] = A[j - 1] /\ j - 1 \in 1 .. L /\ i - 1 <= j - 1
                BY <1>11, <2>1, <4>1
            <4> QED BY <1>10, <3>3, <4>2
        <3> QED BY <1>11, <3>1, <3>2, <3>3
    <2> QED BY <1>4, <1>6, <1>8, <2>1 DEF Rising
<1>14. NoLater(s, r, {})
    <2> SUFFICES ASSUME NEW i \in 1 .. L + 1
                 PROVE  \/ \E j \in 1 .. Len(s.cosched) :
                               s.cosched[j] = r.cosched[i] /\ Left(r)[i] <= Left(s)[j]
                        \/ /\ ~Holds(s.cosched, r.cosched[i])
                           /\ Left(r)[i] <= Accum(r.cosched, r.time)[i]
        BY <1>4, <1>6 DEF NoLater
    <2>0. s.cosched = q /\ Len(s.cosched) = L /\ Left(s) = A
        BY DEF q, L, A
    <2>1. CASE i \in 1 .. L /\ B[i] = A[i] /\ c[i] = q[i]
        <3> A[i] <= A[i]
            BY <1>0, <2>1
        <3> QED BY <1>6, <1>8, <2>0, <2>1
    <2>2. CASE B[i] = n /\ c[i] = u
        <3> ~Holds(s.cosched, u) /\ B[i] <= B[i]
            BY <1>1, <2>0, <2>2
        <3> QED BY <1>6, <1>8, <1>9, <2>2
    <2>3. CASE i - 1 \in 1 .. L /\ B[i] = A[i - 1] /\ c[i] = q[i - 1]
        <3> A[i - 1] <= A[i - 1]
            BY <1>0, <2>3
        <3> QED BY <1>6, <1>8, <2>0, <2>3
    <2> QED BY <1>11, <2>1, <2>2, <2>3
<1> QED BY <1>13, <1>14

LEMMA CoscheduledTidy ==
    ASSUME NEW s, Tidy(s), NEW u \in Device, NEW n \in Int
    PROVE  Moves(s, sim_clock_coschedule_tmr(s, u, n), u)
<1> DEFINE r == sim_clock_coschedule_tmr(s, u, n)
<1>1. CASE Active(s, u)
    <2>1. r = s
        BY <1>1 DEF sim_clock_coschedule_tmr
    <2>2. Steady(s, r)
        BY <2>1 DEF Steady
    <2> QED BY <2>1, <2>2, SteadyNoLater DEF Moves
<1>2. CASE ~Active(s, u)
    <2> DEFINE a == Committed(s)
               c == Linked(s.cosched, a, u, n)
               t == LinkedTime(s.cosched, a, u, n)
               k == IF Head(c) = u THEN t[u] ELSE s.cinterval
               h == s.hooked \cup {u}
    <2>1. Joined(Unit, s.cosched, a, u, c, t)
        <3> /\ s.cosched \in Seq(Unit) /\ a \in [Unit -> Int] /\ NoRepeat(s.cosched)
            /\ ~Holds(s.cosched, u) /\ u \in Unit
            BY <1>2, CommittedType, UnitsAre DEF Tidy, ClockType, Active, InSeq, Holds
        <3> QED BY LinkShape
    <2>2. r = [s EXCEPT !.cosched = c, !.time = t, !.hooked = h, !.cinterval = k]
        BY <1>2 DEF sim_clock_coschedule_tmr, Committed
    <2>3. /\ ~Holds(s.seq, u) /\ ~Holds(s.gathered, u) /\ u \in Unit
        BY <1>2, UnitsAre DEF Active, Listed, InSeq, Holds
    <2> HIDE DEF c, t, a
    <2>4. c \in Seq(Unit) /\ t \in [Unit -> Int] /\ k \in Int
        BY <2>1, <2>3 DEF Joined, Tidy, ClockType
    <2>4a. h \in SUBSET Unit
        BY <2>3 DEF Tidy, ClockType
    <2> HIDE DEF k, h
    <2>5. /\ r \in ClockType /\ r.seq = s.seq /\ r.time = t
          /\ r.cosched = c /\ r.hooked = h
          /\ r.usecs = s.usecs /\ r.gathered = s.gathered
        BY <2>2, <2>4, <2>4a DEF Tidy, ClockType
    <2> HIDE DEF r
    <2>6. \A v : Holds(r.cosched, v) <=> v = u \/ Holds(s.cosched, v)
        BY <2>1, <2>5 DEF Joined
    <2>7. Tidy(r)
        BY <2>1, <2>3, <2>5, <2>6 DEF Tidy, Joined, h
    <2>8. Rising(s) => Rising(r) /\ NoLater(s, r, {})
        BY <1>2, <2>7, JoinedLeft DEF r
    <2>9. Moves(s, r, u)
        BY <2>5, <2>6, <2>7, <2>8 DEF Moves
    <2> QED BY <2>9 DEF r
<1> QED BY <1>1, <1>2

(* Without a unit the remaining ticks of the others are what they were, or *)
(* fewer: the interval of a head that is gone counts for its follower.     *)
LEMMA PartedLeft ==
    ASSUME NEW s, Tidy(s), NEW u \in Device, Holds(s.cosched, u),
           NEW r, r = _sim_coschedule_cancel(s, u), Tidy(r), Rising(s)
    PROVE  Rising(r) /\ NoLater(s, r, {})
<1> DEFINE q == s.cosched
           L == Len(q)
           a == Committed(s)
           A == Left(s)
           p == PlaceOf(q, u)
           c == Unlinked(q, u)
           t == [UnlinkedTime(q, a, u) EXCEPT ![u] = 0]
           C == Accum(c, t)
           b == Committed(r)
           B == Left(r)
           tr == UnlinkedTime(q, s.time, u)
<1>0. L \in Nat /\ (\A i \in 1 .. L : A[i] \in Int)
    BY LeftType
<1>1. /\ q \in Seq(Unit) /\ a \in [Unit -> Int] /\ NoRepeat(q) /\ u \in Unit
      /\ s.time \in [Unit -> Int] /\ s.cinterval \in Int
      /\ \A i \in 1 .. L : q[i] \in Unit
    BY CommittedType, UnitsAre, ElementOfSeq DEF Tidy, ClockType
<1>2. p \in 1 .. L /\ q[p] = u
    BY PlaceOfFound
<1>3. /\ \A i \in 0 .. p - 1 : C[i] = A[i]
      /\ \A i \in p .. L - 1 : C[i] = A[i + 1]
    <2> UnlinkedInPlace(q, a, u)
        BY <1>1, UnlinkedSums
    <2> QED BY DEF UnlinkedInPlace, Left
<1>4. /\ Len(c) = L - 1
      /\ \A i \in 1 .. p - 1 : c[i] = q[i]
      /\ \A i \in p .. L - 1 : c[i] = q[i + 1]
    <2> UnlinkedAt(q, p, c)
        BY <1>1, UnlinkedPlaces
    <2> QED BY DEF UnlinkedAt
<1>5. c \in Seq(Unit) /\ NoRepeat(c) /\ t \in [Unit -> Int] /\ tr \in [Unit -> Int]
    <2>1. Parted(Unit, q, a, u, c, UnlinkedTime(q, a, u))
        BY <1>1, UnlinkShape
    <2>2. Parted(Unit, q, s.time, u, c, tr)
        BY <1>1, UnlinkShape
    <2>3. t \in [Unit -> Int]
        <3> DEFINE t0 == UnlinkedTime(q, a, u)
        <3>1. t0 \in [Unit -> Int]
            BY <2>1 DEF Parted
        <3> HIDE DEF t0
        <3>2. [t0 EXCEPT ![u] = 0] \in [Unit -> Int]
            BY <1>1, <3>1
        <3> QED BY <3>2 DEF t0
    <2> QED BY <2>1, <2>2, <2>3 DEF Parted
<1>6. r.cosched = c /\ r.time = tr /\ r.cinterval = s.cinterval
    BY DEF _sim_coschedule_cancel, Tidy, ClockType
<1>7. q # <<>> /\ Head(q) = q[1] /\ 1 \in 1 .. L
    BY <1>0, <1>1, <1>2, EmptySeq, HeadTailProperties
<1>8. a = [s.time EXCEPT ![q[1]] = s.cinterval]
    BY <1>7 DEF Committed
<1>9. /\ c # <<>> => b = [tr EXCEPT ![c[1]] = s.cinterval]
      /\ b \in [Unit -> Int]
      /\ B = Accum(c, b)
    BY <1>5, <1>6, HeadTailProperties, CommittedType DEF Committed, Left
<1>10. /\ t = [IF p < L THEN [a EXCEPT ![q[p + 1]] = @ + a[u]] ELSE a EXCEPT ![u] = 0]
       /\ tr = IF p < L THEN [s.time EXCEPT ![q[p + 1]] = @ + s.time[u]] ELSE s.time
    BY DEF UnlinkedTime
<1>11. \A i, j \in 1 .. L : i <= j => A[i] <= A[j]
    BY DEF Rising
<1>12. \A i \in 1 .. L : \A j \in 1 .. L : q[i] = q[j] => i = j
    BY <1>1 DEF NoRepeat
<1>13. p < L => p + 1 \in 1 .. L /\ q[p + 1] \in Unit /\ q[p + 1] # u
    <2> SUFFICES ASSUME p < L PROVE p + 1 \in 1 .. L /\ q[p + 1] \in Unit /\ q[p + 1] # u
        OBVIOUS
    <2> p + 1 \in 1 .. L /\ p + 1 # p
        BY <1>0, <1>2
    <2> QED BY <1>1, <1>2, <1>12
<1>a. A = Accum(q, a)
    BY DEF Left
<1> HIDE DEF q, a, A, p, c, t, C, b, B, tr, L
<1>14. ASSUME NEW i \in 1 .. L - 1
       PROVE  \/ i \in 1 .. p - 1 /\ i \in 1 .. L /\ C[i] = A[i] /\ c[i] = q[i]
              \/ i \in p .. L - 1 /\ i + 1 \in 1 .. L /\ C[i] = A[i + 1] /\ c[i] = q[i + 1]
    <2>1. CASE i < p
        <3> i \in 1 .. p - 1 /\ i \in 0 .. p - 1 /\ i \in 1 .. L
            BY <1>0, <1>2, <2>1
        <3> QED BY <1>3, <1>4
    <2>2. CASE i >= p
        <3> i \in p .. L - 1 /\ i + 1 \in 1 .. L
            BY <1>0, <1>2, <2>2
        <3> QED BY <1>3, <1>4
    <2> QED BY <1>2, <2>1, <2>2
<1>15. ASSUME NEW i \in 1 .. L - 1 PROVE c[i] \in Unit /\ c[i] # u
    <2>1. CASE i \in 1 .. p - 1 /\ i \in 1 .. L /\ c[i] = q[i]
        <3> i # p
            BY <1>2, <2>1
        <3> QED BY <1>1, <1>2, <1>12, <2>1
    <2>2. CASE i \in p .. L - 1 /\ i + 1 \in 1 .. L /\ c[i] = q[i + 1]
        <3> i + 1 # p
            BY <1>2, <2>2
        <3> QED BY <1>1, <1>2, <1>12, <2>2
    <2> QED BY <1>14, <2>1, <2>2
<1>16. ASSUME NEW i \in 2 .. L - 1 PROVE b[c[i]] = t[c[i]]
    <2>1. /\ i \in 1 .. L - 1 /\ i # 1 /\ 1 \in 1 .. L - 1
        BY <1>0
    <2>2. c[i] # c[1] /\ c # <<>> /\ c[i] \in Unit /\ c[1] \in Unit /\ c[i] # u
        BY <1>0, <1>4, <1>5, <1>15, <2>1, EmptySeq DEF NoRepeat
    <2>3. b[c[i]] = tr[c[i]]
        BY <1>5, <1>9, <2>2
    <2>4. c[i] # q[1]
        <3>1. CASE i \in 1 .. p - 1 /\ c[i] = q[i] /\ i \in 1 .. L
            BY <1>7, <1>12, <2>1, <3>1
        <3>2. CASE i \in p .. L - 1 /\ c[i] = q[i + 1] /\ i + 1 \in 1 .. L
            <4> i + 1 # 1
                BY <2>1
            <4> QED BY <1>7, <1>12, <3>2
        <3> QED BY <1>14, <2>1, <3>1, <3>2
    <2>5. a[c[i]] = s.time[c[i]]
        BY <1>1, <1>7, <1>8, <2>2, <2>4
    <2>6. CASE p < L /\ c[i] = q[p + 1]
        <3>1. p # 1
            <4> SUFFICES ASSUME p = 1 PROVE FALSE
                OBVIOUS
            <4>1. i \in p .. L - 1 /\ c[i] = q[i + 1] /\ i + 1 \in 1 .. L
                BY <1>14, <2>1
            <4>2. i + 1 = p + 1
                BY <1>12, <1>13, <2>6, <4>1
            <4> QED BY <2>1, <4>2
        <3>2. u # q[1]
            BY <1>2, <1>7, <1>12, <3>1
        <3>3. a[u] = s.time[u]
            BY <1>1, <1>7, <1>8, <3>2
        <3>4. tr[c[i]] = s.time[c[i]] + s.time[u] /\ t[c[i]] = a[c[i]] + a[u]
            BY <1>1, <1>10, <2>2, <2>6
        <3> QED BY <2>3, <2>5, <3>3, <3>4
    <2>7. CASE ~(p < L /\ c[i] = q[p + 1])
        <3> tr[c[i]] = s.time[c[i]] /\ t[c[i]] = a[c[i]]
            BY <1>1, <1>10, <1>13, <2>2, <2>7
        <3> QED BY <2>3, <2>5
    <2> QED BY <2>6, <2>7
<1> DEFINE x == b[c[1]] - t[c[1]]
<1>17. ASSUME NEW i \in 1 .. L - 1 PROVE B[i] = C[i] + x
    <2>1. HeadShifted(c, t, b)
        <3> \A k \in 2 .. Len(c) : t[c[k]] = b[c[k]]
            BY <1>4, <1>16
        <3> QED BY <1>5, <1>9, HeadShift
    <2> QED BY <1>4, <1>9, <2>1 DEF HeadShifted, C
<1>18. L - 1 >= 1 => x \in Int /\ x <= 0
    <2> SUFFICES ASSUME L - 1 >= 1 PROVE x \in Int /\ x <= 0
        OBVIOUS
    <2>1. 1 \in 1 .. L - 1 /\ c # <<>> /\ c[1] \in Unit
        BY <1>0, <1>4, <1>5, <1>15, EmptySeq
    <2>2. b[c[1]] = s.cinterval
        BY <1>5, <1>9, <2>1
    <2>3. CASE p = 1
        <3>1. p < L /\ c[1] = q[2] /\ p + 1 = 2 /\ q[2] \in Unit /\ q[2] # u
            BY <1>0, <1>4, <1>13, <2>1, <2>3
        <3>2. t[c[1]] = a[q[2]] + a[u] /\ a[u] = s.cinterval /\ a[q[2]] \in Int
            BY <1>1, <1>2, <1>8, <1>10, <2>3, <3>1
        <3>3. a[q[2]] >= 0
            <4>1. A[2] = A[1] + a[q[2]] /\ 1 \in 1 .. L /\ 2 \in 1 .. L
                <5>1. \A i \in 1 .. L : A[i] = A[i - 1] + a[q[i]]
                    BY <1>1, <1>a, AccumDef DEF L
                <5>2. 2 \in 1 .. L /\ 2 - 1 = 1
                    BY <1>0, <2>3, <3>1
                <5> QED BY <1>7, <5>1, <5>2
            <4>2. A[1] <= A[2] /\ A[1] \in Int
                BY <1>0, <1>11, <4>1
            <4> QED BY <3>2, <4>1, <4>2
        <3> QED BY <1>1, <2>2, <3>2, <3>3
    <2>4. CASE p # 1
        <3>1. c[1] = q[1] /\ q[1] # u /\ (p < L => q[p + 1] # q[1])
            <4>1. 1 \in 1 .. p - 1
                BY <1>2, <2>4
            <4>2. p < L => p + 1 # 1 /\ p + 1 \in 1 .. L
                BY <1>2, <1>13
            <4> QED BY <1>2, <1>4, <1>7, <1>12, <2>4, <4>1, <4>2
        <3>2. t[c[1]] = a[q[1]] /\ a[q[1]] = s.cinterval
            BY <1>1, <1>7, <1>8, <1>10, <1>13, <3>1
        <3> QED BY <1>1, <2>2, <3>2
    <2> QED BY <2>3, <2>4
<1> HIDE DEF x
<1>19. Rising(r)
    <2>1. ASSUME NEW i \in 1 .. L - 1, NEW j \in 1 .. L - 1, i <= j PROVE B[i] <= B[j]
        <3>1. C[i] \in Int /\ C[j] \in Int /\ C[i] <= C[j]
            <4>1. CASE i \in 1 .. p - 1 /\ i \in 1 .. L /\ C[i] = A[i]
                <5>1. CASE j \in 1 .. L /\ C[j] = A[j]
                    BY <1>0, <1>11, <2>1, <4>1, <5>1
                <5>2. CASE j + 1 \in 1 .. L /\ C[j] = A[j + 1]
                    BY <1>0, <1>11, <2>1, <4>1, <5>2
                <5> QED BY <1>14, <5>1, <5>2
            <4>2. CASE i \in p .. L - 1 /\ i + 1 \in 1 .. L /\ C[i] = A[i + 1]
                <5>1. ~(j \in 1 .. p - 1)
                    BY <1>2, <2>1, <4>2
                <5>2. j + 1 \in 1 .. L /\ C[j] = A[j + 1] /\ i + 1 <= j + 1
                    BY <1>14, <2>1, <5>1
                <5> QED BY <1>0, <1>11, <4>2, <5>2
            <4> QED BY <1>14, <4>1, <4>2
        <3>2. x \in Int
            BY <1>0, <1>18
        <3> QED BY <1>17, <3>1, <3>2
    <2> QED BY <1>4, <1>6, <2>1 DEF Rising, B
<1>20. NoLater(s, r, {})
    <2>0. s.cosched = q /\ Len(s.cosched) = L /\ Left(s) = A /\ Left(r) = B
        BY DEF q, L, A, B
    <2> SUFFICES ASSUME NEW i \in 1 .. L - 1
                 PROVE  \E j \in 1 .. L : q[j] = c[i] /\ B[i] <= A[j]
        BY <1>4, <1>6, <2>0 DEF NoLater
    <2>1. x \in Int /\ x <= 0
        BY <1>0, <1>18
    <2>2. CASE i \in 1 .. L /\ C[i] = A[i] /\ c[i] = q[i]
        <3> A[i] \in Int /\ B[i] = A[i] + x
            BY <1>0, <1>17, <2>2
        <3> QED BY <2>1, <2>2
    <2>3. CASE i + 1 \in 1 .. L /\ C[i] = A[i + 1] /\ c[i] = q[i + 1]
        <3> A[i + 1] \in Int /\ B[i] = A[i + 1] + x
            BY <1>0, <1>17, <2>3
        <3> QED BY <2>1, <2>3
    <2> QED BY <1>14, <2>2, <2>3
<1> QED BY <1>19, <1>20

LEMMA UnscheduledTidy ==
    ASSUME NEW s, Tidy(s), NEW u \in Device, Holds(s.cosched, u)
    PROVE  /\ Drops(s, _sim_coschedule_cancel(s, u), u)
           /\ _sim_coschedule_cancel(s, u).cosched = Unlinked(s.cosched, u)
           /\ _sim_coschedule_cancel(s, u).seq = s.seq
           /\ _sim_coschedule_cancel(s, u).gathered = s.gathered
<1> DEFINE c == Unlinked(s.cosched, u)
           t == UnlinkedTime(s.cosched, s.time, u)
           h == s.hooked \ {u}
           x == [s.usecs EXCEPT ![u] = 0]
           r == _sim_coschedule_cancel(s, u)
<1>1. Parted(Unit, s.cosched, s.time, u, c, t) /\ u \in Unit
    <2> /\ s.cosched \in Seq(Unit) /\ s.time \in [Unit -> Int] /\ NoRepeat(s.cosched)
        /\ u \in Unit
        BY UnitsAre DEF Tidy, ClockType
    <2> QED BY UnlinkShape
<1>2. x \in [Unit -> Int] /\ x[Line] = 0 /\ x[Internal] = 0 /\ h \in SUBSET Unit
    BY <1>1, UnitsAre DEF Tidy, ClockType
<1>3. c \in Seq(Unit) /\ t \in [Unit -> Int] /\ NoRepeat(c)
      /\ \A v : Holds(c, v) <=> v # u /\ Holds(s.cosched, v)
    BY <1>1 DEF Parted
<1>4. r = [s EXCEPT !.cosched = c, !.time = t, !.hooked = h, !.usecs = x]
    BY DEF _sim_coschedule_cancel, Tidy, ClockType
<1>h. h = s.hooked \ {u}
    OBVIOUS
<1> HIDE DEF c, t, h, x
<1>5. /\ r \in ClockType /\ r.seq = s.seq /\ r.time = t /\ r.cosched = c /\ r.hooked = h
      /\ r.usecs = x /\ r.gathered = s.gathered /\ r.cinterval = s.cinterval
    BY <1>2, <1>3, <1>4 DEF Tidy, ClockType
<1>r. r = _sim_coschedule_cancel(s, u)
    OBVIOUS
<1> HIDE DEF r
<1>6. ~Holds(s.seq, u) /\ ~Holds(s.gathered, u)
    BY DEF Tidy
<1>7. Tidy(r)
    BY <1>2, <1>3, <1>5, <1>6, <1>h DEF Tidy
<1>8. Rising(s) => Rising(r) /\ NoLater(s, r, {})
    BY <1>7, PartedLeft DEF r
<1>9. Drops(s, r, u)
    BY <1>3, <1>5, <1>6, <1>7, <1>8 DEF Drops
<1> QED BY <1>5, <1>9 DEF r, c

-----------------------------------------------------------------------------
(* The calls of sim_timer.c, put together. *)

LEMMA CancelledTidy ==
    ASSUME NEW s, Tidy(s), NEW u \in Device
    PROVE  Drops(s, Cancelled(s, u), u)
<1>1. CASE u \in s.hooked /\ InSeq(u, s.cosched)
    BY <1>1, UnscheduledTidy DEF Cancelled, InSeq, Holds
<1>2. CASE ~(u \in s.hooked /\ InSeq(u, s.cosched)) /\ Listed(s, u)
    BY <1>2, UnqueuedTidy, UnitsAre DEF Cancelled
<1>3. CASE ~(u \in s.hooked /\ InSeq(u, s.cosched)) /\ ~Listed(s, u)
    <2>1. Cancelled(s, u) = s
        BY <1>3 DEF Cancelled
    <2>2. ~Holds(s.seq, u) /\ ~Holds(s.cosched, u)
        BY <1>3 DEF Tidy, InSeq, Listed, Holds
    <2>3. Steady(s, s)
        BY DEF Steady
    <2> QED BY <2>1, <2>2, <2>3, SteadyNoLater DEF Drops
<1> QED BY <1>1, <1>2, <1>3

(* A timer unit is never on the tick list. *)
LEMMA ClockCancelled ==
    ASSUME NEW s, Tidy(s), NEW u \in {Line, Internal}
    PROVE  Drops(s, Cancelled(s, u), u) /\ Steady(s, Cancelled(s, u))
<1>1. u \in Unit /\ u \notin Device /\ ~Holds(s.cosched, u) /\ ~InSeq(u, s.cosched)
    <2>1. u \in Unit /\ u \notin Device
        BY UnitsAre
    <2> QED BY <2>1 DEF Tidy, InSeq, Holds
<1>2. CASE Listed(s, u)
    BY <1>1, <1>2, UnqueuedTidy DEF Cancelled
<1>3. CASE ~Listed(s, u)
    <2>1. Cancelled(s, u) = s
        BY <1>1, <1>3 DEF Cancelled
    <2>2. ~Holds(s.seq, u)
        BY <1>3 DEF Listed, Holds
    <2>3. Steady(s, s)
        BY DEF Steady
    <2> QED BY <1>1, <2>1, <2>2, <2>3, SteadyNoLater DEF Drops
<1> QED BY <1>2, <1>3

LEMMA ActivatedTidy ==
    ASSUME NEW s, Tidy(s), NEW u \in Unit, NEW d \in Int
    PROVE  Moves(s, Activated(s, u, d), u) /\ Steady(s, Activated(s, u, d))
<1>1. CASE Active(s, u)
    <2>1. Activated(s, u, d) = s /\ Steady(s, s)
        BY <1>1 DEF Activated, Steady
    <2> QED BY <2>1, SteadyNoLater DEF Moves
<1>2. CASE ~Active(s, u)
    BY <1>2, QueuedTidy DEF Activated, Active, InSeq, Holds
<1> QED BY <1>1, <1>2

(* Activating a timer unit leaves it queued. *)
LEMMA ClockActivated ==
    ASSUME NEW s, Tidy(s), NEW u \in {Line, Internal}, NEW d \in Int
    PROVE  Listed(Activated(s, u, d), u)
<1>1. u \in Unit /\ ~Holds(s.cosched, u) /\ ~Holds(s.gathered, u)
    BY UnitsAre DEF Tidy
<1>2. CASE Active(s, u)
    BY <1>1, <1>2 DEF Activated, Active, InSeq, Holds
<1>3. CASE ~Active(s, u)
    BY <1>1, <1>3, QueuedTidy DEF Activated, Listed, Holds
<1> QED BY <1>2, <1>3

LEMMA UsecsTidy ==
    ASSUME NEW s, Tidy(s), NEW u \in Device, NEW x \in Int
    PROVE  LET r == [s EXCEPT !.usecs[u] = x]
           IN  /\ Tidy(r)
               /\ r.seq = s.seq /\ r.cosched = s.cosched /\ r.gathered = s.gathered
               /\ r.cinterval = s.cinterval /\ r.time = s.time
               /\ Left(r) = Left(s)
<1> DEFINE y == [s.usecs EXCEPT ![u] = x]
           r == [s EXCEPT !.usecs[u] = x]
<1>1. y \in [Unit -> Int] /\ y[Line] = 0 /\ y[Internal] = 0
    BY UnitsAre DEF Tidy, ClockType
<1>2. r = [s EXCEPT !.usecs = y]
    BY DEF Tidy, ClockType
<1> HIDE DEF y
<1>3. /\ r \in ClockType /\ r.seq = s.seq /\ r.cosched = s.cosched
      /\ r.gathered = s.gathered /\ r.hooked = s.hooked /\ r.usecs = y
      /\ r.cinterval = s.cinterval /\ r.time = s.time
    BY <1>1, <1>2 DEF Tidy, ClockType
<1> HIDE DEF r
<1>4. Tidy(r)
    BY <1>1, <1>3 DEF Tidy
<1>5. Left(r) = Left(s)
    BY <1>3 DEF Left, Committed
<1> QED BY <1>3, <1>4, <1>5 DEF r

LEMMA InstTilType ==
    ASSUME NEW s, Tidy(s), NEW u
    PROVE  InstTil(s, u) \in Int
<1>1. CASE ~Listed(s, u)
    BY <1>1 DEF InstTil
<1>2. CASE Listed(s, u)
    <2>1. /\ s.seq \in Seq(Unit) /\ s.time \in [Unit -> Int] /\ s.interval \in Int
          /\ Holds(s.seq, u)
        BY <1>2 DEF Tidy, ClockType, Listed, Holds
    <2>2. PlaceOf(s.seq, u) \in 1 .. Len(s.seq) /\ Len(s.seq) \in Nat
        BY <2>1, PlaceOfFound, LenProperties
    <2>3. Accum(s.seq, s.time) \in [0 .. Len(s.seq) -> Int]
        BY <2>1, AccumDef
    <2>4. Key(s.seq, s.time, u) \in Int
        <3> PlaceOf(s.seq, u) \in 0 .. Len(s.seq)
            BY <2>2
        <3> QED BY <2>3 DEF Key
    <2>5. s.time[Head(s.seq)] \in Int
        <3> s.seq # <<>>
            BY <2>1, <2>2, EmptySeq
        <3> QED BY <2>1, HeadTailProperties
    <2>6. AtLeast0(s.interval) \in Int
        BY <2>1 DEF AtLeast0
    <2> HIDE DEF Holds
    <2> QED BY <1>2, <2>4, <2>5, <2>6 DEF InstTil
<1> QED BY <1>1, <1>2

LEMMA TimesType ==
    ASSUME NEW a \in Int, NEW b \in Int
    PROVE  a * b \in Int
OBVIOUS

(* A long wait may be parked on the tick list. *)
LEMMA ParkedTidy ==
    ASSUME NEW s, Tidy(s), NEW u \in Device, NEW n \in Int, NEW x \in Int,
           NEW r, r = [sim_clock_coschedule_tmr([s EXCEPT !.usecs[u] = 0], u, n)
                          EXCEPT !.usecs[u] = x]
    PROVE  Moves(s, r, u)
<1> DEFINE s0 == [s EXCEPT !.usecs[u] = 0]
           s1 == sim_clock_coschedule_tmr(s0, u, n)
<1>1. /\ Tidy(s0) /\ s0.seq = s.seq /\ s0.cosched = s.cosched /\ Left(s0) = Left(s)
      /\ s0.gathered = s.gathered
    BY UsecsTidy
<1> HIDE DEF s0
<1>2. Moves(s0, s1, u)
    BY <1>1, CoscheduledTidy
<1> HIDE DEF s1
<1>3. r = [s1 EXCEPT !.usecs[u] = x]
    BY DEF s1, s0
<1>4. /\ Tidy(r) /\ r.seq = s1.seq /\ r.cosched = s1.cosched /\ Left(r) = Left(s1)
      /\ r.time = s1.time /\ r.gathered = s1.gathered
    <2> DEFINE r1 == [s1 EXCEPT !.usecs[u] = x]
    <2>1. Tidy(s1)
        BY <1>2 DEF Moves
    <2>2. /\ Tidy(r1) /\ r1.seq = s1.seq /\ r1.cosched = s1.cosched /\ Left(r1) = Left(s1)
          /\ r1.time = s1.time /\ r1.gathered = s1.gathered
        BY <2>1, UsecsTidy
    <2>3. r = r1
        BY <1>3
    <2> HIDE DEF r1
    <2> QED BY <2>2, <2>3
<1>5. Rising(s) => Rising(s0)
    BY <1>1 DEF Rising
<1>6. Rising(s1) => Rising(r)
    BY <1>4 DEF Rising
<1>7. NoLater(s0, s1, {}) => NoLater(s, r, {})
    BY <1>1, <1>4 DEF NoLater
<1> QED BY <1>1, <1>2, <1>4, <1>5, <1>6, <1>7 DEF Moves

LEMMA AfterTidy ==
    ASSUME NEW s, Tidy(s), NEW u \in Device, NEW d \in Int, ticks \in Int
    PROVE  Moves(s, sim_timer_activate_after(s, u, d), u)
<1> DEFINE tilTick == InstTil(s, calb)
           toGo == Hz - ticks
           tilCalib == tilTick + (toGo - 1) * TickSize
           s0 == [s EXCEPT !.usecs[u] = 0]
           Park(n, x) == [sim_clock_coschedule_tmr(s0, u, n) EXCEPT !.usecs[u] = x]
           r == sim_timer_activate_after(s, u, d)
<1>0. u \in Unit
    BY UnitsAre
<1>1. tilTick \in Int
    BY InstTilType
<1>2. toGo \in Int /\ tilCalib \in Int
    <2>1. Hz \in Int /\ TickSize \in Int
        BY ClockCoschedAssumption
    <2>2. toGo \in Int
        BY <2>1
    <2>3. (toGo - 1) * TickSize \in Int
        BY <2>1, <2>2, TimesType
    <2> HIDE DEF tilTick, toGo
    <2> QED BY <1>1, <2>2, <2>3
<1>3. \/ Active(s, u) /\ r = s
      \/ r = Park(toGo - 1, d - tilCalib)
      \/ r = Park(0, d - tilTick)
      \/ ~Active(s, u) /\ r = _sim_activate(s0, u, d)
    BY DEF sim_timer_activate_after
<1>4. \A n \in Int : \A x \in Int : Moves(s, Park(n, x), u)
    <2> SUFFICES ASSUME NEW n \in Int, NEW x \in Int PROVE Moves(s, Park(n, x), u)
        OBVIOUS
    <2> QED BY ParkedTidy
<1> HIDE DEF Park, r, tilTick, toGo, tilCalib
<1>5. CASE Active(s, u) /\ r = s
    <2> Steady(s, s)
        BY DEF Steady
    <2> QED BY <1>5, SteadyNoLater DEF Moves, r
<1>6. CASE ~Active(s, u) /\ r = _sim_activate(s0, u, d)
    <2>1. /\ Tidy(s0) /\ s0.seq = s.seq /\ s0.cosched = s.cosched /\ Left(s0) = Left(s)
          /\ s0.gathered = s.gathered
        BY UsecsTidy
    <2> HIDE DEF s0
    <2>2. ~Holds(s0.cosched, u) /\ ~Holds(s0.gathered, u)
        BY <1>6, <2>1 DEF Active, InSeq, Holds
    <2>3. Moves(s0, r, u)
        BY <1>0, <1>6, <2>1, <2>2, QueuedTidy
    <2>4. Rising(s) => Rising(s0)
        BY <2>1 DEF Rising
    <2>5. NoLater(s0, r, {}) => NoLater(s, r, {})
        BY <2>1 DEF NoLater
    <2> QED BY <2>1, <2>3, <2>4, <2>5 DEF Moves, r
<1>7. /\ 0 \in Int /\ toGo - 1 \in Int /\ d - tilCalib \in Int /\ d - tilTick \in Int
    BY <1>1, <1>2
<1>8. CASE r = Park(toGo - 1, d - tilCalib)
    <2> Moves(s, Park(toGo - 1, d - tilCalib), u)
        BY <1>2, <1>4, <1>7
    <2> QED BY <1>8 DEF r
<1>9. CASE r = Park(0, d - tilTick)
    <2> Moves(s, Park(0, d - tilTick), u)
        BY <1>1, <1>4, <1>7
    <2> QED BY <1>9 DEF r
<1> QED BY <1>3, <1>5, <1>6, <1>8, <1>9

-----------------------------------------------------------------------------
(* A switch of clocks empties the tick list. *)

(* Moving the first i units of the list q. *)
MovedTo(s, q, i, m) ==
    /\ Tidy(m) /\ m.gathered = s.gathered
    /\ Len(m.cosched) = Len(q) - i
    /\ \A j \in i + 1 .. Len(q) : Holds(m.cosched, q[j])
    /\ \A v : Holds(s.seq, v) => Holds(m.seq, v)

LEMMA MigrateOneTidy ==
    ASSUME NEW s, NEW q \in Seq(Unit), NoRepeat(q), NEW i \in 1 .. Len(q),
           NEW m, MovedTo(s, q, i - 1, m), NEW c, NEW bias \in Int
    PROVE  MovedTo(s, q, i, MigrateOne(m, q[i], c, bias))
<1> DEFINE u == q[i]
           left == m.usecs[u] + AtLeast0(m.cinterval) * TickSize + InstTil(m, c) - bias
           k == _sim_coschedule_cancel(m, u)
           a == _sim_activate(k, u, 1)
           r == [a EXCEPT !.usecs[u] = left]
<1>0. /\ Len(q) \in Nat /\ u \in Unit
      /\ i \in (i - 1) + 1 .. Len(q) /\ \A j \in i + 1 .. Len(q) : j \in 1 .. Len(q) /\ j # i
    BY LenProperties, ElementOfSeq
<1>1. Tidy(m) /\ Holds(m.cosched, u) /\ u \in Device
    BY <1>0 DEF MovedTo, Tidy
<1>2. left \in Int
    <2>1. m.usecs[u] \in Int /\ AtLeast0(m.cinterval) \in Int
        BY <1>0, <1>1 DEF Tidy, ClockType, AtLeast0
    <2>2. AtLeast0(m.cinterval) * TickSize \in Int
        <3> TickSize \in Int
            BY ClockCoschedAssumption
        <3> QED BY <2>1, TimesType
    <2>3. InstTil(m, c) \in Int
        BY <1>1, InstTilType
    <2> QED BY <2>1, <2>2, <2>3
<1> HIDE DEF left
<1>3. /\ Tidy(k) /\ k.cosched = Unlinked(m.cosched, u) /\ k.seq = m.seq
      /\ k.gathered = m.gathered /\ ~Holds(k.cosched, u)
    BY <1>1, UnscheduledTidy DEF Drops
<1>4. ~Holds(k.gathered, u)
    BY <1>1, <1>3 DEF Tidy
<1> HIDE DEF k
<1>5. /\ Tidy(a) /\ a.cosched = k.cosched /\ a.gathered = k.gathered
      /\ \A v : Holds(k.seq, v) => Holds(a.seq, v)
    <2> Moves(k, a, u) /\ Steady(k, a)
        <3> 1 \in Int
            OBVIOUS
        <3> QED BY <1>0, <1>3, <1>4, QueuedTidy
    <2> QED BY DEF Moves, Steady
<1> HIDE DEF a
<1>6. Tidy(r) /\ r.cosched = a.cosched /\ r.seq = a.seq /\ r.gathered = a.gathered
    BY <1>1, <1>2, <1>5, UsecsTidy
<1>7. MigrateOne(m, q[i], c, bias) = r
    BY DEF MigrateOne, left, k, a
<1> HIDE DEF r
<1>8. r.cosched = Unlinked(m.cosched, u)
    BY <1>3, <1>5, <1>6
<1>9. Len(r.cosched) = Len(q) - i
    <2> DEFINE p == PlaceOf(m.cosched, u)
    <2> UnlinkedAt(m.cosched, p, Unlinked(m.cosched, u))
        <3> m.cosched \in Seq(Unit)
            BY <1>1 DEF Tidy, ClockType
        <3> QED BY <1>0, <1>1, UnlinkedPlaces
    <2> Len(Unlinked(m.cosched, u)) = Len(m.cosched) - 1
        BY DEF UnlinkedAt
    <2> Len(m.cosched) = Len(q) - (i - 1)
        BY DEF MovedTo
    <2> QED BY <1>0, <1>8
<1>10. ASSUME NEW j \in i + 1 .. Len(q) PROVE Holds(r.cosched, q[j])
    <2>1. Parted(Unit, m.cosched, m.time, u, Unlinked(m.cosched, u),
                 UnlinkedTime(m.cosched, m.time, u))
        <3> m.cosched \in Seq(Unit) /\ m.time \in [Unit -> Int] /\ NoRepeat(m.cosched)
            BY <1>1 DEF Tidy, ClockType
        <3> QED BY <1>0, <1>1, UnlinkShape
    <2>2. j \in 1 .. Len(q) /\ j # i /\ j \in (i - 1) + 1 .. Len(q)
        BY <1>0
    <2>3. q[j] # u
        BY <2>2 DEF NoRepeat
    <2>4. Holds(m.cosched, q[j])
        BY <2>2 DEF MovedTo
    <2> QED BY <1>8, <2>1, <2>3, <2>4 DEF Parted
<1>11. \A v : Holds(s.seq, v) => Holds(r.seq, v)
    BY <1>3, <1>5, <1>6 DEF MovedTo
<1>12. MovedTo(s, q, i, r)
    BY <1>3, <1>5, <1>6, <1>9, <1>10, <1>11 DEF MovedTo
<1> QED BY <1>7, <1>12

LEMMA MigratedTidy ==
    ASSUME NEW s, Tidy(s), NEW c, NEW bias \in Int
    PROVE  /\ Tidy(Migrated(s, c, bias))
           /\ Migrated(s, c, bias).cosched = <<>>
           /\ Migrated(s, c, bias).gathered = s.gathered
           /\ \A v : Holds(s.seq, v) => Holds(Migrated(s, c, bias).seq, v)
<1> DEFINE q == s.cosched
           L == Len(q)
           Go(f, n) == /\ DOMAIN f = 0 .. n
                       /\ f[0] = s
                       /\ \A i \in 1 .. n : f[i] = MigrateOne(f[i - 1], q[i], c, bias)
           B == {n \in Nat : n <= L => \E f : Go(f, n)}
<1>0. L \in Nat /\ q \in Seq(Unit) /\ NoRepeat(q)
    BY LenProperties DEF Tidy, ClockType
<1>1. 0 \in B
    <2> DEFINE f == [i \in 0 .. 0 |-> s]
    <2>1. DOMAIN f = 0 .. 0 /\ f[0] = s
        OBVIOUS
    <2>2. Go(f, 0)
        BY <2>1
    <2> QED BY <2>2
<1>2. ASSUME NEW n \in B PROVE n + 1 \in B
    <2>0. n \in Nat /\ n + 1 \in Nat /\ (n <= L => \E f : Go(f, n))
        OBVIOUS
    <2> SUFFICES ASSUME n + 1 <= L PROVE \E f : Go(f, n + 1)
        BY <2>0
    <2>1. PICK g : Go(g, n)
        <3> n <= L
            BY <1>0, <2>0
        <3> HIDE DEF Go
        <3> QED BY <2>0
    <2> DEFINE f == [i \in 0 .. n + 1 |-> IF i = n + 1
                                          THEN MigrateOne(g[n], q[n + 1], c, bias) ELSE g[i]]
    <2>2. DOMAIN f = 0 .. n + 1
        OBVIOUS
    <2>3. \A i \in 1 .. n + 1 : f[i] = MigrateOne(f[i - 1], q[i], c, bias)
        <3> SUFFICES ASSUME NEW i \in 1 .. n + 1
                     PROVE  f[i] = MigrateOne(f[i - 1], q[i], c, bias)
            OBVIOUS
        <3>1. f[i - 1] = g[i - 1] /\ i - 1 \in 0 .. n
            BY <2>0
        <3>2. CASE i = n + 1
            <4> f[i] = MigrateOne(g[n], q[n + 1], c, bias) /\ i - 1 = n
                BY <2>0, <3>2
            <4> QED BY <3>1, <3>2
        <3>3. CASE i # n + 1
            <4> f[i] = g[i] /\ i \in 1 .. n
                BY <2>0, <3>3
            <4> QED BY <2>1, <3>1
        <3> QED BY <3>2, <3>3
    <2>4. f[0] = s
        BY <2>0, <2>1
    <2>5. Go(f, n + 1)
        BY <2>2, <2>3, <2>4
    <2> QED BY <2>5
<1>3. L \in B
    <2> HIDE DEF B
    <2> B = Nat
        <3> B \in SUBSET Nat
            BY DEF B
        <3> QED BY <1>1, <1>2, SetInduction
    <2> QED BY <1>0
<1>4. PICK f : Go(f, L)
    BY <1>3
<1> DEFINE One(m, i) == MigrateOne(m, q[i], c, bias)
           M == CHOOSE m : m = [i \in 0 .. L |-> IF i = 0 THEN s ELSE One(m[i - 1], i)]
<1>5. f = [i \in 0 .. L |-> IF i = 0 THEN s ELSE One(f[i - 1], i)]
    <2> f = [i \in 0 .. L |-> f[i]]
        BY <1>4
    <2> HIDE DEF One
    <2> \A i \in 0 .. L : f[i] = IF i = 0 THEN s ELSE One(f[i - 1], i)
        BY <1>0, <1>4 DEF One
    <2> QED OBVIOUS
<1>6. M = [i \in 0 .. L |-> IF i = 0 THEN s ELSE One(M[i - 1], i)]
    <2> HIDE DEF One
    <2> QED BY <1>5
<1>7. Migrated(s, c, bias) = M[L]
    BY DEF Migrated
<1> HIDE DEF M
<1>8. M[0] = s /\ \A i \in 1 .. L : M[i] = MigrateOne(M[i - 1], q[i], c, bias)
    <2>1. M[0] = s
        BY <1>0, <1>6
    <2>2. ASSUME NEW i \in 1 .. L PROVE M[i] = One(M[i - 1], i)
        <3> i \in 0 .. L /\ i # 0
            BY <1>0
        <3> HIDE DEF One
        <3> QED BY <1>6
    <2> QED BY <2>1, <2>2
<1> DEFINE C == {n \in Nat : n <= L => MovedTo(s, q, n, M[n])}
<1>9. 0 \in C
    <2>1. \A j \in 0 + 1 .. L : j \in 1 .. L
        BY <1>0
    <2>2. MovedTo(s, q, 0, s)
        BY <1>0, <2>1 DEF MovedTo, Holds
    <2> QED BY <1>8, <2>2
<1>10. ASSUME NEW n \in C PROVE n + 1 \in C
    <2> SUFFICES ASSUME n + 1 <= L PROVE MovedTo(s, q, n + 1, M[n + 1])
        OBVIOUS
    <2>1. n + 1 \in 1 .. L /\ n <= L /\ (n + 1) - 1 = n
        BY <1>0
    <2>2. MovedTo(s, q, n, M[n])
        BY <2>1
    <2>3. M[n + 1] = MigrateOne(M[n], q[n + 1], c, bias)
        BY <1>8, <2>1
    <2>4. MovedTo(s, q, (n + 1) - 1, M[n])
        BY <2>1, <2>2
    <2>5. MovedTo(s, q, n + 1, MigrateOne(M[n], q[n + 1], c, bias))
        <3> HIDE DEF C, q
        <3> QED BY <1>0, <2>1, <2>4, MigrateOneTidy DEF L
    <2> QED BY <2>3, <2>5
<1>11. C = Nat
    <2> C \in SUBSET Nat
        OBVIOUS
    <2> HIDE DEF C
    <2> QED BY <1>9, <1>10, SetInduction
<1>12. MovedTo(s, q, L, M[L])
    BY <1>0, <1>11
<1>13. M[L].cosched = <<>>
    <2> Len(M[L].cosched) = 0 /\ M[L].cosched \in Seq(Unit)
        BY <1>0, <1>12 DEF MovedTo, Tidy, ClockType
    <2> QED BY EmptySeq
<1> QED BY <1>7, <1>12, <1>13 DEF MovedTo

-----------------------------------------------------------------------------
(* A tick. *)

(* Each unit that stays on the list has one tick less to wait, and still   *)
(* some.                                                                   *)
Ticked(s, r) ==
    \A i \in 1 .. Len(r.cosched) :
        /\ Left(r)[i] > 0
        /\ \E j \in 1 .. Len(s.cosched) :
               s.cosched[j] = r.cosched[i] /\ Left(r)[i] <= Left(s)[j] - 1

GatherEffect(s, r) ==
    /\ Tidy(r) /\ r.seq = s.seq
    /\ Rising(s) => Rising(r) /\ Ticked(s, r)

(* With sums that are those of the list less one, from entry n on. *)
LEMMA TickedSums ==
    ASSUME NEW s, Tidy(s), Rising(s), NEW r,
           NEW n \in 0 .. Len(s.cosched), SuffixAt(s.cosched, n, r.cosched),
           \A i \in 1 .. Len(s.cosched) - n : Left(r)[i] = Left(s)[n + i] - 1,
           n < Len(s.cosched) => Left(s)[n + 1] > 1
    PROVE  Rising(r) /\ Ticked(s, r)
<1> DEFINE L == Len(s.cosched)
           A == Left(s)
           B == Left(r)
<1>0. L \in Nat /\ n \in Nat /\ \A i \in 1 .. L : A[i] \in Int
    BY LeftType
<1>1. /\ Len(r.cosched) = L - n
      /\ \A i \in 1 .. L - n : r.cosched[i] = s.cosched[n + i]
    BY DEF SuffixAt
<1>2. \A i, j \in 1 .. L : i <= j => A[i] <= A[j]
    BY DEF Rising
<1>3. \A i \in 1 .. L - n : n + i \in 1 .. L /\ B[i] = A[n + i] - 1
    BY <1>0
<1>4. n < L => A[n + 1] > 1
    OBVIOUS
<1>r. Rising(r) <=> \A i, j \in 1 .. Len(r.cosched) : i <= j => B[i] <= B[j]
    BY DEF Rising
<1>t. Ticked(s, r) <=>
          \A i \in 1 .. Len(r.cosched) :
              /\ B[i] > 0
              /\ \E j \in 1 .. L : s.cosched[j] = r.cosched[i] /\ B[i] <= A[j] - 1
    BY DEF Ticked
<1> HIDE DEF A, B, L
<1>5. Rising(r)
    <2> SUFFICES ASSUME NEW i \in 1 .. L - n, NEW j \in 1 .. L - n, i <= j
                 PROVE  B[i] <= B[j]
        BY <1>1, <1>r
    <2>1. n + i \in 1 .. L /\ n + j \in 1 .. L /\ n + i <= n + j
        BY <1>0
    <2>2. A[n + i] <= A[n + j] /\ A[n + i] \in Int /\ A[n + j] \in Int
        BY <1>0, <1>2, <2>1
    <2> QED BY <1>3, <2>2
<1>6. Ticked(s, r)
    <2> SUFFICES ASSUME NEW i \in 1 .. L - n
                 PROVE  /\ B[i] > 0
                        /\ \E j \in 1 .. L : s.cosched[j] = r.cosched[i] /\ B[i] <= A[j] - 1
        BY <1>1, <1>t
    <2>1. n + i \in 1 .. L /\ n + 1 \in 1 .. L /\ n + 1 <= n + i /\ n < L
        BY <1>0
    <2>2. A[n + 1] > 1 /\ A[n + 1] <= A[n + i] /\ A[n + i] \in Int /\ A[n + 1] \in Int
        BY <1>0, <1>2, <1>4, <2>1
    <2>3. B[i] = A[n + i] - 1 /\ r.cosched[i] = s.cosched[n + i]
        BY <1>1, <1>3
    <2>4. B[i] > 0 /\ B[i] <= A[n + i] - 1
        BY <2>2, <2>3
    <2> QED BY <2>1, <2>3, <2>4
<1> QED BY <1>5, <1>6

LEMMA GatherTidy ==
    ASSUME NEW s, Tidy(s), s.gathered = <<>>
    PROVE  GatherEffect(s, Gather(s))
<1> DEFINE q == s.cosched
           L == Len(q)
           a == Committed(s)
           A == Left(s)
           ci == s.cinterval - 1
           t0 == [s.time EXCEPT ![Head(q)] = ci]
           A1 == Accum(q, t0)
           n == IF ci > 0 THEN 0 ELSE Place(q, t0, 0) - 1
           rest == SubSeq(q, n + 1, L)
           front == SubSeq(q, 1, n)
           next == IF rest = <<>> THEN 0 ELSE A1[n + 1]
           t2 == IF rest = <<>> THEN t0 ELSE [t0 EXCEPT ![Head(rest)] = next]
           r == Gather(s)
<1>0. /\ L \in Nat /\ q \in Seq(Unit) /\ NoRepeat(q) /\ (\A i \in 1 .. L : A[i] \in Int)
      /\ s.time \in [Unit -> Int] /\ s.cinterval \in Int /\ ci \in Int
      /\ \A i \in 1 .. L : q[i] \in Unit
    <2>1. /\ q \in Seq(Unit) /\ NoRepeat(q)
          /\ s.time \in [Unit -> Int] /\ s.cinterval \in Int
        BY DEF Tidy, ClockType
    <2>2. L \in Nat /\ \A i \in 1 .. L : A[i] \in Int
        BY LeftType
    <2>3. \A i \in 1 .. L : q[i] \in Unit
        BY <2>1, ElementOfSeq
    <2>4. ci \in Int
        BY <2>1
    <2> QED BY <2>1, <2>2, <2>3, <2>4
<1>1. CASE q = <<>>
    <2>1. r = [s EXCEPT !.cinterval = 0]
        BY <1>1 DEF Gather
    <2>2. /\ r \in ClockType /\ r.seq = s.seq /\ r.time = s.time /\ r.cosched = q
          /\ r.hooked = s.hooked /\ r.usecs = s.usecs /\ r.gathered = s.gathered
        <3> HIDE DEF r
        <3> 0 \in Int
            OBVIOUS
        <3> QED BY <2>1 DEF Tidy, ClockType
    <2> HIDE DEF r
    <2>3. Tidy(r)
        BY <2>2 DEF Tidy
    <2>4. 1 .. Len(r.cosched) = {}
        <3> Len(r.cosched) = 0
            BY <1>1, <2>2, EmptySeq
        <3> QED OBVIOUS
    <2>5. Rising(r) /\ Ticked(s, r)
        BY <2>4 DEF Rising, Ticked
    <2>6. GatherEffect(s, r)
        BY <2>2, <2>3, <2>5 DEF GatherEffect
    <2> QED BY <2>6 DEF r
<1>2. CASE q # <<>>
    <2>1. L >= 1 /\ Head(q) = q[1] /\ 1 \in 1 .. L /\ q[1] \in Unit
        BY <1>0, <1>2, EmptySeq, HeadTailProperties
    <2>2. t0 \in [Unit -> Int] /\ t0[q[1]] = ci
        BY <1>0, <2>1
    <2>3. /\ a = [s.time EXCEPT ![q[1]] = s.cinterval] /\ a \in [Unit -> Int]
          /\ A = Accum(q, a) /\ a[q[1]] = s.cinterval
        BY <1>0, <1>2, <2>1 DEF Committed, Left
    <2>4. \A i \in 2 .. L : a[q[i]] = t0[q[i]]
        <3> SUFFICES ASSUME NEW i \in 2 .. L PROVE a[q[i]] = t0[q[i]]
            OBVIOUS
        <3> i \in 1 .. L /\ i # 1
            BY <1>0
        <3> q[i] # q[1] /\ q[i] \in Unit
            BY <1>0, <2>1 DEF NoRepeat
        <3> QED BY <1>0, <2>1, <2>3
    <2>5. \A i \in 1 .. L : A1[i] = A[i] - 1
        <3>1. HeadShifted(q, a, t0)
            <4> HIDE DEF q, a, t0
            <4> QED BY <1>0, <2>2, <2>3, <2>4, HeadShift DEF L
        <3>2. \A i \in 1 .. L : A1[i] = A[i] + (t0[q[1]] - a[q[1]])
            BY <2>3, <3>1 DEF HeadShifted
        <3>3. t0[q[1]] - a[q[1]] = -1
            <4> HIDE DEF a, t0, q
            <4> QED BY <1>0, <2>2, <2>3
        <3> HIDE DEF A1, A, a, t0, q, L
        <3> QED BY <1>0, <3>2, <3>3
    <2>6. A1[1] = ci
        <3>1. A1[0] = 0 /\ \A i \in 1 .. L : A1[i] = A1[i - 1] + t0[q[i]]
            <4> HIDE DEF t0, q
            <4> QED BY <1>0, <2>2, AccumDef DEF L
        <3> HIDE DEF A1, t0, q, L
        <3>2. A1[1] = A1[1 - 1] + t0[q[1]] /\ 1 - 1 = 0
            BY <2>1, <3>1
        <3> QED BY <1>0, <2>2, <3>1, <3>2
    <2>7. /\ Place(q, t0, 0) \in 1 .. L + 1
          /\ Place(q, t0, 0) <= L => 0 < A1[Place(q, t0, 0)]
        <3> 0 \in Int
            OBVIOUS
        <3> HIDE DEF t0, q
        <3> QED BY <1>0, <2>2, PlaceFound DEF L
    <2>8. n \in 0 .. L /\ (n < L => A1[n + 1] > 0)
        <3>1. CASE ci > 0
            <4> n = 0
                BY <3>1
            <4> QED BY <1>0, <2>6, <3>1
        <3>2. CASE ~(ci > 0)
            <4> DEFINE p == Place(q, t0, 0)
            <4>1. n = p - 1
                BY <3>2
            <4>2. p \in 1 .. L + 1 /\ (p <= L => 0 < A1[p])
                BY <2>7
            <4> HIDE DEF p, n, A1, L
            <4>3. n + 1 = p
                BY <1>0, <4>1, <4>2
            <4> QED BY <1>0, <4>1, <4>2, <4>3
        <3> QED BY <3>1, <3>2
    <2>9. n < L => A[n + 1] > 1
        <3> SUFFICES ASSUME n < L PROVE A[n + 1] > 1
            OBVIOUS
        <3> HIDE DEF n, A1, A, L
        <3> n + 1 \in 1 .. L
            BY <1>0, <2>8
        <3> QED BY <1>0, <2>5, <2>8
    <2>10. Cut(Unit, q, n, front, rest)
        <3> HIDE DEF n, q
        <3> QED BY <1>0, <2>8, SubSeqCut DEF L
    <2>11. r = IF n = 0 THEN [s EXCEPT !.time = t0, !.cinterval = ci]
               ELSE [s EXCEPT !.cosched = rest, !.cinterval = next,
                              !.gathered = front, !.time = t2]
        BY <1>2 DEF Gather
    <2>12. /\ rest \in Seq(Unit) /\ Len(rest) = L - n
           /\ \A i \in 1 .. L - n : rest[i] = q[n + i]
           /\ front \in Seq(Unit)
        BY <2>10 DEF Cut, SuffixAt
    <2>13. rest # <<>> => /\ n < L /\ Head(rest) = q[n + 1] /\ Head(rest) \in Unit
                          /\ n + 1 \in 1 .. L
        <3> SUFFICES ASSUME rest # <<>>
                     PROVE  /\ n < L /\ Head(rest) = q[n + 1] /\ Head(rest) \in Unit
                            /\ n + 1 \in 1 .. L
            OBVIOUS
        <3>1. Len(rest) \in Nat /\ Len(rest) # 0 /\ Head(rest) = rest[1] /\ Head(rest) \in Unit
            <4> HIDE DEF rest
            <4>1. Len(rest) \in Nat
                BY <2>12, LenProperties
            <4>2. Len(rest) # 0
                BY <2>12, EmptySeq
            <4>3. Head(rest) = rest[1] /\ Head(rest) \in Unit
                BY <2>12, HeadTailProperties
            <4> QED BY <4>1, <4>2, <4>3
        <3> HIDE DEF rest, n, L
        <3>2. n < L /\ 1 \in 1 .. L - n /\ n + 1 \in 1 .. L
            BY <1>0, <2>8, <2>12, <3>1
        <3> QED BY <2>12, <3>1, <3>2
    <2>14. next \in Int /\ t2 \in [Unit -> Int]
        <3>1. A1 \in [0 .. L -> Int]
            <4> HIDE DEF t0, q
            <4> QED BY <1>0, <2>2, AccumDef DEF L
        <3> HIDE DEF rest, n, A1, t0
        <3>2. next \in Int
            <4>1. rest # <<>> => n + 1 \in 0 .. L
                BY <1>0, <2>13
            <4> QED BY <3>1, <4>1
        <3> HIDE DEF next
        <3> QED BY <2>2, <2>13, <3>2
    <2>15. CASE n = 0
        <3>1. r = [s EXCEPT !.time = t0, !.cinterval = ci]
            BY <2>11, <2>15
        <3>2. /\ r \in ClockType /\ r.seq = s.seq /\ r.time = t0 /\ r.cosched = q
              /\ r.hooked = s.hooked /\ r.usecs = s.usecs /\ r.gathered = s.gathered
              /\ r.cinterval = ci
            <4> HIDE DEF t0, ci, r
            <4> QED BY <1>0, <2>2, <3>1 DEF Tidy, ClockType
        <3>3. Committed(r) = t0
            <4>1. Committed(r) = [t0 EXCEPT ![q[1]] = ci]
                <5> HIDE DEF r, t0, ci
                <5> QED BY <1>2, <2>1, <3>2 DEF Committed
            <4> HIDE DEF t0, ci
            <4> QED BY <2>1, <2>2, <4>1
        <3>4. Left(r) = A1
            BY <3>2, <3>3 DEF Left
        <3> HIDE DEF r
        <3>5. Tidy(r)
            BY <3>2 DEF Tidy
        <3>6. SuffixAt(q, 0, r.cosched)
            <4> Len(q) - 0 = Len(q) /\ \A i \in 1 .. Len(q) - 0 : 0 + i = i
                BY <1>0
            <4> QED BY <3>2 DEF SuffixAt
        <3>7. Rising(s) => Rising(r) /\ Ticked(s, r)
            <4> SUFFICES ASSUME Rising(s) PROVE Rising(r) /\ Ticked(s, r)
                OBVIOUS
            <4>1. \A i \in 1 .. L - 0 : Left(r)[i] = A[0 + i] - 1
                <5> HIDE DEF A, A1, L
                <5>1. L - 0 = L /\ \A i \in 1 .. L : 0 + i = i
                    BY <1>0
                <5> QED BY <2>5, <3>4, <5>1
            <4>2. 0 < L => A[0 + 1] > 1
                BY <2>9, <2>15
            <4>3. 0 \in 0 .. L
                BY <1>0
            <4> QED BY <3>6, <4>1, <4>2, <4>3, TickedSums
        <3>8. GatherEffect(s, r)
            BY <3>2, <3>5, <3>7 DEF GatherEffect
        <3> QED BY <3>8 DEF r
    <2>16. CASE n # 0
        <3>1. r = [s EXCEPT !.cosched = rest, !.cinterval = next,
                            !.gathered = front, !.time = t2]
            BY <2>11, <2>16
        <3> HIDE DEF r
        <3>2. /\ r \in ClockType /\ r.seq = s.seq /\ r.time = t2 /\ r.cosched = rest
              /\ r.hooked = s.hooked /\ r.usecs = s.usecs /\ r.gathered = front
              /\ r.cinterval = next
            <4> HIDE DEF t2, next, rest, front
            <4> QED BY <2>12, <2>14, <3>1 DEF Tidy, ClockType
        <3>3. /\ NoRepeat(front) /\ NoRepeat(rest)
              /\ \A v : Holds(q, v) <=> Holds(front, v) \/ Holds(rest, v)
              /\ \A v : ~(Holds(front, v) /\ Holds(rest, v))
            <4> HIDE DEF front, rest, n, q
            <4> QED BY <1>0, <2>8, <2>10, CutShape DEF L
        <3>4. \A v : ~Holds(s.gathered, v)
            BY EmptySeq DEF Holds
        <3>5. Tidy(r)
            <4> HIDE DEF front, rest, t2, next
            <4> QED BY <3>2, <3>3, <3>4 DEF Tidy
        <3>6. rest # <<>> => Committed(r) = t2 /\ t2[q[n + 1]] = A1[n + 1]
            <4> SUFFICES ASSUME rest # <<>>
                         PROVE  Committed(r) = t2 /\ t2[q[n + 1]] = A1[n + 1]
                OBVIOUS
            <4>1. t2 = [t0 EXCEPT ![Head(rest)] = next] /\ next = A1[n + 1]
                OBVIOUS
            <4>2. Committed(r) = [t2 EXCEPT ![Head(rest)] = next]
                BY <3>2 DEF Committed
            <4> HIDE DEF t2, next, rest, t0, n, A1
            <4> QED BY <2>2, <2>13, <4>1, <4>2
        <3>7. \A i \in 1 .. L - n : Left(r)[i] = A[n + i] - 1
            <4>1. CASE rest = <<>>
                <5> Len(rest) = 0
                    BY <4>1, EmptySeq
                <5> HIDE DEF n, L, A
                <5> 1 .. L - n = {}
                    BY <2>12
                <5> QED OBVIOUS
            <4>2. CASE rest # <<>>
                <5>1. n \in 0 .. L - 1
                    <6> HIDE DEF n, L, rest
                    <6> QED BY <1>0, <2>8, <2>13, <4>2
                <5>2. SuffixAt(q, n, rest)
                    BY <2>10 DEF Cut
                <5>3. \A i \in n + 2 .. L : t2[q[i]] = t0[q[i]]
                    <6> SUFFICES ASSUME NEW i \in n + 2 .. L PROVE t2[q[i]] = t0[q[i]]
                        OBVIOUS
                    <6>1. t2 = [t0 EXCEPT ![Head(rest)] = next]
                        BY <4>2
                    <6>2. i \in 1 .. L /\ i # n + 1 /\ n + 1 \in 1 .. L
                        <7> HIDE DEF n, L, rest
                        <7> QED BY <1>0, <2>8, <2>13, <4>2
                    <6>3. q[i] # q[n + 1] /\ q[i] \in Unit
                        <7> HIDE DEF n, q
                        <7> QED BY <1>0, <6>2 DEF NoRepeat, L
                    <6> HIDE DEF t2, t0, rest, next, n, q, L
                    <6> QED BY <2>2, <2>13, <4>2, <6>1, <6>3
                <5>4. t2[q[n + 1]] = Accum(q, t0)[n + 1]
                    BY <3>6, <4>2
                <5>5. SuffixInPlace(q, t0, n, rest, t2)
                    <6> HIDE DEF q, t0, n, rest, t2
                    <6> QED BY <1>0, <2>2, <2>12, <2>14, <5>1, <5>2, <5>3, <5>4, SuffixSums DEF L
                <5>6. Left(r) = Accum(rest, t2)
                    BY <3>2, <3>6, <4>2 DEF Left
                <5>7. \A i \in 1 .. L - n : Left(r)[i] = A1[n + i]
                    BY <5>5, <5>6 DEF SuffixInPlace
                <5> HIDE DEF A1, A, n, L
                <5>8. \A i \in 1 .. L - n : n + i \in 1 .. L
                    BY <1>0, <2>8
                <5> QED BY <2>5, <5>7, <5>8
            <4> QED BY <4>1, <4>2
        <3>8. Rising(s) => Rising(r) /\ Ticked(s, r)
            <4> SUFFICES ASSUME Rising(s) PROVE Rising(r) /\ Ticked(s, r)
                OBVIOUS
            <4>1. SuffixAt(q, n, r.cosched)
                BY <2>10, <3>2 DEF Cut
            <4> HIDE DEF n
            <4> QED BY <2>8, <2>9, <3>7, <4>1, TickedSums
        <3>9. GatherEffect(s, r)
            BY <3>2, <3>5, <3>8 DEF GatherEffect
        <3> QED BY <3>9 DEF r
    <2> QED BY <2>15, <2>16
<1> QED BY <1>1, <1>2

-----------------------------------------------------------------------------
(* The states of the clocks and lists. *)

(* sim_process_event and the tick hold only devices; a tick's gathered     *)
(* units are dispatched before it returns.                                 *)
Control ==
    /\ ticks \in Int
    /\ phase \in {"fetch", "exec", "service", "drain", "tick", "requeue", "requeued"}
    /\ calb \in {Line, Internal}
    /\ phase \in {"service", "requeue"} => running \in Unit
    /\ phase = "requeue" => running \in Device
    /\ phase # "tick" => gathered = <<>>
    /\ ClockRuns

(* Nobody's remaining time in the list exceeds its count of ticks. *)
Timely(s, d) ==
    /\ d \in [Device -> Int]
    /\ \A i \in 1 .. Len(s.cosched) : Left(s)[i] <= d[s.cosched[i]]

HInv == Tidy(S) /\ Control /\ Rising(S) /\ Timely(S, due)

LEMMA TurnsTo ==
    ASSUME NEW r, r \in ClockType, Turns(r)
    PROVE  S' = r
<1>1. /\ queue' = r.seq /\ time' = r.time /\ simInterval' = r.interval
      /\ cosched' = r.cosched /\ coschedInterval' = r.cinterval
      /\ hooked' = r.hooked /\ usecs' = r.usecs /\ gathered' = r.gathered
    BY DEF Turns, Becomes
<1>2. S' = [seq |-> queue', time |-> time', interval |-> simInterval',
            cosched |-> cosched', cinterval |-> coschedInterval',
            hooked |-> hooked', usecs |-> usecs', gathered |-> gathered']
    BY DEF S
<1> QED BY <1>1, <1>2 DEF ClockType

LEMMA SNow ==
    /\ S.seq = queue /\ S.time = time /\ S.interval = simInterval
    /\ S.cosched = cosched /\ S.cinterval = coschedInterval
    /\ S.hooked = hooked /\ S.usecs = usecs /\ S.gathered = gathered
BY DEF S

LEMMA SThen ==
    /\ S'.seq = queue' /\ S'.time = time' /\ S'.interval = simInterval'
    /\ S'.cosched = cosched' /\ S'.cinterval = coschedInterval'
    /\ S'.hooked = hooked' /\ S'.usecs = usecs' /\ S'.gathered = gathered'
BY DEF S

LEMMA TailShape ==
    ASSUME NEW seq \in Seq(Unit), seq # <<>>, NoRepeat(seq)
    PROVE  /\ Tail(seq) \in Seq(Unit) /\ NoRepeat(Tail(seq))
           /\ Head(seq) \in Unit /\ Holds(seq, Head(seq))
           /\ \A v : Holds(Tail(seq), v) <=> v # Head(seq) /\ Holds(seq, v)
<1> DEFINE L == Len(seq)
           t == Tail(seq)
<1>1. /\ L \in Nat /\ L # 0 /\ t \in Seq(Unit) /\ Len(t) = L - 1
      /\ Head(seq) = seq[1] /\ Head(seq) \in Unit
      /\ \A i \in 1 .. L - 1 : t[i] = seq[i + 1]
    <2>1. L \in Nat /\ L # 0
        BY LenProperties, EmptySeq
    <2>2. /\ t \in Seq(Unit) /\ Len(t) = L - 1 /\ Head(seq) = seq[1] /\ Head(seq) \in Unit
          /\ \A i \in 1 .. Len(t) : t[i] = seq[i + 1]
        BY HeadTailProperties
    <2> HIDE DEF L, t
    <2> QED BY <2>1, <2>2
<1>2. \A i, j \in 1 .. L : seq[i] = seq[j] => i = j
    BY DEF NoRepeat
<1>3. /\ \A v : Holds(seq, v) <=> \E i \in 1 .. L : seq[i] = v
      /\ \A v : Holds(t, v) <=> \E i \in 1 .. Len(t) : t[i] = v
    BY DEF Holds
<1>4. NoRepeat(t) <=> \A i, j \in 1 .. Len(t) : t[i] = t[j] => i = j
    BY DEF NoRepeat
<1> HIDE DEF L, t
<1>5. NoRepeat(t)
    <2> SUFFICES ASSUME NEW i \in 1 .. L - 1, NEW j \in 1 .. L - 1, t[i] = t[j]
                 PROVE  i = j
        BY <1>1, <1>4
    <2>1. i + 1 \in 1 .. L /\ j + 1 \in 1 .. L
        BY <1>1
    <2>2. i + 1 = j + 1
        BY <1>1, <1>2, <2>1
    <2> QED BY <2>2
<1>6. 1 \in 1 .. L /\ Holds(seq, Head(seq))
    BY <1>1, <1>3
<1>7. ASSUME NEW v PROVE Holds(t, v) <=> v # Head(seq) /\ Holds(seq, v)
    <2>1. ASSUME NEW i \in 1 .. L - 1, t[i] = v PROVE v # Head(seq) /\ Holds(seq, v)
        <3>1. i + 1 \in 1 .. L /\ i + 1 # 1 /\ seq[i + 1] = v
            BY <1>1, <2>1
        <3> QED BY <1>1, <1>2, <1>3, <1>6, <3>1
    <2>2. ASSUME NEW i \in 1 .. L, seq[i] = v, v # Head(seq) PROVE Holds(t, v)
        <3>1. i - 1 \in 1 .. L - 1 /\ (i - 1) + 1 = i
            BY <1>1, <2>2
        <3>2. t[i - 1] = v
            BY <1>1, <2>2, <3>1
        <3> QED BY <1>1, <1>3, <3>1, <3>2
    <2> QED BY <1>1, <1>3, <2>1, <2>2
<1> QED BY <1>1, <1>5, <1>6, <1>7 DEF t

(* A change that leaves every field but the event queue's alone. *)
LEMMA DequeuedTidy ==
    ASSUME NEW s, Tidy(s), s.seq # <<>>, NEW x \in Int,
           NEW r, r = [s EXCEPT !.seq = Tail(s.seq), !.time[Head(s.seq)] = 0, !.interval = x]
    PROVE  Tidy(r) /\ Steady(s, r)
<1> DEFINE q == s.seq
           u == Head(q)
           w == Tail(q)
           t == [s.time EXCEPT ![u] = 0]
<1>1. /\ w \in Seq(Unit) /\ NoRepeat(w) /\ u \in Unit /\ Holds(q, u)
      /\ \A v : Holds(w, v) <=> v # u /\ Holds(q, v)
    BY TailShape DEF Tidy, ClockType
<1>2. t \in [Unit -> Int] /\ \A v \in Unit : v # u => t[v] = s.time[v]
    <2> HIDE DEF u
    <2> 0 \in Int
        OBVIOUS
    <2> QED BY <1>1 DEF Tidy, ClockType
<1>3. r = [s EXCEPT !.seq = w, !.time = t, !.interval = x]
    BY DEF Tidy, ClockType
<1> DEFINE k == [s EXCEPT !.seq = w, !.time = t, !.interval = x]
<1> HIDE DEF t, w, u
<1>4. /\ k \in ClockType /\ k.seq = w /\ k.time = t
      /\ k.cosched = s.cosched /\ k.cinterval = s.cinterval /\ k.hooked = s.hooked
      /\ k.usecs = s.usecs /\ k.gathered = s.gathered
    BY <1>1, <1>2 DEF Tidy, ClockType
<1> HIDE DEF k
<1>5. Tidy(k)
    BY <1>1, <1>4 DEF Tidy
<1>6. Steady(s, k)
    BY <1>1, <1>2, <1>4 DEF Steady, Tidy
<1> QED BY <1>3, <1>5, <1>6 DEF k

(* Only the countdown changes. *)
LEMMA CountedTidy ==
    ASSUME NEW s, Tidy(s), NEW x \in Int, NEW r, r = [s EXCEPT !.interval = x]
    PROVE  Tidy(r) /\ Steady(s, r)
<1> DEFINE k == [s EXCEPT !.interval = x]
<1>1. /\ k \in ClockType /\ k.seq = s.seq /\ k.time = s.time
      /\ k.cosched = s.cosched /\ k.cinterval = s.cinterval /\ k.hooked = s.hooked
      /\ k.usecs = s.usecs /\ k.gathered = s.gathered
    BY DEF Tidy, ClockType
<1> HIDE DEF k
<1>2. Tidy(k) /\ Steady(s, k)
    BY <1>1 DEF Tidy, Steady
<1> QED BY <1>2 DEF k

-----------------------------------------------------------------------------
(* The ideal count of ticks keeps up with what the list says. *)

(* Two calls in a row, the first of which takes u off. *)
LEMMA CalledTwice ==
    ASSUME NEW s, Tidy(s), NEW c, NEW r, NEW u, Drops(s, c, u), Moves(c, r, u), Rising(s)
    PROVE  /\ Tidy(r) /\ r.gathered = s.gathered
           /\ \A v : v # u /\ Holds(s.seq, v) => Holds(r.seq, v)
           /\ Rising(r) /\ NoLater(s, r, {u})
<1>1. /\ Rising(c) /\ NoLater(s, c, {}) /\ ~Holds(c.cosched, u)
      /\ \A v : Holds(c.cosched, v) => Holds(s.cosched, v)
      /\ Tidy(c) /\ \A v : v # u /\ Holds(s.seq, v) => Holds(c.seq, v)
    BY DEF Drops
<1>2. /\ Rising(r) /\ NoLater(c, r, {}) /\ Tidy(r) /\ r.gathered = s.gathered
      /\ \A v : Holds(r.cosched, v) => v = u \/ Holds(c.cosched, v)
      /\ \A v : v # u /\ Holds(s.seq, v) => Holds(r.seq, v)
    BY <1>1 DEF Drops, Moves
<1>3. ASSUME NEW i \in 1 .. Len(r.cosched)
      PROVE  \/ /\ r.cosched[i] \notin {u}
                /\ \E k \in 1 .. Len(s.cosched) :
                       s.cosched[k] = r.cosched[i] /\ Left(r)[i] <= Left(s)[k]
             \/ /\ r.cosched[i] \in {u} \/ ~Holds(s.cosched, r.cosched[i])
                /\ Left(r)[i] <= Accum(r.cosched, r.time)[i]
    <2> DEFINE v == r.cosched[i]
    <2>1. Holds(r.cosched, v)
        BY DEF Holds
    <2>2. CASE \E j \in 1 .. Len(c.cosched) :
                   c.cosched[j] = v /\ Left(r)[i] <= Left(c)[j]
        <3>1. PICK j \in 1 .. Len(c.cosched) : c.cosched[j] = v /\ Left(r)[i] <= Left(c)[j]
            BY <2>2
        <3>2. Holds(c.cosched, v) /\ v # u /\ Holds(s.cosched, v)
            BY <1>1, <3>1 DEF Holds
        <3>3. PICK k \in 1 .. Len(s.cosched) : s.cosched[k] = v /\ Left(c)[j] <= Left(s)[k]
            BY <1>1, <3>1, <3>2 DEF NoLater
        <3>4. Left(r)[i] \in Int /\ Left(c)[j] \in Int /\ Left(s)[k] \in Int
            BY <1>1, <1>2, LeftType
        <3>5. Left(r)[i] <= Left(s)[k]
            BY <3>1, <3>3, <3>4
        <3> QED BY <3>2, <3>3, <3>5
    <2>3. CASE ~Holds(c.cosched, v) /\ Left(r)[i] <= Accum(r.cosched, r.time)[i]
        <3>1. v = u
            BY <1>2, <2>1, <2>3
        <3> QED BY <2>3, <3>1
    <2>4. \/ \E j \in 1 .. Len(c.cosched) : c.cosched[j] = v /\ Left(r)[i] <= Left(c)[j]
          \/ ~Holds(c.cosched, v) /\ Left(r)[i] <= Accum(r.cosched, r.time)[i]
        BY <1>2 DEF NoLater
    <2> QED BY <2>2, <2>3, <2>4
<1>4. NoLater(s, r, {u})
    BY <1>3 DEF NoLater
<1> QED BY <1>2, <1>4

LEMMA CountsKeep ==
    ASSUME Tidy(S), Timely(S, due), NEW r, Tidy(r), NEW anew,
           cosched' = r.cosched, time' = r.time,
           Counts(anew), ~Ticks, NoLater(S, r, anew)
    PROVE  Timely(r, due')
<1> DEFINE c == r.cosched
           t == r.time
           Coming(u) == IF ~InSeq(u, c) THEN 0
                        ELSE IF u \in anew \/ ~InSeq(u, cosched) THEN Key(c, t, u)
                        ELSE due[u]
<1>1. due' = [u \in Device |-> Coming(u)]
    BY DEF Counts
<1>2. /\ c \in Seq(Unit) /\ t \in [Unit -> Int] /\ NoRepeat(c)
      /\ \A v : Holds(c, v) => v \in Device
      /\ due \in [Device -> Int]
    BY DEF Tidy, ClockType, Timely
<1>3. \A i \in 1 .. Len(c) : /\ Key(c, t, c[i]) = Accum(c, t)[i]
                             /\ Accum(c, t)[i] \in Int
                             /\ c[i] \in Device /\ InSeq(c[i], c)
    <2>1. Accum(c, t) \in [0 .. Len(c) -> Int] /\ Len(c) \in Nat
        BY <1>2, AccumDef, LenProperties
    <2>2. \A i \in 1 .. Len(c) : Key(c, t, c[i]) = Accum(c, t)[i]
        BY <1>2, KeyAt
    <2>3. \A i \in 1 .. Len(c) : c[i] \in Device /\ InSeq(c[i], c)
        BY <1>2 DEF Holds, InSeq
    <2> HIDE DEF c, t
    <2> QED BY <2>1, <2>2, <2>3
<1>4. \A u \in Device : Coming(u) \in Int
    <2> SUFFICES ASSUME NEW u \in Device PROVE Coming(u) \in Int
        OBVIOUS
    <2>1. InSeq(u, c) => Key(c, t, u) \in Int
        BY <1>3 DEF InSeq
    <2>2. due[u] \in Int /\ 0 \in Int
        BY <1>2
    <2> HIDE DEF c, t
    <2> QED BY <2>1, <2>2
<1>5. due' \in [Device -> Int]
    BY <1>1, <1>4
<1>6. ASSUME NEW i \in 1 .. Len(c)
      PROVE  Left(r)[i] <= due'[c[i]]
    <2>1. due'[c[i]] = Coming(c[i]) /\ c[i] \in Device /\ InSeq(c[i], c)
        BY <1>1, <1>3
    <2>2. Left(r)[i] \in Int
        BY LeftType
    <2>3. CASE /\ c[i] \notin anew
               /\ \E j \in 1 .. Len(cosched) : cosched[j] = c[i] /\ Left(r)[i] <= Left(S)[j]
        <3>1. PICK j \in 1 .. Len(cosched) : cosched[j] = c[i] /\ Left(r)[i] <= Left(S)[j]
            BY <2>3
        <3>2. due'[c[i]] = due[c[i]] /\ due[c[i]] \in Int
            BY <1>2, <2>1, <2>3, <3>1 DEF InSeq
        <3>3. Left(S)[j] <= due[cosched[j]] /\ Left(S)[j] \in Int
            BY <3>1, LeftType, SNow DEF Timely
        <3> QED BY <2>2, <3>1, <3>2, <3>3
    <2>4. CASE /\ c[i] \in anew \/ ~Holds(cosched, c[i])
               /\ Left(r)[i] <= Accum(c, t)[i]
        <3>1. due'[c[i]] = Key(c, t, c[i])
            BY <2>1, <2>4 DEF Holds, InSeq
        <3> QED BY <1>3, <2>4, <3>1
    <2> QED BY <2>3, <2>4, SNow DEF NoLater
<1> QED BY <1>5, <1>6 DEF Timely

(* A tick, from a list that is as it was or empty. *)
LEMMA CountsTick ==
    ASSUME NEW s, Tidy(s), Timely(s, due), NEW r, Tidy(r), Ticked(s, r),
           \A v : Holds(s.cosched, v) => InSeq(v, cosched),
           cosched' = r.cosched, Counts({}), Ticks
    PROVE  Timely(r, due') /\ \A u \in Device : InSeq(u, cosched') => due'[u] > 0
<1> DEFINE c == r.cosched
<1>1. \A i \in 1 .. Len(c) : InSeq(c[i], c) /\ InSeq(c[i], cosched) /\ c[i] \in Device
    <2>1. \A v : Holds(c, v) => v \in Device
        BY DEF Tidy
    <2>2. \A i \in 1 .. Len(c) : Holds(c, c[i]) /\ Holds(s.cosched, c[i])
        BY DEF Ticked, Holds
    <2> QED BY <2>1, <2>2 DEF InSeq
<1>2. due \in [Device -> Int]
    BY DEF Timely
<1>3. \A u \in Device : InSeq(u, c) => InSeq(u, cosched)
    BY <1>1 DEF InSeq
<1>4. due' = [u \in Device |-> IF ~InSeq(u, c) THEN due[u] - 1
                               ELSE IF ~InSeq(u, cosched) THEN Key(c, time', u)
                               ELSE due[u] - 1]
    BY DEF Counts
<1>5. \A u \in Device : due'[u] = due[u] - 1
    BY <1>3, <1>4
<1>6. due' \in [Device -> Int]
    <2> due' = [u \in Device |-> due[u] - 1]
        BY <1>3, <1>4
    <2> QED BY <1>2
<1>7. ASSUME NEW i \in 1 .. Len(c)
      PROVE  Left(r)[i] <= due'[c[i]] /\ due'[c[i]] > 0
    <2>1. PICK j \in 1 .. Len(s.cosched) :
              s.cosched[j] = c[i] /\ Left(r)[i] <= Left(s)[j] - 1
        BY DEF Ticked
    <2>2. Left(r)[i] > 0 /\ Left(r)[i] \in Int /\ Left(s)[j] \in Int
        BY LeftType DEF Ticked
    <2>3. Left(s)[j] <= due[c[i]]
        BY <2>1 DEF Timely
    <2>4. due'[c[i]] = due[c[i]] - 1 /\ due[c[i]] \in Int
        BY <1>1, <1>2, <1>5
    <2> QED BY <2>1, <2>2, <2>3, <2>4
<1>8. \A u \in Device : InSeq(u, cosched') => due'[u] > 0
    BY <1>7 DEF InSeq
<1> QED BY <1>6, <1>7, <1>8 DEF Timely

-----------------------------------------------------------------------------
(* Each step keeps the invariant. *)

LEMMA StepKeeps ==
    ASSUME HInv, NEW r, S' = r, Tidy(r), Rising(r), NEW anew, NoLater(S, r, anew),
           Counts(anew), ~Ticks, Control'
    PROVE  HInv'
<1>1. cosched' = r.cosched /\ time' = r.time
    BY SThen
<1>2. Tidy(S) /\ Timely(S, due)
    BY DEF HInv
<1>3. Timely(r, due')
    BY <1>1, <1>2, CountsKeep
<1> QED BY <1>3 DEF HInv

(* The clock in use, as a step changes it. *)
LEMMA ClocksThen ==
    ASSUME NEW r, S' = r,
           \A c \in {Line, calb'} : Holds(r.seq, c) \/ (running' = c /\ phase' = "service")
    PROVE  ClockRuns'
BY DEF ClockRuns, Listed, Holds

LEMMA ClocksNow ==
    ASSUME HInv, NEW c \in {Line, calb}
    PROVE  Holds(queue, c) \/ (running = c /\ phase = "service")
BY SNow DEF HInv, Control, ClockRuns, Listed, Holds

(* A call of device code. *)
LEMMA CallKeeps ==
    ASSUME HInv, NEW r, Calls(r), Tidy(r), r.gathered = S.gathered,
           \A v \in {Line, Internal} : Holds(queue, v) => Holds(r.seq, v),
           Rising(r), NEW anew, NoLater(S, r, anew), Counts(anew)
    PROVE  HInv'
<1>1. S' = r
    BY TurnsTo DEF Calls, Tidy
<1>2. /\ DeviceCode
      /\ phase' = phase /\ running' = running /\ ticks' = ticks /\ calb' = calb
    BY DEF Calls
<1>3. ~Ticks
    BY <1>2 DEF Ticks
<1>4. gathered' = gathered
    BY <1>1, SThen, SNow
<1>5. calb \in {Line, Internal}
    BY DEF HInv, Control
<1>6. ClockRuns'
    <2> SUFFICES ASSUME NEW c \in {Line, calb}
                 PROVE  Holds(r.seq, c) \/ (running = c /\ phase = "service")
        BY <1>1, <1>2, ClocksThen
    <2> QED BY <1>5, ClocksNow
<1>7. Control'
    BY <1>2, <1>4, <1>6 DEF HInv, Control
<1> QED BY <1>1, <1>3, <1>7, StepKeeps

LEMMA MoveKeeps ==
    ASSUME HInv, NEW r, Calls(r), NEW u, Moves(S, r, u), Counts({})
    PROVE  HInv'
<1>1. /\ Tidy(r) /\ r.gathered = S.gathered /\ Rising(r) /\ NoLater(S, r, {})
      /\ \A v : Holds(queue, v) => Holds(r.seq, v)
    BY SNow DEF HInv, Moves
<1> QED BY <1>1, CallKeeps

LEMMA DelaysAre ==
    Delays \subseteq Int /\ UsecDelays \subseteq Int /\ CoschedTicks \subseteq Int
BY EventQueueAssumption, ClockCoschedAssumption

LEMMA CallsKeep ==
    ASSUME HInv, Counts({}),
           \/ CallActivate \/ CallActivateAfter \/ CallCoschedule \/ CallCancel \/ Periodic
    PROVE  HInv'
<1>0. Tidy(S) /\ ticks \in Int
    BY DEF HInv, Control
<1>1. ASSUME NEW u \in Device, NEW d \in Int, Calls(Activated(S, u, d)) PROVE HInv'
    <2>1. Moves(S, Activated(S, u, d), u)
        BY <1>0, UnitsAre, ActivatedTidy
    <2> QED BY <1>1, <2>1, MoveKeeps
<1>2. ASSUME NEW u \in Device, NEW d \in Int, Calls(sim_timer_activate_after(S, u, d))
      PROVE  HInv'
    <2>1. Moves(S, sim_timer_activate_after(S, u, d), u)
        BY <1>0, AfterTidy
    <2> QED BY <1>2, <2>1, MoveKeeps
<1>3. ASSUME NEW u \in Device, NEW n \in Int, Calls(sim_clock_coschedule_tmr(S, u, n))
      PROVE  HInv'
    <2>1. Moves(S, sim_clock_coschedule_tmr(S, u, n), u)
        BY <1>0, CoscheduledTidy
    <2> QED BY <1>3, <2>1, MoveKeeps
<1>4. ASSUME NEW u \in Device, Calls(Cancelled(S, u)) PROVE HInv'
    <2>1. Drops(S, Cancelled(S, u), u)
        BY <1>0, CancelledTidy
    <2>2. /\ Tidy(Cancelled(S, u)) /\ Cancelled(S, u).gathered = S.gathered
          /\ \A v : v # u /\ Holds(queue, v) => Holds(Cancelled(S, u).seq, v)
          /\ Rising(Cancelled(S, u)) /\ NoLater(S, Cancelled(S, u), {})
        BY <2>1, SNow DEF Drops, HInv
    <2>3. u \notin {Line, Internal}
        BY UnitsAre
    <2> QED BY <1>4, <2>2, <2>3, CallKeeps
<1>5. CASE CallActivate
    BY <1>1, <1>5, DelaysAre DEF CallActivate
<1>6. CASE CallActivateAfter
    BY <1>2, <1>6, DelaysAre DEF CallActivateAfter
<1>7. CASE CallCoschedule
    BY <1>3, <1>7, DelaysAre DEF CallCoschedule
<1>8. CASE CallCancel
    BY <1>4, <1>8 DEF CallCancel
<1>9. CASE Periodic
    BY <1>1, <1>2, <1>3, <1>9, DelaysAre DEF Periodic
<1> QED BY <1>5, <1>6, <1>7, <1>8, <1>9

LEMMA AbsKeeps ==
    ASSUME HInv, NEW u \in Device, CallActivateAfterAbs(u), Counts({u})
    PROVE  HInv'
<1>0. Tidy(S) /\ ticks \in Int /\ Rising(S)
    BY DEF HInv, Control
<1> DEFINE c == Cancelled(S, u)
<1>1. PICK d \in UsecDelays : Calls(sim_timer_activate_after(c, u, d))
    BY DEF CallActivateAfterAbs
<1> DEFINE r == sim_timer_activate_after(c, u, d)
<1>2. Drops(S, c, u)
    BY <1>0, CancelledTidy
<1>3. Moves(c, r, u)
    <2>1. Tidy(c) /\ d \in Int
        BY <1>2, DelaysAre DEF Drops
    <2> HIDE DEF c
    <2> QED BY <1>0, <2>1, AfterTidy
<1>4. Calls(r)
    BY <1>1
<1> HIDE DEF c, r
<1>5. /\ Tidy(r) /\ r.gathered = S.gathered
      /\ \A v : v # u /\ Holds(queue, v) => Holds(r.seq, v)
      /\ Rising(r) /\ NoLater(S, r, {u})
    <2>1. S.seq = queue
        BY SNow
    <2>2. /\ Tidy(r) /\ r.gathered = S.gathered
          /\ \A v : v # u /\ Holds(S.seq, v) => Holds(r.seq, v)
          /\ Rising(r) /\ NoLater(S, r, {u})
        BY <1>0, <1>2, <1>3, CalledTwice
    <2> QED BY <2>1, <2>2
<1>6. u \notin {Line, Internal}
    BY UnitsAre
<1> QED BY <1>4, <1>5, <1>6, CallKeeps

LEMMA EmptyList ==
    ASSUME NEW s, NEW r, r.cosched = <<>>, NEW anew
    PROVE  Rising(r) /\ NoLater(s, r, anew) /\ Ticked(s, r)
<1>1. Len(r.cosched) = 0
    BY EmptySeq
<1>2. 1 .. Len(r.cosched) = {}
    BY <1>1
<1> QED BY <1>2 DEF Rising, NoLater, Ticked

LEMMA NoneHeld ==
    ASSUME NEW v
    PROVE  ~Holds(<<>>, v)
BY EmptySeq DEF Holds

(* The clock of the list is left: the list is emptied, and the timer unit  *)
(* taken off.                                                              *)
LEMMA ClockLeft ==
    ASSUME HInv, gathered = <<>>, NEW c \in {Line, Internal}, NEW bias \in Int
    PROVE  LET r == Cancelled(Migrated(S, c, bias), c)
           IN  /\ Tidy(r) /\ r.cosched = <<>> /\ r.gathered = <<>>
               /\ \A v : v # c /\ Holds(queue, v) => Holds(r.seq, v)
<1> DEFINE m == Migrated(S, c, bias)
           r == Cancelled(m, c)
<1>1. /\ Tidy(m) /\ m.cosched = <<>> /\ m.gathered = S.gathered
      /\ \A v : Holds(S.seq, v) => Holds(m.seq, v)
    <2> Tidy(S)
        BY DEF HInv
    <2> QED BY MigratedTidy
<1> HIDE DEF m
<1>2. Drops(m, r, c) /\ Steady(m, r)
    BY <1>1, ClockCancelled
<1>3. S.seq = queue /\ S.gathered = <<>>
    BY SNow
<1> HIDE DEF r
<1>4. /\ Tidy(r) /\ r.cosched = <<>> /\ r.gathered = <<>>
      /\ \A v : v # c /\ Holds(queue, v) => Holds(r.seq, v)
    BY <1>1, <1>2, <1>3 DEF Drops, Steady
<1> QED BY <1>4 DEF r, m

(* What Activated does for a timer unit. *)
LEMMA ClockStarted ==
    ASSUME NEW s, Tidy(s), NEW c \in {Line, Internal}
    PROVE  LET r == Activated(s, c, TickSize)
           IN  /\ Tidy(r) /\ Steady(s, r) /\ r.gathered = s.gathered
               /\ Holds(r.seq, c)
               /\ \A v : Holds(s.seq, v) => Holds(r.seq, v)
               /\ Rising(s) => Rising(r) /\ NoLater(s, r, {})
<1> DEFINE r == Activated(s, c, TickSize)
<1>1. c \in Unit /\ TickSize \in Int
    BY ClockCoschedAssumption
<1>2. Moves(s, r, c) /\ Steady(s, r)
    BY <1>1, ActivatedTidy
<1>3. Listed(r, c)
    BY <1>1, ClockActivated
<1> HIDE DEF r
<1>4. /\ Tidy(r) /\ Steady(s, r) /\ r.gathered = s.gathered
      /\ Holds(r.seq, c)
      /\ \A v : Holds(s.seq, v) => Holds(r.seq, v)
      /\ Rising(s) => Rising(r) /\ NoLater(s, r, {})
    BY <1>2, <1>3 DEF Moves, Listed, Holds
<1> QED BY <1>4 DEF r

LEMMA ResetKeeps ==
    ASSUME HInv, clk_reset, Counts({})
    PROVE  HInv'
<1>0. /\ Tidy(S) /\ Rising(S) /\ phase = "exec" /\ gathered = <<>>
      /\ calb \in {Line, Internal} /\ ticks \in Int /\ phase' = "exec"
    BY DEF HInv, Control, clk_reset
<1>1. ~Ticks
    BY <1>0 DEF Ticks
<1>2. Holds(queue, Line) /\ Holds(queue, calb)
    BY <1>0, ClocksNow
<1>3. ASSUME NEW r, Turns(r), Tidy(r), Rising(r), NoLater(S, r, {}), r.gathered = <<>>,
             ticks' \in Int, calb' = Internal, Holds(r.seq, Line), Holds(r.seq, Internal)
      PROVE  HInv'
    <2>1. S' = r
        BY <1>3, TurnsTo DEF Tidy
    <2>2. ClockRuns'
        BY <1>3, <2>1, ClocksThen
    <2>3. gathered' = <<>>
        BY <1>3, <2>1, SThen
    <2>4. Control'
        BY <1>0, <1>3, <2>2, <2>3 DEF Control
    <2> QED BY <1>1, <1>3, <2>1, <2>4, StepKeeps
<1>4. CASE calb = Internal
    <2> DEFINE r == Activated(S, Line, TickSize)
    <2>1. Turns(r) /\ ticks' = ticks /\ calb' = calb
        BY <1>4 DEF clk_reset
    <2>2. /\ Tidy(r) /\ r.gathered = S.gathered /\ Holds(r.seq, Line)
          /\ \A v : Holds(S.seq, v) => Holds(r.seq, v)
          /\ Rising(r) /\ NoLater(S, r, {})
        BY <1>0, ClockStarted
    <2> HIDE DEF r
    <2>3. r.gathered = <<>> /\ Holds(r.seq, Internal)
        BY <1>0, <1>2, <1>4, <2>2, SNow
    <2> QED BY <1>0, <1>3, <1>4, <2>1, <2>2, <2>3
<1>5. CASE calb # Internal
    <2> DEFINE s1 == Cancelled(Migrated(S, Line, 1), Line)
               s2 == Activated(s1, Internal, TickSize)
               r  == Activated(s2, Line, TickSize)
    <2>1. Turns(r) /\ ticks' = 1 /\ calb' = Internal
        BY <1>5 DEF clk_reset
    <2>2. Tidy(s1) /\ s1.cosched = <<>> /\ s1.gathered = <<>>
        BY <1>0, ClockLeft
    <2> HIDE DEF s1
    <2>3. Tidy(s2) /\ s2.cosched = <<>> /\ s2.gathered = <<>> /\ Holds(s2.seq, Internal)
        BY <2>2, ClockStarted DEF Steady
    <2> HIDE DEF s2
    <2>4. /\ Tidy(r) /\ r.cosched = <<>> /\ r.gathered = <<>>
          /\ Holds(r.seq, Internal) /\ Holds(r.seq, Line)
        BY <2>3, ClockStarted DEF Steady
    <2> HIDE DEF r
    <2>5. Rising(r) /\ NoLater(S, r, {})
        BY <2>4, EmptyList
    <2> QED BY <1>3, <2>1, <2>4, <2>5
<1> QED BY <1>4, <1>5

(* What a tick gathers from. *)
TickFrom(s) ==
    /\ Tidy(s) /\ s.gathered = <<>> /\ Rising(s) /\ Timely(s, due)
    /\ \A v : Holds(s.cosched, v) => InSeq(v, cosched)
    /\ Holds(s.seq, Line) /\ Holds(s.seq, running)

LEMMA TickStarts ==
    ASSUME HInv, phase = "service", running \in {Line, Internal}
    PROVE  \E s : /\ TickFrom(s)
                  /\ (IF running = Line THEN LineTick ELSE InternalTick) = Gather(s)
<1>0. /\ Tidy(S) /\ Rising(S) /\ Timely(S, due) /\ gathered = <<>>
      /\ calb \in {Line, Internal}
    BY DEF HInv, Control
<1>1. ASSUME NEW c \in {Line, Internal}, c = running,
             c = Internal => Holds(queue, Line)
      PROVE  TickFrom(Activated(S, c, TickSize))
    <2> DEFINE s == Activated(S, c, TickSize)
    <2>1. /\ Tidy(s) /\ Steady(S, s) /\ s.gathered = S.gathered
          /\ Holds(s.seq, c)
          /\ \A v : Holds(S.seq, v) => Holds(s.seq, v)
          /\ Rising(s)
        BY <1>0, ClockStarted
    <2> HIDE DEF s
    <2>2. Left(s) = Left(S) /\ s.cosched = S.cosched
        BY <1>0, <2>1, SteadyLeft DEF Steady
    <2>3. Timely(s, due)
        BY <1>0, <2>2 DEF Timely
    <2>4. s.gathered = <<>> /\ \A v : Holds(s.cosched, v) => InSeq(v, cosched)
        BY <1>0, <2>1, <2>2, SNow DEF Holds, InSeq
    <2>5. Holds(s.seq, Line)
        BY <1>1, <2>1, SNow
    <2>6. TickFrom(s)
        BY <1>1, <2>1, <2>3, <2>4, <2>5 DEF TickFrom
    <2> QED BY <2>6 DEF s
<1>2. CASE running = Internal
    <2>1. Holds(queue, Line)
        BY <1>2, UnitsAre, ClocksNow
    <2>2. (IF running = Line THEN LineTick ELSE InternalTick)
              = Gather(Activated(S, Internal, TickSize))
        BY <1>2, UnitsAre DEF InternalTick
    <2> QED BY <1>1, <1>2, <2>1, <2>2
<1>3. CASE running = Line /\ calb = Line
    <2>1. LineTick = Gather(Activated(S, Line, TickSize))
        BY <1>3 DEF LineTick
    <2> QED BY <1>1, <1>3, <2>1, UnitsAre
<1>4. CASE running = Line /\ calb # Line
    <2> DEFINE s1 == Cancelled(Migrated(S, Internal, 0), Internal)
               s  == Activated(s1, Line, TickSize)
    <2>1. LineTick = Gather(s)
        BY <1>4 DEF LineTick
    <2>2. Tidy(s1) /\ s1.cosched = <<>> /\ s1.gathered = <<>>
        BY <1>0, ClockLeft
    <2> HIDE DEF s1
    <2>3. Tidy(s) /\ s.cosched = <<>> /\ s.gathered = <<>> /\ Holds(s.seq, Line)
        BY <2>2, ClockStarted DEF Steady
    <2> HIDE DEF s
    <2>4. Rising(s) /\ \A v : ~Holds(s.cosched, v)
        BY <2>3, EmptyList, NoneHeld
    <2>5. Timely(s, due)
        <3>1. 1 .. Len(s.cosched) = {}
            <4> Len(s.cosched) = 0
                BY <2>3, EmptySeq
            <4> QED OBVIOUS
        <3> QED BY <1>0, <3>1 DEF Timely
    <2>6. TickFrom(s)
        BY <1>4, <2>3, <2>4, <2>5 DEF TickFrom
    <2> QED BY <1>4, <2>1, <2>6
<1> QED BY <1>2, <1>3, <1>4

LEMMA TickKeeps ==
    ASSUME HInv, TickService, Counts({})
    PROVE  HInv' /\ \A u \in Device : InSeq(u, cosched') => due'[u] > 0
<1>0. /\ phase = "service" /\ running \in {Line, Internal} /\ phase' = "tick"
      /\ calb' = running /\ running' = running
      /\ ticks' = IF running = calb THEN (ticks + 1) % Hz ELSE 1
      /\ ticks \in Int
    BY DEF TickService, HInv, Control
<1>1. PICK s : /\ TickFrom(s)
               /\ (IF running = Line THEN LineTick ELSE InternalTick) = Gather(s)
    BY <1>0, TickStarts
<1> DEFINE r == Gather(s)
<1>2. Turns(r)
    BY <1>1 DEF TickService
<1>3. Tidy(r) /\ r.seq = s.seq /\ Rising(r) /\ Ticked(s, r)
    BY <1>1, GatherTidy DEF TickFrom, GatherEffect
<1> HIDE DEF r
<1>4. S' = r
    BY <1>2, <1>3, TurnsTo DEF Tidy
<1>5. Ticks
    BY <1>0 DEF Ticks
<1>6. Timely(r, due') /\ \A u \in Device : InSeq(u, cosched') => due'[u] > 0
    <2>1. cosched' = r.cosched
        BY <1>4, SThen
    <2>2. Tidy(s) /\ Timely(s, due) /\ \A v : Holds(s.cosched, v) => InSeq(v, cosched)
        BY <1>1 DEF TickFrom
    <2> QED BY <1>3, <1>5, <2>1, <2>2, CountsTick
<1>7. ClockRuns'
    <2>1. Holds(r.seq, Line) /\ Holds(r.seq, running)
        BY <1>1, <1>3 DEF TickFrom
    <2> QED BY <1>0, <1>4, <2>1, ClocksThen
<1>8. ticks' \in Int
    <2> Hz \in Nat \ {0}
        BY ClockCoschedAssumption
    <2> (ticks + 1) % Hz \in Int
        BY <1>0
    <2> QED BY <1>0
<1>9. Control'
    BY <1>0, <1>7, <1>8 DEF Control
<1> QED BY <1>3, <1>4, <1>6, <1>9 DEF HInv

(* The units a tick has gathered are let go one by one. *)
LEMMA ReleasedTidy ==
    ASSUME NEW s, Tidy(s), s.gathered # <<>>,
           NEW r, r = [s EXCEPT !.hooked = @ \ {Head(s.gathered)},
                                !.time[Head(s.gathered)] = 0, !.gathered = Tail(@)]
    PROVE  /\ Tidy(r) /\ Steady(s, r) /\ Head(s.gathered) \in Device
           /\ r.seq = s.seq /\ r.usecs = s.usecs
<1> DEFINE g == s.gathered
           u == Head(g)
           w == Tail(g)
           t == [s.time EXCEPT ![u] = 0]
           h == s.hooked \ {u}
           k == [s EXCEPT !.hooked = h, !.time = t, !.gathered = w]
<1>1. /\ w \in Seq(Unit) /\ NoRepeat(w) /\ u \in Unit /\ Holds(g, u)
      /\ \A v : Holds(w, v) <=> v # u /\ Holds(g, v)
    BY TailShape DEF Tidy, ClockType
<1>2. t \in [Unit -> Int] /\ \A v \in Unit : v # u => t[v] = s.time[v]
    <2> HIDE DEF u
    <2> 0 \in Int
        OBVIOUS
    <2> QED BY <1>1 DEF Tidy, ClockType
<1>3. h \in SUBSET Unit /\ \A v : v \in h <=> v # u /\ v \in s.hooked
    BY DEF Tidy, ClockType
<1>4. r = k
    BY DEF Tidy, ClockType
<1> HIDE DEF t, w, u, h
<1>5. /\ k \in ClockType /\ k.seq = s.seq /\ k.time = t
      /\ k.cosched = s.cosched /\ k.cinterval = s.cinterval /\ k.hooked = h
      /\ k.usecs = s.usecs /\ k.gathered = w
    BY <1>1, <1>2, <1>3 DEF Tidy, ClockType
<1> HIDE DEF k
<1>6. Tidy(k)
    BY <1>1, <1>3, <1>5 DEF Tidy
<1>7. Steady(s, k)
    BY <1>1, <1>2, <1>5 DEF Steady, Tidy
<1>8. u \in Device
    BY <1>1 DEF Tidy
<1> QED BY <1>4, <1>5, <1>6, <1>7, <1>8 DEF u

LEMMA DispatchKeeps ==
    ASSUME HInv, TickDispatch, Counts({})
    PROVE  HInv'
<1>0. /\ Tidy(S) /\ Rising(S) /\ phase = "tick" /\ phase' = "tick" /\ running' = running
      /\ ticks' = ticks /\ calb' = calb /\ ticks \in Int /\ calb \in {Line, Internal}
      /\ gathered # <<>>
    BY DEF HInv, Control, TickDispatch
<1> DEFINE u == Head(gathered)
           s == [S EXCEPT !.hooked = @ \ {u}, !.time[u] = 0, !.gathered = Tail(@)]
           r == IF usecs[u] = 0 THEN _sim_activate(s, u, 0)
                ELSE sim_timer_activate_after(s, u, usecs[u])
<1>1. Turns(r)
    BY DEF TickDispatch
<1>2. /\ Tidy(s) /\ Steady(S, s) /\ u \in Device /\ s.seq = queue
    <2>1. S.gathered # <<>> /\ Head(S.gathered) = u /\ S.seq = queue
        BY <1>0, SNow
    <2>2. s = [S EXCEPT !.hooked = @ \ {Head(S.gathered)},
                        !.time[Head(S.gathered)] = 0, !.gathered = Tail(@)]
        BY <2>1
    <2> HIDE DEF s
    <2>3. Tidy(s) /\ Steady(S, s) /\ Head(S.gathered) \in Device /\ s.seq = S.seq
        BY <1>0, <2>1, <2>2, ReleasedTidy
    <2> QED BY <2>1, <2>3
<1>3. ~Holds(s.cosched, u) /\ ~Holds(s.gathered, u)
    <2>1. s.cosched = S.cosched /\ s.gathered = Tail(S.gathered)
        BY SNow DEF S
    <2>2. S.gathered \in Seq(Unit) /\ S.gathered # <<>> /\ NoRepeat(S.gathered)
          /\ Head(S.gathered) = u
        BY <1>0, SNow DEF Tidy, ClockType
    <2>3. Holds(S.gathered, u) /\ ~Holds(Tail(S.gathered), u)
        BY <2>2, TailShape
    <2> QED BY <1>0, <2>1, <2>3 DEF Tidy
<1>4. usecs[u] \in Int
    BY <1>0, <1>2, UnitsAre, SNow DEF Tidy, ClockType
<1> HIDE DEF s
<1>5. Moves(s, r, u)
    <2>1. CASE usecs[u] = 0
        <3>1. Moves(s, _sim_activate(s, u, 0), u)
            BY <1>2, <1>3, UnitsAre, QueuedTidy
        <3> QED BY <2>1, <3>1
    <2>2. CASE usecs[u] # 0
        <3>1. Moves(s, sim_timer_activate_after(s, u, usecs[u]), u)
            BY <1>0, <1>2, <1>4, AfterTidy
        <3> QED BY <2>2, <3>1
    <2> QED BY <2>1, <2>2
<1> HIDE DEF r
<1>6. Tidy(r) /\ \A v : Holds(queue, v) => Holds(r.seq, v)
    BY <1>2, <1>5 DEF Moves
<1>7. S' = r
    BY <1>1, <1>6, TurnsTo DEF Tidy
<1>8. Rising(r) /\ NoLater(S, r, {})
    <2>1. Left(s) = Left(S) /\ s.cosched = S.cosched
        BY <1>0, <1>2, SteadyLeft DEF Steady
    <2>2. Rising(s)
        BY <1>0, <2>1 DEF Rising
    <2>3. Rising(r) /\ NoLater(s, r, {})
        BY <1>5, <2>2 DEF Moves
    <2> QED BY <2>1, <2>3 DEF NoLater
<1>9. ClockRuns'
    <2> SUFFICES ASSUME NEW c \in {Line, calb} PROVE Holds(r.seq, c)
        BY <1>0, <1>7, ClocksThen
    <2> QED BY <1>0, <1>6, ClocksNow
<1>10. Control'
    BY <1>0, <1>9 DEF Control
<1>11. ~Ticks
    BY <1>0 DEF Ticks
<1> QED BY <1>6, <1>7, <1>8, <1>10, <1>11, StepKeeps

LEMMA RequeueKeeps ==
    ASSUME HInv, Requeue, Counts({})
    PROVE  HInv'
<1>0. /\ Tidy(S) /\ Rising(S) /\ phase = "requeue" /\ phase' = "requeued"
      /\ running' = running /\ ticks' = ticks /\ calb' = calb
      /\ ticks \in Int /\ calb \in {Line, Internal}
      /\ running \in Device /\ gathered = <<>>
    BY DEF HInv, Control, Requeue
<1> DEFINE r == sim_timer_activate_after(S, running, usecs[running])
<1>1. Turns(r)
    BY DEF Requeue
<1>2. usecs[running] \in Int
    BY <1>0, UnitsAre, SNow DEF Tidy, ClockType
<1>3. Moves(S, r, running)
    BY <1>0, <1>2, AfterTidy
<1> HIDE DEF r
<1>4. /\ Tidy(r) /\ r.gathered = <<>> /\ Rising(r) /\ NoLater(S, r, {})
      /\ \A v : Holds(queue, v) => Holds(r.seq, v)
    BY <1>0, <1>3, SNow DEF Moves
<1>5. S' = r
    BY <1>1, <1>4, TurnsTo DEF Tidy
<1>6. ClockRuns'
    <2> SUFFICES ASSUME NEW c \in {Line, calb} PROVE Holds(r.seq, c)
        BY <1>0, <1>5, ClocksThen
    <2> QED BY <1>0, <1>4, ClocksNow
<1>7. gathered' = <<>>
    BY <1>4, <1>5, SThen
<1>8. Control'
    BY <1>0, <1>6, <1>7 DEF Control
<1>9. ~Ticks
    BY <1>0 DEF Ticks
<1> QED BY <1>4, <1>5, <1>8, <1>9, StepKeeps

(* The loop and the returns: the lists are as they were. *)
LEMMA LoopKeeps ==
    ASSUME HInv, Counts({}), NEW x \in Int, simInterval' = x,
           UNCHANGED <<queue, time, cvars>>, ~Ticks,
           phase' \in {"fetch", "exec", "drain"},
           phase # "tick" \/ gathered = <<>>,
           running \in Device \/ phase # "service"
    PROVE  HInv'
<1> DEFINE r == [S EXCEPT !.interval = x]
<1>0. Tidy(S) /\ Rising(S) /\ calb \in {Line, Internal} /\ ticks \in Int /\ gathered = <<>>
    BY DEF HInv, Control
<1>1. S' = r
    BY DEF S, cvars
<1>2. ticks' = ticks /\ calb' = calb /\ gathered' = gathered
    BY DEF cvars
<1>3. r.seq = queue
    BY SNow DEF S
<1>4. Tidy(r) /\ Steady(S, r)
    BY <1>0, CountedTidy
<1> HIDE DEF r
<1>5. Rising(r) /\ NoLater(S, r, {})
    BY <1>0, <1>4, SteadyNoLater
<1>6. ClockRuns'
    <2> SUFFICES ASSUME NEW c \in {Line, calb} PROVE Holds(queue, c)
        BY <1>1, <1>2, <1>3, ClocksThen
    <2> QED BY <1>0, UnitsAre, ClocksNow
<1>7. Control'
    BY <1>0, <1>2, <1>6 DEF Control
<1> QED BY <1>1, <1>4, <1>5, <1>7, StepKeeps

LEMMA ReturnKeeps ==
    ASSUME HInv, Counts({}), NEW ok, Return(ok), UNCHANGED cvars,
           phase # "tick" \/ gathered = <<>>,
           running \in Device \/ phase # "service"
    PROVE  HInv'
<1>1. /\ simInterval' = IF queue = <<>> THEN NoQueueWait ELSE simInterval
      /\ phase' \in {"fetch", "drain"} /\ queue' = queue /\ time' = time
    BY DEF Return
<1>2. simInterval' \in Int
    <2> simInterval \in Int
        BY SNow DEF HInv, Tidy, ClockType
    <2> QED BY <1>1, EventQueueAssumption
<1>3. ~Ticks
    BY <1>1 DEF Ticks
<1>4. UNCHANGED <<queue, time, cvars>>
    BY <1>1
<1> QED BY <1>1, <1>2, <1>3, <1>4, LoopKeeps

LEMMA TakeKeeps ==
    ASSUME HInv, Counts({}), TakeFirst, UNCHANGED cvars,
           \/ phase' = "service"
           \/ phase' = "requeue" /\ usecs[Head(queue)] # 0
    PROVE  HInv'
<1>0. /\ Tidy(S) /\ Rising(S) /\ calb \in {Line, Internal} /\ ticks \in Int
      /\ phase \in {"fetch", "drain"} /\ gathered = <<>> /\ queue # <<>>
    BY DEF HInv, Control, TakeFirst, Expired
<1> DEFINE u == Head(queue)
           x == simInterval'
           r == [S EXCEPT !.seq = Tail(S.seq), !.time[Head(S.seq)] = 0, !.interval = x]
<1>1. /\ queue' = Tail(queue) /\ time' = [time EXCEPT ![u] = 0] /\ running' = u
      /\ simInterval' = IF Tail(queue) = <<>> THEN NoQueueWait
                        ELSE simInterval - time[u] + time[Head(Tail(queue))]
    BY DEF TakeFirst
<1>2. queue \in Seq(Unit) /\ NoRepeat(queue) /\ time \in [Unit -> Int] /\ simInterval \in Int
    BY <1>0, SNow DEF Tidy, ClockType
<1>3. /\ Tail(queue) \in Seq(Unit) /\ u \in Unit /\ Holds(queue, u)
      /\ \A v : Holds(Tail(queue), v) <=> v # u /\ Holds(queue, v)
    BY <1>0, <1>2, TailShape
<1>4. x \in Int
    <2>1. CASE Tail(queue) = <<>>
        BY <1>1, <2>1, EventQueueAssumption
    <2>2. CASE Tail(queue) # <<>>
        <3>1. Head(Tail(queue)) \in Unit
            BY <1>3, <2>2, HeadTailProperties
        <3>2. time[u] \in Int /\ time[Head(Tail(queue))] \in Int
            BY <1>2, <1>3, <3>1
        <3> HIDE DEF u
        <3> QED BY <1>1, <1>2, <2>2, <3>2
    <2> QED BY <2>1, <2>2
<1>5. S' = r
    <2> DEFINE w == Tail(queue)
               t == [time EXCEPT ![u] = 0]
    <2>1. S.seq = queue /\ S.time = time
        BY SNow
    <2>2. r = [S EXCEPT !.seq = w, !.time = t, !.interval = x]
        BY <2>1
    <2>3. queue' = w /\ time' = t
        BY <1>1
    <2> HIDE DEF w, t, r
    <2> QED BY <2>2, <2>3 DEF S, cvars
<1>6. S.seq = queue /\ r.seq = Tail(queue)
    BY SNow DEF S
<1>7. Tidy(r) /\ Steady(S, r)
    BY <1>0, <1>4, <1>6, DequeuedTidy
<1>8. ticks' = ticks /\ calb' = calb /\ gathered' = gathered
    BY DEF cvars
<1> HIDE DEF r, u, x
<1>9. Rising(r) /\ NoLater(S, r, {})
    BY <1>0, <1>7, SteadyNoLater
<1>10. phase' = "requeue" => u \in Device
    <2> SUFFICES ASSUME phase' = "requeue" PROVE u \in Device
        OBVIOUS
    <2>1. usecs[u] # 0
        BY DEF u
    <2>2. usecs[Line] = 0 /\ usecs[Internal] = 0
        BY <1>0, SNow DEF Tidy
    <2> QED BY <1>3, <2>1, <2>2, ClockCoschedAssumption
<1>11. ClockRuns'
    <2> SUFFICES ASSUME NEW c \in {Line, calb}
                 PROVE  Holds(Tail(queue), c) \/ (running' = c /\ phase' = "service")
        BY <1>5, <1>6, <1>8, ClocksThen
    <2>1. Holds(queue, c)
        BY <1>0, ClocksNow
    <2>2. c \notin Device
        BY <1>0, UnitsAre
    <2> QED BY <1>1, <1>3, <1>10, <2>1, <2>2
<1>12. Control'
    BY <1>0, <1>1, <1>3, <1>8, <1>10, <1>11 DEF Control
<1>13. ~Ticks
    BY <1>0 DEF Ticks
<1> QED BY <1>5, <1>7, <1>9, <1>12, <1>13, StepKeeps

LEMMA StepsKeep ==
    ASSUME HInv, CStep, Counts({})
    PROVE  HInv'
<1>0. simInterval \in Int /\ (phase # "tick" => gathered = <<>>)
    BY SNow DEF HInv, Control, Tidy, ClockType
<1>1. CASE Fetch /\ UNCHANGED cvars
    <2>1. /\ phase = "fetch" /\ phase' = "exec" /\ simInterval' = simInterval - 1
          /\ UNCHANGED <<queue, time, cvars>>
        BY <1>1 DEF Fetch
    <2>2. simInterval' \in Int /\ ~Ticks
        BY <1>0, <2>1 DEF Ticks
    <2> QED BY <2>1, <2>2, LoopKeeps
<1>2. CASE EndInstruction /\ UNCHANGED cvars
    <2>1. /\ phase = "exec" /\ phase' = "fetch" /\ simInterval' = simInterval
          /\ UNCHANGED <<queue, time, cvars>>
        BY <1>2 DEF EndInstruction
    <2>2. simInterval' \in Int /\ ~Ticks
        BY <1>0, <2>1 DEF Ticks
    <2> QED BY <2>1, <2>2, LoopKeeps
<1>3. CASE DispatchUnit /\ UNCHANGED cvars
    BY <1>3, TakeKeeps DEF DispatchUnit
<1>4. CASE DispatchWaiting /\ UNCHANGED cvars
    BY <1>4, TakeKeeps DEF DispatchWaiting
<1>5. CASE Requeue
    BY <1>5, RequeueKeeps
<1>6. CASE RequeueReturn
    <2> phase = "requeued" /\ Return(TRUE) /\ UNCHANGED cvars
        BY <1>6 DEF RequeueReturn
    <2> QED BY ReturnKeeps
<1>7. CASE DeviceReturn
    <2>1. phase = "service" /\ running \in Device /\ UNCHANGED cvars
        BY <1>7 DEF DeviceReturn, ReturnOK, ReturnError
    <2>2. Return(TRUE) \/ Return(FALSE)
        BY <1>7 DEF DeviceReturn, ReturnOK, ReturnError
    <2> QED BY <2>1, <2>2, ReturnKeeps
<1>8. CASE TickService
    BY <1>8, TickKeeps
<1>9. CASE TickDispatch
    BY <1>9, DispatchKeeps
<1>10. CASE TickReturn
    <2> phase = "tick" /\ gathered = <<>> /\ Return(TRUE) /\ UNCHANGED cvars
        BY <1>10 DEF TickReturn
    <2> QED BY ReturnKeeps
<1> QED BY <1>1, <1>2, <1>3, <1>4, <1>5, <1>6, <1>7, <1>8, <1>9, <1>10 DEF CStep

LEMMA HInvInit ==
    ASSUME HInit
    PROVE  HInv
<1>0. /\ queue = <<Internal, Line>> /\ cosched = <<>> /\ gathered = <<>>
      /\ time = [u \in Unit |-> IF u = Internal THEN TickSize ELSE 0]
      /\ simInterval = TickSize /\ phase = "fetch" /\ coschedInterval = 0
      /\ hooked = {} /\ usecs = [u \in Unit |-> 0] /\ ticks = 1 /\ calb = Internal
      /\ due = [u \in Device |-> 0]
    BY DEF HInit, CInit
<1>1. TickSize \in Int /\ 0 \in Int /\ 1 \in Int
    BY ClockCoschedAssumption
<1>2. /\ queue \in Seq(Unit) /\ Len(queue) = 2 /\ queue[1] = Internal /\ queue[2] = Line
      /\ cosched \in Seq(Unit) /\ gathered \in Seq(Unit)
    BY <1>0, UnitsAre, EmptySeq
<1>3. /\ S \in ClockType /\ S.seq = queue /\ S.cosched = <<>> /\ S.gathered = <<>>
      /\ S.hooked = {} /\ S.usecs[Line] = 0 /\ S.usecs[Internal] = 0
    <2>1. time \in [Unit -> Int] /\ usecs \in [Unit -> Int] /\ hooked \in SUBSET Unit
        BY <1>0, <1>1
    <2>2. S \in ClockType
        BY <1>0, <1>1, <1>2, <2>1 DEF S, ClockType
    <2> QED BY <1>0, <2>2, SNow, UnitsAre
<1>4. NoRepeat(queue) /\ NoRepeat(<<>>) /\ Holds(queue, Line) /\ Holds(queue, Internal)
    <2>1. NoRepeat(queue)
        BY <1>2, UnitsAre DEF NoRepeat
    <2>2. NoRepeat(<<>>)
        BY EmptySeq DEF NoRepeat
    <2>3. Holds(queue, Line) /\ Holds(queue, Internal)
        BY <1>2 DEF Holds
    <2> QED BY <2>1, <2>2, <2>3
<1>5. Tidy(S)
    BY <1>3, <1>4, NoneHeld DEF Tidy
<1>6. Rising(S)
    BY <1>3, EmptyList
<1>7. ClockRuns
    BY <1>0, <1>4, SNow DEF ClockRuns, Listed, Holds
<1>8. Control
    BY <1>0, <1>1, <1>7 DEF Control
<1>9. Timely(S, due)
    <2>1. due \in [Device -> Int]
        BY <1>0, <1>1
    <2>2. 1 .. Len(S.cosched) = {}
        <3> Len(S.cosched) = 0
            BY <1>3, EmptySeq
        <3> QED OBVIOUS
    <2> QED BY <2>1, <2>2 DEF Timely
<1> QED BY <1>5, <1>6, <1>8, <1>9 DEF HInv

LEMMA HInvNext ==
    ASSUME HInv, [HNext]_hvars
    PROVE  HInv'
<1>1. ASSUME UNCHANGED <<allvars, due>> PROVE HInv'
    <2> USE <1>1 DEF allvars, vars, cvars
    <2>1. S' = S
        BY DEF S
    <2>2. Control'
        BY <2>1 DEF HInv, Control, ClockRuns, Listed
    <2> QED BY <2>1, <2>2 DEF HInv
<1>2. CASE HCall
    <2>1. \/ Counts({}) /\ (\/ CallActivate \/ CallActivateAfter \/ CallCoschedule
                            \/ CallCancel \/ clk_reset \/ Periodic)
          \/ \E u \in Device : CallActivateAfterAbs(u) /\ Counts({u})
        BY <1>2 DEF HCall
    <2> QED BY <2>1, CallsKeep, ResetKeeps, AbsKeeps
<1>3. CASE HStep
    BY <1>3, StepsKeep DEF HStep
<1>4. CASE GoQuiet
    BY <1>1, <1>4 DEF GoQuiet
<1>5. CASE UNCHANGED hvars
    BY <1>1, <1>5 DEF hvars
<1> QED BY <1>2, <1>3, <1>4, <1>5 DEF HNext

LEMMA HInvAlways == HSpec => []HInv
<1>1. HInit => HInv
    BY HInvInit
<1>2. HInv /\ [HNext]_hvars => HInv'
    BY HInvNext
<1> QED BY <1>1, <1>2, PTL DEF HSpec

-----------------------------------------------------------------------------
(* What was concatenated without repetition repeats nothing. *)
LEMMA JoinedOnce ==
    ASSUME NEW U, NEW a \in Seq(U), NEW b \in Seq(U), NoRepeat(a), NoRepeat(b),
           \A v : ~(Holds(a, v) /\ Holds(b, v))
    PROVE  /\ a \o b \in Seq(U) /\ NoRepeat(a \o b)
           /\ \A v : Holds(a \o b, v) <=> Holds(a, v) \/ Holds(b, v)
<1> DEFINE K == Len(a)
           M == Len(b)
           c == a \o b
<1>1. /\ c \in Seq(U) /\ Len(c) = K + M /\ K \in Nat /\ M \in Nat
      /\ \A i \in 1 .. K + M : c[i] = IF i <= K THEN a[i] ELSE b[i - K]
    BY ConcatProperties, LenProperties
<1>2. /\ \A i \in 1 .. K : Holds(a, a[i])
      /\ \A i \in 1 .. M : Holds(b, b[i])
      /\ \A i, j \in 1 .. K : a[i] = a[j] => i = j
      /\ \A i, j \in 1 .. M : b[i] = b[j] => i = j
      /\ \A v : Holds(a, v) <=> \E i \in 1 .. K : a[i] = v
      /\ \A v : Holds(b, v) <=> \E i \in 1 .. M : b[i] = v
      /\ \A v : Holds(c, v) <=> \E i \in 1 .. Len(c) : c[i] = v
      /\ NoRepeat(c) <=> \A i, j \in 1 .. Len(c) : c[i] = c[j] => i = j
    BY DEF Holds, NoRepeat
<1> HIDE DEF c, K, M
<1>3. \A i \in 1 .. K + M : \/ i \in 1 .. K /\ c[i] = a[i]
                            \/ i - K \in 1 .. M /\ i > K /\ c[i] = b[i - K]
    BY <1>1
<1>4. NoRepeat(c)
    <2> SUFFICES ASSUME NEW i \in 1 .. K + M, NEW j \in 1 .. K + M, c[i] = c[j]
                 PROVE  i = j
        BY <1>1, <1>2
    <2>1. CASE i \in 1 .. K /\ c[i] = a[i] /\ j \in 1 .. K /\ c[j] = a[j]
        <3>1. a[i] = a[j] /\ i \in 1 .. K /\ j \in 1 .. K
            BY <2>1
        <3>2. \A m, n \in 1 .. K : a[m] = a[n] => m = n
            BY <1>2
        <3> QED BY <3>1, <3>2
    <2>2. CASE /\ i - K \in 1 .. M /\ i > K /\ c[i] = b[i - K]
               /\ j - K \in 1 .. M /\ j > K /\ c[j] = b[j - K]
        <3> i - K = j - K
            BY <1>2, <2>2
        <3> QED BY <1>1
    <2>3. ~(i \in 1 .. K /\ c[i] = a[i] /\ j - K \in 1 .. M /\ c[j] = b[j - K])
        BY <1>2
    <2>4. ~(j \in 1 .. K /\ c[j] = a[j] /\ i - K \in 1 .. M /\ c[i] = b[i - K])
        BY <1>2
    <2> QED BY <1>3, <2>1, <2>2, <2>3, <2>4
<1>5. ASSUME NEW v PROVE Holds(c, v) <=> Holds(a, v) \/ Holds(b, v)
    <2>1. ASSUME NEW i \in 1 .. K, a[i] = v PROVE Holds(c, v)
        <3> i \in 1 .. K + M /\ c[i] = v
            BY <1>1, <2>1
        <3> QED BY <1>1, <1>2
    <2>2. ASSUME NEW i \in 1 .. M, b[i] = v PROVE Holds(c, v)
        <3>1. i + K \in 1 .. K + M /\ ~(i + K <= K) /\ (i + K) - K = i
            BY <1>1
        <3> QED BY <1>1, <1>2, <2>2, <3>1
    <2>3. ASSUME Holds(c, v) PROVE Holds(a, v) \/ Holds(b, v)
        <3>1. PICK i \in 1 .. K + M : c[i] = v
            BY <1>1, <1>2, <2>3
        <3> QED BY <1>2, <1>3, <3>1
    <2> QED BY <1>2, <2>1, <2>2, <2>3
<1> QED BY <1>1, <1>4, <1>5 DEF c

LEMMA TidyOneList ==
    ASSUME Tidy(S)
    PROVE  OneList
<1>0. /\ queue \in Seq(Unit) /\ cosched \in Seq(Unit) /\ gathered \in Seq(Unit)
      /\ NoRepeat(queue) /\ NoRepeat(cosched) /\ NoRepeat(gathered)
      /\ \A v : Holds(cosched, v) => ~Holds(queue, v) /\ ~Holds(gathered, v)
      /\ \A v : Holds(gathered, v) => ~Holds(queue, v)
      /\ \A v : v \in hooked <=> Holds(cosched, v) \/ Holds(gathered, v)
    BY SNow DEF Tidy, ClockType
<1> DEFINE b == queue \o cosched
           all == b \o gathered
           w == cosched \o gathered
<1>1. b \in Seq(Unit) /\ NoRepeat(b) /\ \A v : Holds(b, v) <=> Holds(queue, v) \/ Holds(cosched, v)
    BY <1>0, JoinedOnce
<1>2. \A v : Holds(w, v) <=> Holds(cosched, v) \/ Holds(gathered, v)
    BY <1>0, JoinedOnce
<1>3. NoRepeat(all)
    <2> HIDE DEF b
    <2> QED BY <1>0, <1>1, JoinedOnce
<1>4. \A i, j \in 1 .. Len(all) : all[i] = all[j] => i = j
    BY <1>3 DEF NoRepeat
<1>5. \A u \in Unit : u \in hooked <=> InSeq(u, w)
    BY <1>0, <1>2 DEF InSeq, Holds
<1> QED BY <1>4, <1>5 DEF OneList

(* At any time every unit, of any devices, is linked in at most one list   *)
(* and once, and is hooked exactly while it waits for a tick.              *)
THEOREM OneListKept == HSpec => []OneList
<1>1. HInv => OneList
    BY TidyOneList DEF HInv
<1> QED BY <1>1, HInvAlways, PTL

(* No reset, switch of clocks or cancellation stops the clock in use or    *)
(* the line clock.                                                         *)
THEOREM ClocksRun == HSpec => []ClockRuns
<1>1. HInv => ClockRuns
    BY DEF HInv, Control
<1> QED BY <1>1, HInvAlways, PTL

(* After a tick no unit stays on the tick list beyond the tick it was      *)
(* asked to wait for, for any tick size and any waits.                     *)
THEOREM TickNeverMissed == HSpec => NoTickMissed
<1> DEFINE A == Ticks => \A u \in Device : InSeq(u, cosched') => due'[u] > 0
<1>1. HInv /\ [HNext]_hvars => [A]_hvars
    <2> SUFFICES ASSUME HInv, HNext, Ticks PROVE A
        OBVIOUS
    <2>1. phase = "service" /\ phase' = "tick"
        BY DEF Ticks
    <2>2. CStep /\ Counts({})
        <3>1. ASSUME NEW r, Calls(r) PROVE FALSE
            BY <2>1, <3>1 DEF Calls
        <3>2. ~HCall
            BY <2>1, <3>1 DEF HCall, CallActivate, CallActivateAfter, CallCoschedule,
               CallCancel, clk_reset, CallActivateAfterAbs, Periodic
        <3>3. ~GoQuiet
            BY <2>1 DEF GoQuiet, allvars, vars
        <3> QED BY <3>2, <3>3 DEF HNext, HStep
    <2>3. TickService
        BY <2>1, <2>2 DEF CStep, Fetch, EndInstruction, DispatchUnit, DispatchWaiting, Requeue,
           RequeueReturn, DeviceReturn, ReturnOK, ReturnError, Return, TickDispatch, TickReturn
    <2> QED BY <2>2, <2>3, TickKeeps
<1>2. HSpec => [][A]_hvars
    BY <1>1, HInvAlways, PTL DEF HSpec
<1> QED BY <1>2 DEF NoTickMissed
=============================================================================
