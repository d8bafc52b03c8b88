-------------------------- MODULE EventQueueProofs --------------------------
(***************************************************************************)
(* The invariants of the event queue, for any units, delays and wait of an *)
(* empty queue.  None of them is inductive alone: the countdown is only    *)
(* bounded because the head and the unit behind it are different units,    *)
(* and an insertion only leaves natural deltas where all were natural.     *)
(* Sound is their conjunction for a queue with its countdown.              *)
(***************************************************************************)
EXTENDS MCEventQueue, DeltaListProofs

QueueType == [seq : Seq(Unit), time : [Unit -> Int], interval : Int]

Sound(q) ==
    /\ q \in QueueType
    /\ NoRepeat(q.seq)
    /\ \A v \in Unit : ~Holds(q.seq, v) => q.time[v] = 0
    /\ \A v \in Unit : q.time[v] >= 0
    /\ q.seq # <<>> => q.interval <= q.time[Head(q.seq)]

(* Between two service routines of one call the countdown is spent. *)
DrainsExpired == phase = "drain" => simInterval <= 0

IInv == TypeOK /\ WellLinked /\ CountdownBounded /\ DrainsExpired

-----------------------------------------------------------------------------
(* The calls of device code keep a queue sound. *)

LEMMA ActivateSound ==
    ASSUME NEW q, Sound(q), NEW u \in Unit, NEW d \in Nat
    PROVE  Sound(_sim_activate(q, u, d))
<1>1. CASE Listed(q, u)
    BY <1>1 DEF _sim_activate
<1>2. CASE ~Listed(q, u)
    <2> DEFINE s == Linked(q.seq, q.time, u, d)
               t == LinkedTime(q.seq, q.time, u, d)
               r == [q EXCEPT !.seq = s, !.time = t, !.interval = t[Head(s)]]
    <2>1. /\ q.seq \in Seq(Unit) /\ q.time \in [Unit -> Int] /\ NoRepeat(q.seq)
          /\ \A v \in Unit : q.time[v] >= 0
          /\ ~Holds(q.seq, u)
        BY <1>2 DEF Sound, QueueType, Listed, Holds
    <2>2. With(Unit, q.seq, q.time, u, s, t)
        <3> d \in Int /\ d >= 0
            OBVIOUS
        <3> QED BY <2>1, LinkKeeps
    <2> HIDE DEF s, t
    <2>3. Head(s) \in Unit /\ t[Head(s)] \in Int
        BY <2>2, HeadTailProperties DEF With, Joined
    <2>4. r \in QueueType /\ r.seq = s /\ r.time = t /\ r.interval = t[Head(s)]
        BY <2>2, <2>3 DEF Sound, QueueType, With, Joined
    <2>5. _sim_activate(q, u, d) = r
        BY <1>2 DEF _sim_activate, s, t
    <2> HIDE DEF r
    <2>6. Sound(r)
        <3>1. \A v \in Unit : ~Holds(s, v) => t[v] = 0
            BY <2>2 DEF Sound, With, Joined
        <3>2. r.interval <= r.time[Head(r.seq)]
            BY <2>3, <2>4
        <3> QED BY <2>2, <2>4, <3>1, <3>2 DEF Sound, With, Joined
    <2> QED BY <2>5, <2>6
<1> QED BY <1>1, <1>2

LEMMA CancelSound ==
    ASSUME NEW q, Sound(q), NEW u \in Unit
    PROVE  Sound(sim_cancel(q, u))
<1>1. CASE ~Listed(q, u)
    BY <1>1 DEF sim_cancel
<1>2. CASE Listed(q, u)
    <2> DEFINE s == Unlinked(q.seq, u)
               t == [UnlinkedTime(q.seq, q.time, u) EXCEPT ![u] = 0]
               w == IF s = <<>> THEN NoQueueWait ELSE t[Head(s)]
               r == [q EXCEPT !.seq = s, !.time = t, !.interval = w]
    <2>1. /\ q.seq \in Seq(Unit) /\ q.time \in [Unit -> Int] /\ NoRepeat(q.seq)
          /\ \A v \in Unit : q.time[v] >= 0
          /\ Holds(q.seq, u)
        BY <1>2 DEF Sound, QueueType, Listed, Holds
    <2>2. Without(Unit, q.seq, q.time, u, s, t)
        BY <2>1, UnlinkKeeps
    <2> HIDE DEF s, t
    <2>3. s # <<>> => Head(s) \in Unit /\ t[Head(s)] \in Int
        BY <2>2, HeadTailProperties DEF Without, Parted
    <2>4. w \in Int
        BY <2>3, EventQueueAssumption
    <2>5. r \in QueueType /\ r.seq = s /\ r.time = t /\ r.interval = w
        <3> HIDE DEF w
        <3> QED BY <2>2, <2>4 DEF Sound, QueueType, Without, Parted
    <2>6. sim_cancel(q, u) = r
        BY <1>2 DEF sim_cancel, s, t
    <2> HIDE DEF r
    <2>7. Sound(r)
        <3>1. \A v \in Unit : ~Holds(s, v) => t[v] = 0
            BY <2>2 DEF Sound, Without, Parted
        <3>2. s # <<>> => r.interval <= r.time[Head(r.seq)]
            BY <2>3, <2>5
        <3> QED BY <2>2, <2>5, <3>1, <3>2 DEF Sound, Without, Parted
    <2> QED BY <2>6, <2>7
<1> QED BY <1>1, <1>2

(* A call that replaces the queue by a sound one keeps the invariant. *)
LEMMA BecomesKeeps ==
    ASSUME IInv, InDeviceCode, NEW q, Sound(q), Becomes(q), UNCHANGED <<phase, running>>
    PROVE  IInv'
<1>1. queue' = q.seq /\ time' = q.time /\ simInterval' = q.interval
    BY DEF Becomes
<1>2. TypeOK'
    BY <1>1 DEF IInv, TypeOK, Sound, QueueType
<1>3. WellLinked'
    BY <1>1 DEF WellLinked, IsActive, Sound, NoRepeat, Holds
<1>4. CountdownBounded'
    BY <1>1 DEF CountdownBounded, Sound
<1>5. DrainsExpired'
    BY DEF DrainsExpired, InDeviceCode
<1> QED BY <1>2, <1>3, <1>4, <1>5 DEF IInv

LEMMA InitSound == Init => IInv
<1> SUFFICES ASSUME Init PROVE IInv
    OBVIOUS
<1>1. TypeOK
    BY EventQueueAssumption DEF Init, TypeOK
<1> QED BY <1>1 DEF Init, IInv, WellLinked, CountdownBounded, DrainsExpired

(* sim_process_event takes the head off: the unit behind it is another one, *)
(* so its delta is not cleared and still bounds the countdown.              *)
LEMMA TakeFirstKeeps ==
    ASSUME IInv, TakeFirst, phase' = "service"
    PROVE  IInv'
<1> DEFINE u == Head(queue)
           rest == Tail(queue)
           L == Len(queue)
<1>1. /\ queue \in Seq(Unit) /\ queue # <<>> /\ time \in [Unit -> Int]
      /\ simInterval \in Int /\ simInterval <= time[u]
      /\ \A i, j \in 1 .. L : queue[i] = queue[j] => i = j
      /\ \A v \in Unit : time[v] >= 0
      /\ \A v \in Unit : ~IsActive(v) => time[v] = 0
    BY DEF IInv, TypeOK, WellLinked, CountdownBounded, TakeFirst
<1>2. /\ u \in Unit /\ u = queue[1] /\ rest \in Seq(Unit) /\ Len(rest) = L - 1
      /\ L \in Nat /\ L >= 1
      /\ \A i \in 1 .. L - 1 : rest[i] = queue[i + 1]
    BY <1>1, HeadTailProperties, LenProperties, EmptySeq
<1>3. /\ queue' = rest /\ time' = [time EXCEPT ![u] = 0] /\ running' = u
      /\ simInterval' = IF rest = <<>> THEN NoQueueWait
                        ELSE simInterval - time[u] + time[Head(rest)]
    BY DEF TakeFirst
<1> HIDE DEF rest, u, L
<1>4. ASSUME rest # <<>> PROVE Head(rest) \in Unit /\ Head(rest) # u
    <2>1. Len(rest) >= 1 /\ Head(rest) = rest[1] /\ Head(rest) \in Unit
        BY <1>2, <1>4, HeadTailProperties, EmptySeq
    <2>2. 2 \in 1 .. L /\ 1 \in 1 .. L - 1 /\ 1 + 1 = 2 /\ 1 \in 1 .. L
        BY <1>2, <2>1
    <2>3. rest[1] = queue[2]
        BY <1>2, <2>2
    <2> QED BY <1>1, <1>2, <2>1, <2>2, <2>3
<1>5. simInterval' \in Int
    BY <1>1, <1>2, <1>3, <1>4, EventQueueAssumption
<1>6. TypeOK'
    BY <1>1, <1>2, <1>3, <1>5 DEF TypeOK
<1>7. \A i, j \in 1 .. L - 1 : rest[i] = rest[j] => i = j
    <2> SUFFICES ASSUME NEW i \in 1 .. L - 1, NEW j \in 1 .. L - 1, rest[i] = rest[j]
                 PROVE  i = j
        OBVIOUS
    <2>1. i + 1 \in 1 .. L /\ j + 1 \in 1 .. L /\ queue[i + 1] = queue[j + 1]
        BY <1>2
    <2> QED BY <1>1, <2>1
<1>8. ASSUME NEW v \in Unit, v # u, IsActive(v)
      PROVE  \E i \in 1 .. L - 1 : rest[i] = v
    <2>1. PICK k \in 1 .. L : queue[k] = v
        BY <1>8 DEF IsActive, L
    <2>2. k # 1
        BY <1>2, <1>8, <2>1
    <2>3. k - 1 \in 1 .. L - 1 /\ (k - 1) + 1 = k
        BY <1>2, <2>2
    <2> QED BY <1>2, <2>1, <2>3
<1>9. WellLinked'
    <2>1. \A v \in Unit : ~IsActive(v)' => time'[v] = 0
        <3> SUFFICES ASSUME NEW v \in Unit, ~IsActive(v)' PROVE time'[v] = 0
            OBVIOUS
        <3>1. v = u \/ ~IsActive(v)
            BY <1>2, <1>3, <1>8 DEF IsActive
        <3> QED BY <1>1, <1>3, <3>1
    <2> QED BY <1>2, <1>3, <1>7, <2>1 DEF WellLinked
<1>11. CountdownBounded'
    <2> SUFFICES ASSUME rest # <<>> PROVE simInterval' <= time'[Head(rest)]
        BY <1>3 DEF CountdownBounded
    <2>1. Head(rest) \in Unit /\ Head(rest) # u
        BY <1>4
    <2>2. time'[Head(rest)] = time[Head(rest)] /\ time[Head(rest)] \in Int /\ time[u] \in Int
        BY <1>1, <1>2, <1>3, <2>1
    <2> QED BY <1>1, <1>3, <2>2
<1> QED BY <1>6, <1>9, <1>11 DEF IInv, DrainsExpired

-----------------------------------------------------------------------------
LEMMA IInvSound == IInv => Sound(Q)
BY DEF IInv, Sound, Q, QueueType, TypeOK, WellLinked, CountdownBounded,
       NoRepeat, Holds, IsActive

LEMMA StepKeeps == IInv /\ [Next]_vars => IInv'
<1> SUFFICES ASSUME IInv, [Next]_vars PROVE IInv'
    OBVIOUS
<1>0. Sound(Q)
    BY IInvSound
<1>d. \A d \in Delays : d \in Nat
    BY EventQueueAssumption
<1>1. CASE Activate
    <2>1. PICK u \in Unit, d \in Delays : Becomes(_sim_activate(Q, u, d))
        BY <1>1 DEF Activate
    <2>2. Sound(_sim_activate(Q, u, d))
        BY <1>0, <1>d, ActivateSound
    <2> QED BY <1>1, <2>1, <2>2, BecomesKeeps DEF Activate
<1>2. CASE ActivateAbs
    <2>1. PICK u \in Unit, d \in Delays : Becomes(sim_activate_abs(Q, u, d))
        BY <1>2 DEF ActivateAbs
    <2>2. Sound(sim_activate_abs(Q, u, d))
        BY <1>0, <1>d, CancelSound, ActivateSound DEF sim_activate_abs
    <2> QED BY <1>2, <2>1, <2>2, BecomesKeeps DEF ActivateAbs
<1>3. CASE ActivateNotBefore
    <2>1. PICK u \in Unit, d \in Delays : Becomes(sim_activate_notbefore(Q, u, d))
        BY <1>3 DEF ActivateNotBefore
    <2>2. Sound(sim_activate_notbefore(Q, u, d))
        <3> DEFINE e == IF d < sim_grtime THEN 0 ELSE d - sim_grtime
        <3>1. e \in Nat
            BY <1>d DEF sim_grtime
        <3> HIDE DEF e
        <3>2. Sound(_sim_activate(sim_cancel(Q, u), u, e))
            BY <1>0, <3>1, CancelSound, ActivateSound
        <3> QED BY <3>2 DEF sim_activate_notbefore, e
    <2> QED BY <1>3, <2>1, <2>2, BecomesKeeps DEF ActivateNotBefore
<1>4. CASE Cancel
    <2>1. PICK u \in Unit : Becomes(sim_cancel(Q, u))
        BY <1>4 DEF Cancel
    <2>2. Sound(sim_cancel(Q, u))
        BY <1>0, CancelSound
    <2> QED BY <1>4, <2>1, <2>2, BecomesKeeps DEF Cancel
<1>5. CASE Fetch
    <2>1. simInterval \in Int /\ simInterval' \in Int /\ simInterval' <= simInterval
        BY <1>5 DEF Fetch, IInv, TypeOK
    <2>2. TypeOK'
        BY <1>5, <2>1 DEF Fetch, IInv, TypeOK
    <2>3. WellLinked'
        BY <1>5 DEF Fetch, IInv, WellLinked, IsActive
    <2>4. CountdownBounded'
        <3> SUFFICES ASSUME queue # <<>> PROVE simInterval' <= time[Head(queue)]
            BY <1>5 DEF Fetch, CountdownBounded
        <3>1. Head(queue) \in Unit
            BY HeadTailProperties DEF IInv, TypeOK
        <3>2. time[Head(queue)] \in Int /\ simInterval <= time[Head(queue)]
            BY <3>1 DEF IInv, TypeOK, CountdownBounded
        <3> QED BY <2>1, <3>2
    <2> QED BY <1>5, <2>2, <2>3, <2>4 DEF IInv, DrainsExpired, Fetch
<1>6. CASE EndInstruction
    BY <1>6 DEF EndInstruction, IInv, TypeOK, WellLinked,
                CountdownBounded, DrainsExpired, IsActive
<1>7. CASE QueueEmpty
    BY <1>7, EventQueueAssumption DEF QueueEmpty, Expired, IInv, TypeOK, WellLinked,
                CountdownBounded, DrainsExpired, IsActive
<1>8. CASE Dispatch
    BY <1>8, TakeFirstKeeps DEF Dispatch
<1>9. ASSUME NEW ok \in BOOLEAN, Return(ok) PROVE IInv'
    BY <1>9, EventQueueAssumption DEF Return, IInv, TypeOK, WellLinked,
                CountdownBounded, DrainsExpired, IsActive
<1>10. CASE ReturnOK
    BY <1>9, <1>10 DEF ReturnOK
<1>11. CASE ReturnError
    BY <1>9, <1>11 DEF ReturnError
<1>12. CASE UNCHANGED vars
    BY <1>12 DEF vars, IInv, TypeOK, WellLinked, CountdownBounded, DrainsExpired, IsActive
<1> QED BY <1>1, <1>2, <1>3, <1>4, <1>5, <1>6, <1>7, <1>8, <1>10, <1>11, <1>12
       DEF Next, Step, DeviceCall

(* All of it holds in every reachable state. *)
LEMMA Inductive == Spec => []IInv
BY InitSound, StepKeeps, PTL DEF Spec

(* The variables keep their types, for any set of units and delays; among  *)
(* them the deltas, that no insertion or cancellation makes negative.      *)
THEOREM EventQueueTypes == Spec => []TypeOK
BY Inductive, PTL DEF IInv

(* The event queue of sim_evtq.c is one list without repetition, and what  *)
(* is off the list carries no delta, whatever is queued and cancelled in   *)
(* whatever order.                                                         *)
THEOREM EventQueueLinked == Spec => []WellLinked
BY Inductive, PTL DEF IInv

(* sim_interval never exceeds the first unit's delta. *)
THEOREM EventQueueCountdown == Spec => []CountdownBounded
BY Inductive, PTL DEF IInv

-----------------------------------------------------------------------------
(* The refinement.  The time a unit waits is the sum of the deltas up to   *)
(* its place; what an edit of the list does to these sums is in            *)
(* DeltaListProofs.                                                        *)
Waits(seq, time_) ==
    [u \in Unit |-> IF Holds(seq, u) THEN Key(seq, time_, u) ELSE 0]

LEMMA WaitsAt ==
    ASSUME NEW seq \in Seq(Unit), NEW t \in [Unit -> Int], NoRepeat(seq),
           NEW i \in 1 .. Len(seq)
    PROVE  Waits(seq, t)[seq[i]] = Accum(seq, t)[i]
<1>1. seq[i] \in Unit /\ Holds(seq, seq[i])
    BY ElementOfSeq DEF Holds
<1>2. Key(seq, t, seq[i]) = Accum(seq, t)[i]
    BY KeyAt
<1> QED BY <1>1, <1>2 DEF Waits

(* Fits of TimedQueue, for any list and waiting times. *)
FitsAt(o, w, p, d) ==
    /\ p \in 1 .. Len(o) + 1
    /\ \A i \in 1 .. p - 1 : w[o[i]] <= d
    /\ \A i \in p .. Len(o) : w[o[i]] > d

(* The loop of _sim_activate stops where the newcomer fits: what is behind *)
(* that place is due no earlier, because the sums never go down.           *)
LEMMA PlaceFits ==
    ASSUME NEW seq \in Seq(Unit), NEW t \in [Unit -> Int], NoRepeat(seq),
           \A v \in Unit : t[v] >= 0, NEW d \in Nat
    PROVE  FitsAt(seq, Waits(seq, t), Place(seq, t, d), d)
<1> DEFINE L == Len(seq)
           A == Accum(seq, t)
           p == Place(seq, t, d)
           w == Waits(seq, t)
<1>1. L \in Nat
    BY LenProperties
<1>2. /\ p \in 1 .. L + 1
      /\ \A i \in 1 .. p - 1 : A[i] <= d
      /\ p <= L => d < A[p]
    <2> d \in Int
        OBVIOUS
    <2> QED BY PlaceFound
<1>3. \A i, j \in 0 .. L : i <= j => A[i] <= A[j]
    BY AccumMonotone
<1>4. \A i \in 0 .. L : A[i] \in Int
    <2>1. A \in [0 .. L -> Int]
        BY AccumDef
    <2> HIDE DEF A, L
    <2> QED BY <2>1
<1>5. \A i \in 1 .. L : w[seq[i]] = A[i]
    BY WaitsAt
<1> HIDE DEF A, p, w, L
<1>6. \A i \in 1 .. p - 1 : w[seq[i]] <= d
    <2> SUFFICES ASSUME NEW i \in 1 .. p - 1 PROVE w[seq[i]] <= d
        OBVIOUS
    <2> i \in 1 .. L
        BY <1>1, <1>2
    <2> QED BY <1>2, <1>5
<1>7. \A i \in p .. L : w[seq[i]] > d
    <2> SUFFICES ASSUME NEW i \in p .. L PROVE w[seq[i]] > d
        OBVIOUS
    <2>1. i \in 1 .. L /\ i \in 0 .. L /\ p \in 0 .. L /\ p <= L /\ p <= i
        BY <1>1, <1>2
    <2>2. d < A[p] /\ A[p] <= A[i] /\ w[seq[i]] = A[i] /\ A[p] \in Int /\ A[i] \in Int
        BY <1>2, <1>3, <1>4, <1>5, <2>1
    <2> QED BY <2>2
<1> QED BY <1>2, <1>6, <1>7 DEF FitsAt, L, p, w

LEMMA LinkedWaits ==
    ASSUME NEW seq \in Seq(Unit), NEW t \in [Unit -> Int], NEW u \in Unit, NEW d \in Nat,
           NoRepeat(seq), ~Holds(seq, u), \A v \in Unit : t[v] >= 0
    PROVE  Waits(Linked(seq, t, u, d), LinkedTime(seq, t, u, d))
               = [Waits(seq, t) EXCEPT ![u] = d]
<1> DEFINE L == Len(seq)
           p == Place(seq, t, d)
           A == Accum(seq, t)
           s == Linked(seq, t, u, d)
           r == LinkedTime(seq, t, u, d)
           B == Accum(s, r)
<1>0. d \in Int /\ d >= 0
    OBVIOUS
<1>1. /\ s \in Seq(Unit) /\ NoRepeat(s) /\ r \in [Unit -> Int]
      /\ \A v : Holds(s, v) <=> (v = u \/ Holds(seq, v))
    <2> With(Unit, seq, t, u, s, r)
        BY <1>0, LinkKeeps
    <2> QED BY DEF With, Joined
<1>2. L \in Nat /\ p \in 1 .. L + 1
    BY <1>0, LenProperties, PlaceFound
<1>3. /\ \A i \in 0 .. p - 1 : B[i] = A[i]
      /\ B[p] = d
      /\ \A i \in p .. L : B[i + 1] = A[i]
    <2>1. LinkedInPlace(seq, t, u, d)
        BY <1>0, LinkedSums
    <2> QED BY <2>1 DEF LinkedInPlace
<1>4. /\ Len(s) = L + 1
      /\ \A i \in 1 .. p - 1 : s[i] = seq[i]
      /\ s[p] = u
      /\ \A i \in p + 1 .. L + 1 : s[i] = seq[i - 1]
    <2> LinkedAt(seq, p, u, s)
        BY <1>0, LinkedPlaces
    <2> QED BY DEF LinkedAt
<1>5. \A i \in 1 .. Len(s) : Waits(s, r)[s[i]] = B[i]
    <2> HIDE DEF s, r
    <2> QED BY <1>1, WaitsAt
<1>6. \A i \in 1 .. L : Waits(seq, t)[seq[i]] = A[i]
    BY WaitsAt
<1> HIDE DEF s, r, p, A, B, L
<1>7. ASSUME NEW v \in Unit PROVE Waits(s, r)[v] = [Waits(seq, t) EXCEPT ![u] = d][v]
    <2>0. Waits(seq, t) \in [Unit -> {Waits(seq, t)[x] : x \in Unit}]
        BY DEF Waits
    <2>1. CASE v = u
        <3> p \in 1 .. Len(s)
            BY <1>2, <1>4
        <3> Waits(s, r)[u] = d
            BY <1>3, <1>4, <1>5
        <3> QED BY <2>0, <2>1
    <2>2. CASE v # u /\ ~Holds(seq, v)
        <3> ~Holds(s, v)
            BY <1>1, <2>2
        <3> QED BY <2>0, <2>2 DEF Waits
    <2>3. CASE v # u /\ Holds(seq, v)
        <3>1. PICK i \in 1 .. L : seq[i] = v
            BY <2>3 DEF Holds, L
        <3>2. Waits(seq, t)[v] = A[i]
            BY <1>6, <3>1
        <3>3. CASE i \in 1 .. p - 1
            <4> i \in 1 .. Len(s) /\ i \in 0 .. p - 1
                BY <1>2, <1>4, <3>3
            <4> s[i] = v /\ B[i] = A[i]
                BY <1>3, <1>4, <3>1, <3>3
            <4> Waits(s, r)[v] = A[i]
                BY <1>5
            <4> QED BY <2>0, <2>3, <3>2
        <3>4. CASE i \in p .. L
            <4> /\ i + 1 \in 1 .. Len(s) /\ i + 1 \in p + 1 .. L + 1 /\ (i + 1) - 1 = i
                BY <1>2, <1>4, <3>4
            <4> s[i + 1] = v /\ B[i + 1] = A[i]
                BY <1>3, <1>4, <3>1, <3>4
            <4> Waits(s, r)[v] = A[i]
                BY <1>5
            <4> QED BY <2>0, <2>3, <3>2
        <3> QED BY <1>2, <3>3, <3>4
    <2> QED BY <2>1, <2>2, <2>3
<1>8. /\ Waits(s, r) = [v \in Unit |-> Waits(s, r)[v]]
      /\ [Waits(seq, t) EXCEPT ![u] = d]
             = [v \in Unit |-> [Waits(seq, t) EXCEPT ![u] = d][v]]
    BY DEF Waits
<1> QED BY <1>7, <1>8 DEF s, r

LEMMA UnlinkedWaits ==
    ASSUME NEW seq \in Seq(Unit), NEW t \in [Unit -> Int], NEW u \in Unit,
           NoRepeat(seq), Holds(seq, u), \A v \in Unit : t[v] >= 0
    PROVE  Waits(Unlinked(seq, u), [UnlinkedTime(seq, t, u) EXCEPT ![u] = 0])
               = [Waits(seq, t) EXCEPT ![u] = 0]
<1> DEFINE L == Len(seq)
           p == PlaceOf(seq, u)
           A == Accum(seq, t)
           s == Unlinked(seq, u)
           r == [UnlinkedTime(seq, t, u) EXCEPT ![u] = 0]
           B == Accum(s, r)
<1>1. /\ s \in Seq(Unit) /\ NoRepeat(s) /\ r \in [Unit -> Int]
      /\ \A v : Holds(s, v) <=> (v # u /\ Holds(seq, v))
    <2> Without(Unit, seq, t, u, s, r)
        BY UnlinkKeeps
    <2> QED BY DEF Without, Parted
<1>2. L \in Nat /\ p \in 1 .. L /\ seq[p] = u
    BY LenProperties, PlaceOfFound
<1>3. /\ \A i \in 0 .. p - 1 : B[i] = A[i]
      /\ \A i \in p .. L - 1 : B[i] = A[i + 1]
    <2>1. UnlinkedInPlace(seq, t, u)
        BY UnlinkedSums
    <2> QED BY <2>1 DEF UnlinkedInPlace
<1>4. /\ Len(s) = L - 1
      /\ \A i \in 1 .. p - 1 : s[i] = seq[i]
      /\ \A i \in p .. L - 1 : s[i] = seq[i + 1]
    <2> UnlinkedAt(seq, p, s)
        BY UnlinkedPlaces
    <2> QED BY DEF UnlinkedAt
<1>5. \A i \in 1 .. Len(s) : Waits(s, r)[s[i]] = B[i]
    <2> HIDE DEF s, r
    <2> QED BY <1>1, WaitsAt
<1>6. \A i \in 1 .. L : Waits(seq, t)[seq[i]] = A[i]
    BY WaitsAt
<1> HIDE DEF s, r, p, A, B, L
<1>7. ASSUME NEW v \in Unit PROVE Waits(s, r)[v] = [Waits(seq, t) EXCEPT ![u] = 0][v]
    <2>0. Waits(seq, t) \in [Unit -> {Waits(seq, t)[x] : x \in Unit}]
        BY DEF Waits
    <2>1. CASE v = u
        <3> ~Holds(s, v)
            BY <1>1, <2>1
        <3> QED BY <2>0, <2>1 DEF Waits
    <2>2. CASE v # u /\ ~Holds(seq, v)
        <3> ~Holds(s, v)
            BY <1>1, <2>2
        <3> QED BY <2>0, <2>2 DEF Waits
    <2>3. CASE v # u /\ Holds(seq, v)
        <3>1. PICK i \in 1 .. L : seq[i] = v
            BY <2>3 DEF Holds, L
        <3>2. Waits(seq, t)[v] = A[i] /\ i # p
            BY <1>2, <1>6, <2>3, <3>1
        <3>3. CASE i \in 1 .. p - 1
            <4> i \in 1 .. Len(s) /\ i \in 0 .. p - 1
                BY <1>2, <1>4, <3>3
            <4> s[i] = v /\ B[i] = A[i]
                BY <1>3, <1>4, <3>1, <3>3
            <4> Waits(s, r)[v] = A[i]
                BY <1>5
            <4> QED BY <2>0, <2>3, <3>2
        <3>4. CASE i \in p + 1 .. L
            <4> /\ i - 1 \in 1 .. Len(s) /\ i - 1 \in p .. L - 1 /\ (i - 1) + 1 = i
                BY <1>2, <1>4, <3>4
            <4> s[i - 1] = v /\ B[i - 1] = A[i]
                BY <1>3, <1>4, <3>1, <3>4
            <4> Waits(s, r)[v] = A[i]
                BY <1>5
            <4> QED BY <2>0, <2>3, <3>2
        <3> QED BY <1>2, <3>2, <3>3, <3>4
    <2> QED BY <2>1, <2>2, <2>3
<1>8. /\ Waits(s, r) = [v \in Unit |-> Waits(s, r)[v]]
      /\ [Waits(seq, t) EXCEPT ![u] = 0]
             = [v \in Unit |-> [Waits(seq, t) EXCEPT ![u] = 0][v]]
    BY DEF Waits
<1> QED BY <1>7, <1>8 DEF s, r

(* What device code's calls do to the order and the waiting times w.       *)
PutIn(o, w, u, d, o2, w2) ==
    /\ ~Holds(o, u)
    /\ \E p \in 1 .. Len(o) + 1 : FitsAt(o, w, p, d) /\ o2 = InsertAt(o, p, u)
    /\ w2 = [w EXCEPT ![u] = d]

TakenOut(o, w, u, o2, w2) ==
    /\ \E i \in 1 .. Len(o) : o[i] = u /\ o2 = RemoveAt(o, i)
    /\ w2 = [w EXCEPT ![u] = 0]

QWaits(q) == Waits(q.seq, q.time)

LEMMA ActivatePuts ==
    ASSUME NEW q, Sound(q), NEW u \in Unit, NEW d \in Nat, ~Listed(q, u),
           NEW r, r = _sim_activate(q, u, d)
    PROVE  PutIn(q.seq, QWaits(q), u, d, r.seq, QWaits(r))
<1>1. /\ q.seq \in Seq(Unit) /\ q.time \in [Unit -> Int] /\ NoRepeat(q.seq)
      /\ \A v \in Unit : q.time[v] >= 0
      /\ ~Holds(q.seq, u)
    BY DEF Sound, QueueType, Listed, Holds
<1>2. /\ r.seq = Linked(q.seq, q.time, u, d)
      /\ r.time = LinkedTime(q.seq, q.time, u, d)
    BY DEF _sim_activate, Sound, QueueType
<1>3. FitsAt(q.seq, QWaits(q), Place(q.seq, q.time, d), d)
    BY <1>1, PlaceFits DEF QWaits
<1>4. QWaits(r) = [QWaits(q) EXCEPT ![u] = d]
    BY <1>1, <1>2, LinkedWaits DEF QWaits
<1>5. r.seq = InsertAt(q.seq, Place(q.seq, q.time, d), u)
    BY <1>2 DEF Linked
<1>6. Place(q.seq, q.time, d) \in 1 .. Len(q.seq) + 1
    BY <1>3 DEF FitsAt
<1> QED BY <1>1, <1>3, <1>4, <1>5, <1>6 DEF PutIn

LEMMA CancelTakesOut ==
    ASSUME NEW q, Sound(q), NEW u \in Unit, Listed(q, u), NEW r, r = sim_cancel(q, u)
    PROVE  TakenOut(q.seq, QWaits(q), u, r.seq, QWaits(r))
<1>1. /\ q.seq \in Seq(Unit) /\ q.time \in [Unit -> Int] /\ NoRepeat(q.seq)
      /\ \A v \in Unit : q.time[v] >= 0
      /\ Holds(q.seq, u)
    BY DEF Sound, QueueType, Listed, Holds
<1>2. /\ r.seq = Unlinked(q.seq, u)
      /\ r.time = [UnlinkedTime(q.seq, q.time, u) EXCEPT ![u] = 0]
    BY DEF sim_cancel, Sound, QueueType
<1>3. QWaits(r) = [QWaits(q) EXCEPT ![u] = 0]
    <2> DEFINE t == [UnlinkedTime(q.seq, q.time, u) EXCEPT ![u] = 0]
    <2>1. Waits(Unlinked(q.seq, u), t) = [Waits(q.seq, q.time) EXCEPT ![u] = 0]
        BY <1>1, UnlinkedWaits
    <2> HIDE DEF t
    <2> QED BY <1>2, <2>1 DEF QWaits, t
<1>4. r.seq = RemoveAt(q.seq, PlaceOf(q.seq, u))
    BY <1>2 DEF Unlinked
<1>5. PlaceOf(q.seq, u) \in 1 .. Len(q.seq) /\ q.seq[PlaceOf(q.seq, u)] = u
    BY <1>1, PlaceOfFound
<1> QED BY <1>3, <1>4, <1>5 DEF TakenOut

(* What has been counted of the first unit's time.  Whatever edits the     *)
(* list loads sim_interval anew, so that nothing has.                      *)
Elapsed(q) == IF q.seq = <<>> THEN 0 ELSE q.time[Head(q.seq)] - q.interval

LEMMA HeadTimed ==
    ASSUME NEW q, Sound(q), q.seq # <<>>
    PROVE  Head(q.seq) \in Unit /\ q.time[Head(q.seq)] \in Int
<1>1. Head(q.seq) \in Unit
    BY HeadTailProperties DEF Sound, QueueType
<1> QED BY <1>1 DEF Sound, QueueType

LEMMA ActivateRestarts ==
    ASSUME NEW q, Sound(q), NEW u \in Unit, NEW d \in Nat, ~Listed(q, u),
           NEW r, r = _sim_activate(q, u, d)
    PROVE  Elapsed(r) = 0
<1>1. r.interval = r.time[Head(r.seq)]
    BY DEF _sim_activate, Sound, QueueType
<1>2. r.seq # <<>> => r.time[Head(r.seq)] \in Int
    BY ActivateSound, HeadTimed
<1> QED BY <1>1, <1>2 DEF Elapsed

LEMMA CancelRestarts ==
    ASSUME NEW q, Sound(q), NEW u \in Unit, Listed(q, u), NEW r, r = sim_cancel(q, u)
    PROVE  Elapsed(r) = 0
<1>1. r.seq # <<>> => r.interval = r.time[Head(r.seq)]
    BY DEF sim_cancel, Sound, QueueType
<1>2. r.seq # <<>> => r.time[Head(r.seq)] \in Int
    BY CancelSound, HeadTimed
<1> QED BY <1>1, <1>2 DEF Elapsed

(* The first unit waits for its own delta. *)
LEMMA HeadWaits ==
    ASSUME NEW seq \in Seq(Unit), NEW t \in [Unit -> Int], NoRepeat(seq), seq # <<>>
    PROVE  Waits(seq, t)[Head(seq)] = t[Head(seq)]
<1>1. /\ Len(seq) \in Nat /\ Len(seq) >= 1 /\ Head(seq) \in Unit /\ Head(seq) = seq[1]
    BY HeadTailProperties, LenProperties, EmptySeq
<1>2. Waits(seq, t)[seq[1]] = Accum(seq, t)[1]
    <2> 1 \in 1 .. Len(seq)
        BY <1>1
    <2> QED BY WaitsAt
<1>3. Accum(seq, t)[0] = 0 /\ Accum(seq, t)[1] = Accum(seq, t)[1 - 1] + t[seq[1]]
    <2> 1 \in 1 .. Len(seq)
        BY <1>1
    <2> QED BY AccumDef
<1>4. t[seq[1]] \in Int /\ 1 - 1 = 0
    BY <1>1
<1> QED BY <1>1, <1>2, <1>3, <1>4

(* sim_process_event lets the time of the first unit pass for the others. *)
LEMMA TailWaits ==
    ASSUME NEW seq \in Seq(Unit), NEW t \in [Unit -> Int], NoRepeat(seq), seq # <<>>
    PROVE  Waits(Tail(seq), [t EXCEPT ![Head(seq)] = 0]) =
               [u \in Unit |->
                   IF Holds(seq, u) /\ u # Head(seq)
                   THEN Waits(seq, t)[u] - Waits(seq, t)[Head(seq)] ELSE 0]
<1> DEFINE L == Len(seq)
           s == Tail(seq)
           h == Head(seq)
           r == [t EXCEPT ![h] = 0]
           A == Accum(seq, t)
           B == Accum(s, r)
           w == Waits(seq, t)
           F(u) == IF Holds(seq, u) /\ u # h THEN w[u] - w[h] ELSE 0
<1>1. /\ L \in Nat /\ L >= 1 /\ h \in Unit /\ h = seq[1]
      /\ s \in Seq(Unit) /\ Len(s) = L - 1
      /\ \A i \in 1 .. L - 1 : s[i] = seq[i + 1]
    BY HeadTailProperties, LenProperties, EmptySeq
<1>2. r \in [Unit -> Int] /\ r[h] = 0 /\ \A u \in Unit : u # h => r[u] = t[u]
    <2> HIDE DEF h
    <2> QED BY <1>1
<1> HIDE DEF r
<1>3. \A i \in 1 .. L : seq[i] \in Unit
    BY ElementOfSeq
<1>4. /\ A \in [0 .. L -> Int] /\ A[0] = 0
      /\ \A i \in 1 .. L : A[i] = A[i - 1] + t[seq[i]]
    BY AccumDef
<1>5. /\ B \in [0 .. Len(s) -> Int] /\ B[0] = 0
      /\ \A i \in 1 .. Len(s) : B[i] = B[i - 1] + r[s[i]]
    <2>1. s \in Seq(Unit) /\ r \in [Unit -> Int]
        BY <1>1, <1>2
    <2> HIDE DEF s
    <2> QED BY <2>1, AccumDef
<1>6. \A i \in 1 .. L : w[seq[i]] = A[i]
    BY WaitsAt
<1>7. NoRepeat(s)
    <2> HIDE DEF s, L
    <2> SUFFICES ASSUME NEW i \in 1 .. Len(s), NEW j \in 1 .. Len(s), s[i] = s[j]
                 PROVE  i = j
        BY DEF NoRepeat
    <2>1. i + 1 \in 1 .. L /\ j + 1 \in 1 .. L /\ seq[i + 1] = seq[j + 1]
        BY <1>1
    <2>2. i + 1 = j + 1
        BY <2>1 DEF NoRepeat, L
    <2> QED BY <1>1, <2>2
<1>8. \A i \in 1 .. Len(s) : Waits(s, r)[s[i]] = B[i]
    <2> HIDE DEF s
    <2> QED BY <1>1, <1>2, <1>7, WaitsAt
<1>9. ASSUME NEW u \in Unit PROVE Holds(s, u) <=> Holds(seq, u) /\ u # h
    <2> HIDE DEF s, h, L
    <2>1. ASSUME Holds(s, u) PROVE Holds(seq, u) /\ u # h
        <3>1. PICK i \in 1 .. Len(s) : s[i] = u
            BY <2>1 DEF Holds
        <3>2. i + 1 \in 1 .. L /\ 1 \in 1 .. L /\ seq[i + 1] = u /\ i + 1 # 1
            BY <1>1, <3>1
        <3>3. seq[i + 1] # seq[1]
            BY <3>2 DEF NoRepeat, L
        <3> QED BY <1>1, <3>2, <3>3 DEF Holds, L
    <2>2. ASSUME Holds(seq, u), u # h PROVE Holds(s, u)
        <3>1. PICK i \in 1 .. L : seq[i] = u
            BY <2>2 DEF Holds, L
        <3>2. i # 1
            BY <1>1, <2>2, <3>1
        <3>3. i - 1 \in 1 .. L - 1 /\ (i - 1) + 1 = i
            BY <1>1, <3>2
        <3> QED BY <1>1, <3>1, <3>3 DEF Holds
    <2> QED BY <2>1, <2>2
<1> HIDE DEF L, s, h, A, B, w
<1> DEFINE C == [i \in 0 .. L |-> A[i] - A[1]]
<1>10. \A i \in 1 .. L - 1 : B[i] = A[i + 1] - A[1]
    <2>1. L - 1 \in Nat /\ 1 \in 0 .. L /\ C[1] = 0
        BY <1>1, <1>4
    <2>2. SameDeltas(C, B, 1, 0, L - 1)
        <3> SUFFICES ASSUME NEW k \in 1 .. L - 1
                     PROVE  \E x \in Int : /\ C[1 + (k - 1)] \in Int
                                           /\ C[1 + k] = C[1 + (k - 1)] + x
                                           /\ B[0 + k] = B[0 + (k - 1)] + x
            BY DEF SameDeltas
        <3>1. /\ 1 + (k - 1) = k /\ 0 + k = k /\ 0 + (k - 1) = k - 1 /\ 1 + k = k + 1
              /\ k \in 0 .. L /\ k + 1 \in 1 .. L /\ k + 1 \in 0 .. L /\ (k + 1) - 1 = k
              /\ k \in 1 .. Len(s) /\ k \in 1 .. L - 1 /\ 1 \in 1 .. L
            BY <1>1
        <3>2. s[k] = seq[k + 1] /\ seq[k + 1] \in Unit /\ k + 1 # 1
            BY <1>1, <1>3, <3>1
        <3>3. seq[k + 1] # h
            BY <1>1, <3>1, <3>2 DEF NoRepeat, L
        <3>4. r[s[k]] = t[seq[k + 1]] /\ t[seq[k + 1]] \in Int
            BY <1>2, <3>2, <3>3
        <3>5. /\ A[k + 1] = A[k] + t[seq[k + 1]] /\ A[k] \in Int /\ A[1] \in Int
              /\ B[k] = B[k - 1] + t[seq[k + 1]]
            <4>1. A[k + 1] = A[(k + 1) - 1] + t[seq[k + 1]]
                BY <1>4, <3>1
            <4>2. B[k] = B[k - 1] + r[s[k]]
                BY <1>5, <3>1
            <4> QED BY <1>4, <3>1, <3>4, <4>1, <4>2
        <3>6. C[k] = A[k] - A[1] /\ C[k + 1] = A[k + 1] - A[1]
            BY <3>1
        <3>7. C[k] \in Int /\ C[k + 1] = C[k] + t[seq[k + 1]]
            BY <3>4, <3>5, <3>6
        <3> HIDE DEF C
        <3> QED BY <3>1, <3>4, <3>5, <3>7
    <2>3. SameSums(C, B, 1, 0, L - 1)
        <3> HIDE DEF C
        <3> 1 \in Nat /\ 0 \in Nat
            OBVIOUS
        <3> QED BY <1>5, <2>1, <2>2, SumsAgree
    <2> SUFFICES ASSUME NEW i \in 1 .. L - 1 PROVE B[i] = A[i + 1] - A[1]
        OBVIOUS
    <2>4. /\ i \in 0 .. L - 1 /\ 0 + i = i /\ 1 + i = i + 1 /\ i + 1 \in 0 .. L
        BY <1>1
    <2>5. B[0 + i] = C[1 + i]
        BY <2>3, <2>4 DEF SameSums
    <2> QED BY <2>4, <2>5
<1> HIDE DEF C
<1>11. ASSUME NEW u \in Unit PROVE Waits(s, r)[u] = F(u)
    <2>1. CASE ~Holds(s, u)
        BY <1>9, <2>1 DEF Waits
    <2>2. CASE Holds(s, u)
        <3>1. PICK i \in 1 .. Len(s) : s[i] = u
            BY <2>2 DEF Holds
        <3>2. i \in 1 .. L - 1 /\ i + 1 \in 1 .. L /\ 1 \in 1 .. L /\ u = seq[i + 1]
            BY <1>1, <3>1
        <3>3. w[u] = A[i + 1] /\ w[h] = A[1]
            BY <1>1, <1>6, <3>2
        <3>4. Waits(s, r)[u] = A[i + 1] - A[1]
            BY <1>8, <1>10, <3>1, <3>2
        <3> QED BY <1>9, <2>2, <3>3, <3>4
    <2> QED BY <2>1, <2>2
<1>12. Waits(s, r) = [u \in Unit |-> Waits(s, r)[u]]
    BY DEF Waits
<1> HIDE DEF F
<1>13. Waits(s, r) = [u \in Unit |-> F(u)]
    BY <1>11, <1>12
<1> QED BY <1>13 DEF F, s, h, w, r

-----------------------------------------------------------------------------
(* Steps of the queue as steps of TimedQueue. *)
LEMMA PromiseWaits ==
    [u \in Unit |-> IF IsActive(u) THEN Key(queue, time, u) ELSE 0] = Waits(queue, time)
BY DEF Waits, IsActive, Holds

(* The refinement of TimedQueue's count. *)
Passed == IF queue = <<>> THEN 0 ELSE time[Head(queue)] - simInterval

LEMMA PromiseInit == Init => Promise!Init
<1> SUFFICES ASSUME Init PROVE Promise!Init
    OBVIOUS
<1>1. queue = <<>> /\ \A u \in Unit : ~IsActive(u)
    BY DEF Init, IsActive
<1> QED BY <1>1 DEF Promise!Init

(* The step of a call that leaves a queue in a state r. *)
LEMMA PutIsPut ==
    ASSUME NEW u \in Unit, NEW d \in Delays,
           PutIn(queue, Waits(queue, time), u, d, queue', Waits(queue, time)'),
           Passed' = 0
    PROVE  Promise!Next
<1>1. ~Promise!Queued(u)
    BY DEF PutIn, Promise!Queued, Holds
<1>2. PICK p \in 1 .. Len(queue) + 1 :
          FitsAt(queue, Waits(queue, time), p, d) /\ queue' = InsertAt(queue, p, u)
    BY DEF PutIn
<1>3. Promise!Fits(queue, p, d)
    BY <1>2, PromiseWaits DEF FitsAt, Promise!Fits
<1>4. [v \in Unit |-> IF IsActive(v) THEN Key(queue, time, v) ELSE 0]'
          = [[v \in Unit |-> IF IsActive(v) THEN Key(queue, time, v) ELSE 0] EXCEPT ![u] = d]
    <2>1. (Waits(queue, time))' = [Waits(queue, time) EXCEPT ![u] = d]
        BY DEF PutIn
    <2>2. ([v \in Unit |-> IF IsActive(v) THEN Key(queue, time, v) ELSE 0]
              = Waits(queue, time))'
        BY DEF Waits, IsActive, Holds
    <2> QED BY <2>1, <2>2, PromiseWaits
<1>5. Promise!Put(u, d)
    BY <1>1, <1>2, <1>3, <1>4 DEF Promise!Put, Promise!InsertAt, InsertAt, Passed
<1> QED BY <1>5 DEF Promise!Next

(* A primed refinement of wait, and its value. *)
LEMMA PromiseWaitsNext ==
    [v \in Unit |-> IF IsActive(v) THEN Key(queue, time, v) ELSE 0]'
        = (Waits(queue, time))'
BY DEF Waits, IsActive, Holds

LEMMA DropIsDrop ==
    ASSUME NEW u \in Unit,
           TakenOut(queue, Waits(queue, time), u, queue', Waits(queue, time)'),
           Passed' = 0
    PROVE  Promise!Next
<1>1. PICK i \in 1 .. Len(queue) : queue[i] = u /\ queue' = RemoveAt(queue, i)
    BY DEF TakenOut
<1>2. (Waits(queue, time))' = [Waits(queue, time) EXCEPT ![u] = 0]
    BY DEF TakenOut
<1>3. [v \in Unit |-> IF IsActive(v) THEN Key(queue, time, v) ELSE 0]'
          = [[v \in Unit |-> IF IsActive(v) THEN Key(queue, time, v) ELSE 0] EXCEPT ![u] = 0]
    BY <1>2, PromiseWaits, PromiseWaitsNext
<1>4. Promise!Drop(i)
    BY <1>1, <1>3 DEF Promise!Drop, Promise!RemoveAt, RemoveAt, Passed
<1> QED BY <1>4 DEF Promise!Next

LEMMA ReputIsReput ==
    ASSUME NEW u \in Unit, NEW d \in Delays, NEW o \in Seq(Unit), NEW w,
           TakenOut(queue, Waits(queue, time), u, o, w),
           PutIn(o, w, u, d, queue', Waits(queue, time)'),
           Passed' = 0
    PROVE  Promise!Next
<1> DEFINE W == Waits(queue, time)
<1>1. PICK i \in 1 .. Len(queue) : queue[i] = u /\ o = RemoveAt(queue, i)
    BY DEF TakenOut
<1>2. PICK p \in 1 .. Len(o) + 1 : FitsAt(o, w, p, d) /\ queue' = InsertAt(o, p, u)
    BY DEF PutIn
<1>3. W \in [Unit -> {W[x] : x \in Unit}]
    BY DEF Waits
<1>4. w = [W EXCEPT ![u] = 0] /\ W' = [w EXCEPT ![u] = d]
    BY DEF TakenOut, PutIn
<1>5. \A j \in 1 .. Len(o) : o[j] \in Unit /\ o[j] # u
    BY ElementOfSeq DEF PutIn, Holds
<1>6. \A j \in 1 .. Len(o) : w[o[j]] = W[o[j]]
    <2> HIDE DEF W
    <2> QED BY <1>3, <1>4, <1>5
<1>7. FitsAt(o, W, p, d)
    <2>1. Len(o) \in Nat
        BY LenProperties
    <2>2. (\A j \in 1 .. p - 1 : j \in 1 .. Len(o)) /\ (\A j \in p .. Len(o) : j \in 1 .. Len(o))
        BY <2>1
    <2> HIDE DEF W
    <2> QED BY <1>2, <1>6, <2>2 DEF FitsAt
<1>8. Promise!Fits(o, p, d)
    BY <1>7, PromiseWaits DEF FitsAt, Promise!Fits
<1>9. W' = [W EXCEPT ![u] = d]
    <2> DEFINE X == W'
    <2> HIDE DEF W, X
    <2>1. X = [w EXCEPT ![u] = d] /\ w = [W EXCEPT ![u] = 0]
        BY <1>4 DEF X
    <2>2. X = [W EXCEPT ![u] = d]
        BY <1>3, <2>1
    <2> QED BY <2>2 DEF X
<1>10. [v \in Unit |-> IF IsActive(v) THEN Key(queue, time, v) ELSE 0]'
           = [[v \in Unit |-> IF IsActive(v) THEN Key(queue, time, v) ELSE 0] EXCEPT ![u] = d]
    BY <1>9, PromiseWaits, PromiseWaitsNext
<1>11. Promise!Reput(i, d)
    BY <1>1, <1>2, <1>8, <1>10
       DEF Promise!Reput, Promise!RemoveAt, RemoveAt, Promise!InsertAt, InsertAt, Passed
<1> QED BY <1>11 DEF Promise!Next

LEMMA TakeFirstPops ==
    ASSUME IInv, TakeFirst
    PROVE  Promise!Next
<1>1. queue \in Seq(Unit) /\ time \in [Unit -> Int] /\ NoRepeat(queue) /\ queue # <<>>
    BY DEF IInv, TypeOK, WellLinked, NoRepeat, TakeFirst
<1>2. queue' = Tail(queue) /\ time' = [time EXCEPT ![Head(queue)] = 0]
    BY DEF TakeFirst
<1>3. Waits(Tail(queue), [time EXCEPT ![Head(queue)] = 0]) =
          [u \in Unit |->
              IF Holds(queue, u) /\ u # Head(queue)
              THEN Waits(queue, time)[u] - Waits(queue, time)[Head(queue)] ELSE 0]
    BY <1>1, TailWaits
<1>4. (Waits(queue, time))' = Waits(queue', time')
    BY DEF Waits, Holds, Key, Accum, PlaceOf
<1>5. /\ Head(queue) \in Unit /\ time[Head(queue)] \in Int /\ simInterval \in Int
      /\ Waits(queue, time)[Head(queue)] = time[Head(queue)]
      /\ Tail(queue) \in Seq(Unit)
    BY <1>1, HeadTailProperties, HeadWaits DEF IInv, TypeOK
<1>6. Passed >= Waits(queue, time)[Head(queue)]
    <2>1. simInterval <= 0
        BY DEF TakeFirst, Expired, IInv, DrainsExpired
    <2> QED BY <1>1, <1>5, <2>1 DEF Passed
<1>7. Passed' = IF Tail(queue) = <<>> THEN 0 ELSE Passed
    <2>1. CASE Tail(queue) = <<>>
        BY <1>2, <2>1 DEF Passed
    <2>2. CASE Tail(queue) # <<>>
        <3> DEFINE h == Head(queue)
                   n == Head(Tail(queue))
        <3>1. n \in Unit /\ n # h
            <4>1. Len(queue) \in Nat /\ Len(Tail(queue)) = Len(queue) - 1 /\ Len(Tail(queue)) >= 1
                BY <1>1, <1>5, <2>2, HeadTailProperties, LenProperties, EmptySeq
            <4>2. n \in Unit /\ n = Tail(queue)[1] /\ h = queue[1]
                BY <1>1, <1>5, <2>2, HeadTailProperties
            <4>3. Tail(queue)[1] = queue[1 + 1] /\ 1 \in 1 .. Len(queue) /\ 2 \in 1 .. Len(queue)
                BY <1>1, <4>1, HeadTailProperties
            <4> QED BY <1>1, <4>2, <4>3 DEF NoRepeat
        <3>2. simInterval' = simInterval - time[h] + time[n]
            BY <2>2 DEF TakeFirst
        <3>3. time'[n] = time[n] /\ time[n] \in Int
            BY <1>1, <1>2, <3>1
        <3>4. Passed = time[h] - simInterval /\ Passed' = time'[n] - simInterval'
            BY <1>1, <1>2, <2>2 DEF Passed
        <3> HIDE DEF h, n
        <3>5. Passed' = Passed
            BY <1>5, <3>2, <3>3, <3>4 DEF h
        <3> QED BY <2>2, <3>5
    <2> QED BY <2>1, <2>2
<1>8. Promise!Pop
    BY <1>1, <1>2, <1>3, <1>4, <1>6, <1>7, PromiseWaits, PromiseWaitsNext
       DEF Promise!Pop, Promise!Queued, Holds, Passed
<1> QED BY <1>8 DEF Promise!Next

(* While an instruction is counted and a unit waits, its time is not over. *)
LEMMA FetchCounts ==
    ASSUME IInv, Fetch, queue # <<>>
    PROVE  Promise!Next
<1>1. /\ queue \in Seq(Unit) /\ time \in [Unit -> Int] /\ NoRepeat(queue)
      /\ simInterval \in Int
    BY DEF IInv, TypeOK, WellLinked, NoRepeat
<1>2. Head(queue) \in Unit
    BY <1>1, HeadTailProperties
<1>3. Waits(queue, time)[Head(queue)] = time[Head(queue)] /\ time[Head(queue)] \in Int
    BY <1>1, <1>2, HeadWaits
<1>4. UNCHANGED <<queue, time>> /\ simInterval > 0 /\ simInterval' = simInterval - 1
    BY DEF Fetch
<1>5. (Waits(queue, time))' = Waits(queue, time)
    BY <1>4 DEF Waits, Holds, Key, Accum, PlaceOf
<1>6. Passed < Waits(queue, time)[Head(queue)] /\ Passed' = Passed + 1
    BY <1>1, <1>3, <1>4 DEF Passed
<1>7. Promise!Count
    BY <1>4, <1>5, <1>6, PromiseWaits, PromiseWaitsNext DEF Promise!Count, Passed
<1> QED BY <1>7 DEF Promise!Next

(* Activating after a possible cancellation, whatever the queue was. *)
LEMMA QueuedStep ==
    ASSUME IInv, NEW u \in Unit, NEW d \in Delays,
           Becomes(_sim_activate(Q, u, d)) \/ Becomes(sim_activate_abs(Q, u, d))
    PROVE  Promise!Next \/ UNCHANGED <<queue, time, simInterval>>
<1> DEFINE c == sim_cancel(Q, u)
           W == Waits(queue, time)
<1>0. d \in Nat
    BY EventQueueAssumption
<1>1. /\ Sound(Q) /\ Q.seq = queue /\ QWaits(Q) = W /\ Q.time = time
      /\ Q.interval = simInterval
    BY IInvSound DEF Q, QWaits
<1>2. ASSUME NEW r, Becomes(r)
      PROVE  /\ queue' = r.seq /\ time' = r.time /\ simInterval' = r.interval
             /\ QWaits(r) = W' /\ Elapsed(r) = Passed'
    <2>1. queue' = r.seq /\ time' = r.time /\ simInterval' = r.interval
        BY <1>2 DEF Becomes
    <2>2. Elapsed(r) = Passed'
        BY <2>1 DEF Elapsed, Passed
    <2> QED BY <2>1, <2>2 DEF QWaits, Waits, Holds, Key, Accum, PlaceOf
<1>3. CASE ~Listed(Q, u)
    <2>1. c = Q
        BY <1>3 DEF sim_cancel
    <2> DEFINE r == _sim_activate(Q, u, d)
    <2>2. Becomes(r)
        BY <2>1 DEF sim_activate_abs
    <2>3. PutIn(Q.seq, QWaits(Q), u, d, r.seq, QWaits(r))
        BY <1>0, <1>1, <1>3, ActivatePuts
    <2>4. Elapsed(r) = 0
        BY <1>0, <1>1, <1>3, ActivateRestarts
    <2> HIDE DEF r
    <2>5. PutIn(queue, W, u, d, queue', W') /\ Passed' = 0
        BY <1>1, <1>2, <2>2, <2>3, <2>4
    <2> QED BY <2>5, PutIsPut
<1>4. CASE Listed(Q, u) /\ Becomes(_sim_activate(Q, u, d))
    BY <1>1, <1>2, <1>4 DEF _sim_activate
<1>5. CASE Listed(Q, u) /\ Becomes(sim_activate_abs(Q, u, d))
    <2> DEFINE r == _sim_activate(c, u, d)
    <2>1. TakenOut(Q.seq, QWaits(Q), u, c.seq, QWaits(c))
        BY <1>1, <1>5, CancelTakesOut
    <2>2. Sound(c) /\ c.seq \in Seq(Unit)
        BY <1>1, CancelSound DEF Sound, QueueType
    <2>3. ~Listed(c, u)
        <3>1. c.seq = Unlinked(Q.seq, u)
            BY <1>1, <1>5 DEF sim_cancel, Sound, QueueType
        <3>2. Holds(Q.seq, u)
            BY <1>5 DEF Listed, Holds
        <3>3. Without(Unit, Q.seq, Q.time, u, Unlinked(Q.seq, u),
                      [UnlinkedTime(Q.seq, Q.time, u) EXCEPT ![u] = 0])
            <4> /\ Q.seq \in Seq(Unit) /\ Q.time \in [Unit -> Int] /\ NoRepeat(Q.seq)
                /\ \A v \in Unit : Q.time[v] >= 0
                BY <1>1 DEF Sound, QueueType
            <4> QED BY <3>2, UnlinkKeeps
        <3>4. ~Holds(Unlinked(Q.seq, u), u)
            BY <3>3 DEF Without, Parted
        <3> QED BY <3>1, <3>4 DEF Listed, Holds
    <2>4. Becomes(r)
        BY <1>5 DEF sim_activate_abs
    <2>5. PutIn(c.seq, QWaits(c), u, d, r.seq, QWaits(r))
        <3> HIDE DEF c
        <3> QED BY <1>0, <2>2, <2>3, ActivatePuts
    <2>6. Elapsed(r) = 0
        <3> HIDE DEF c
        <3> QED BY <1>0, <2>2, <2>3, ActivateRestarts
    <2> HIDE DEF r, c
    <2>7. /\ TakenOut(queue, W, u, c.seq, QWaits(c)) /\ PutIn(c.seq, QWaits(c), u, d, queue', W')
          /\ Passed' = 0
        BY <1>1, <1>2, <2>1, <2>4, <2>5, <2>6
    <2> QED BY <2>2, <2>7, ReputIsReput
<1> QED BY <1>3, <1>4, <1>5

LEMMA CancelledStep ==
    ASSUME IInv, NEW u \in Unit, Becomes(sim_cancel(Q, u))
    PROVE  Promise!Next \/ UNCHANGED <<queue, time, simInterval>>
<1> DEFINE c == sim_cancel(Q, u)
           W == Waits(queue, time)
<1>1. /\ Sound(Q) /\ Q.seq = queue /\ QWaits(Q) = W /\ Q.time = time
      /\ Q.interval = simInterval
    BY IInvSound DEF Q, QWaits
<1>2. queue' = c.seq /\ time' = c.time /\ simInterval' = c.interval
    BY DEF Becomes
<1>3. QWaits(c) = W'
    <2> HIDE DEF c
    <2> QED BY <1>2 DEF QWaits, Waits, Holds, Key, Accum, PlaceOf
<1>4. CASE ~Listed(Q, u)
    BY <1>1, <1>2, <1>4 DEF sim_cancel
<1>5. CASE Listed(Q, u)
    <2>1. TakenOut(Q.seq, QWaits(Q), u, c.seq, QWaits(c))
        BY <1>1, <1>5, CancelTakesOut
    <2>2. Elapsed(c) = 0
        BY <1>1, <1>5, CancelRestarts
    <2> HIDE DEF c
    <2>3. TakenOut(queue, W, u, queue', W') /\ Passed' = 0
        BY <1>1, <1>2, <1>3, <2>1, <2>2 DEF Elapsed, Passed
    <2> QED BY <2>3, DropIsDrop
<1> QED BY <1>4, <1>5

LEMMA PromiseStep == IInv /\ [Next]_vars => [Promise!Next]_(Promise!tqvars)
<1> SUFFICES ASSUME IInv, [Next]_vars PROVE Promise!Next \/ UNCHANGED Promise!tqvars
    OBVIOUS
<1>a. UNCHANGED <<queue, time>> /\ Passed' = Passed => UNCHANGED Promise!tqvars
    <2> SUFFICES ASSUME UNCHANGED <<queue, time>>, Passed' = Passed
                 PROVE  UNCHANGED Promise!tqvars
        OBVIOUS
    <2>1. (Waits(queue, time))' = Waits(queue, time)
        BY DEF Waits, Holds, Key, Accum, PlaceOf
    <2> QED BY <2>1, PromiseWaits, PromiseWaitsNext DEF Promise!tqvars, Passed
<1>0. UNCHANGED <<queue, time, simInterval>> => UNCHANGED Promise!tqvars
    BY <1>a DEF Passed
<1>1. CASE Activate
    BY <1>0, <1>1, QueuedStep DEF Activate
<1>2. CASE ActivateAbs
    BY <1>0, <1>2, QueuedStep DEF ActivateAbs
<1>3. CASE ActivateNotBefore
    <2>1. PICK u \in Unit, d \in Delays : Becomes(sim_activate_notbefore(Q, u, d))
        BY <1>3 DEF ActivateNotBefore
    <2>2. d \in Nat
        BY EventQueueAssumption
    <2>3. (IF d < sim_grtime THEN 0 ELSE d - sim_grtime) = d
        BY <2>2 DEF sim_grtime
    <2>4. sim_activate_notbefore(Q, u, d) = sim_activate_abs(Q, u, d)
        BY <2>3 DEF sim_activate_notbefore, sim_activate_abs
    <2> QED BY <1>0, <2>1, <2>4, QueuedStep
<1>4. CASE Cancel
    BY <1>0, <1>4, CancelledStep DEF Cancel
<1>5. CASE Dispatch
    BY <1>5, TakeFirstPops DEF Dispatch
<1>6. CASE Fetch /\ queue # <<>>
    BY <1>6, FetchCounts
<1>7. CASE EndInstruction
    BY <1>0, <1>7 DEF EndInstruction
<1>8. CASE (Fetch /\ queue = <<>>) \/ QueueEmpty \/ ReturnOK \/ ReturnError
    <2>1. UNCHANGED <<queue, time>> /\ (queue = <<>> \/ simInterval' = simInterval)
        BY <1>8 DEF Fetch, QueueEmpty, ReturnOK, ReturnError, Return
    <2>2. Passed' = Passed
        BY <2>1 DEF Passed
    <2> QED BY <1>a, <2>1, <2>2
<1>9. CASE UNCHANGED vars
    BY <1>0, <1>9 DEF vars
<1> QED BY <1>1, <1>2, <1>3, <1>4, <1>5, <1>6, <1>7, <1>8, <1>9 DEF Next, Step, DeviceCall

(* The delta-encoded queue of sim_evtq.c keeps the promise of TimedQueue:  *)
(* units leave in the order of the times they were asked to wait, first    *)
(* queued first on a tie; no edit for one unit changes another's time or   *)
(* place; and the first unit leaves exactly when the instructions counted  *)
(* since the last edit have reached its time.  For any units and delays    *)
(* and any sequence of calls.                                              *)
THEOREM PromiseKept == Spec => KeepsPromise
<1>1. Init => Promise!Init
    BY PromiseInit
<1>2. IInv /\ [Next]_vars => [Promise!Next]_(Promise!tqvars)
    BY PromiseStep
<1>3. Spec => []IInv
    BY Inductive
<1> QED BY <1>1, <1>2, <1>3, PTL DEF KeepsPromise, Promise!Spec, Spec
=============================================================================
