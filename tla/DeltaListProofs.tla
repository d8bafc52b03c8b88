--------------------------- MODULE DeltaListProofs ---------------------------
(***************************************************************************)
(* Facts about the delta list for every list: what its recursive sum is,   *)
(* where an entry is put, and what an insertion or a removal leaves.       *)
(***************************************************************************)
EXTENDS DeltaList, SequenceTheorems, WellFoundedInduction, TLAPS

(* Induction over the naturals for a set, from the least element of what   *)
(* the set leaves out.                                                     *)
LEMMA SetInduction ==
    ASSUME NEW B \in SUBSET Nat, 0 \in B, \A n \in B : n + 1 \in B
    PROVE  B = Nat
<1> DEFINE T == Nat \ B
<1> SUFFICES ASSUME T # {} PROVE FALSE
    OBVIOUS
<1>1. PICK m \in T : \A k \in T : ~ (<<k, m>> \in OpToRel(<, Nat))
    <2> T \subseteq Nat
        OBVIOUS
    <2> QED BY NatLessThanWellFounded, WFMin
<1>2. \A k \in T : ~ (k < m)
    BY <1>1 DEF OpToRel
<1>3. m # 0 /\ m \in Nat
    OBVIOUS
<1>4. m - 1 \in Nat /\ m - 1 < m
    BY <1>3
<1>5. m - 1 \in B
    BY <1>2, <1>4
<1> QED BY <1>3, <1>5

(* The sums of the deltas obey their recursion. *)
LEMMA AccumDef ==
    ASSUME NEW U, NEW seq \in Seq(U), NEW time \in [U -> Int]
    PROVE  /\ Accum(seq, time) \in [0 .. Len(seq) -> Int]
           /\ Accum(seq, time)[0] = 0
           /\ \A i \in 1 .. Len(seq) :
                  Accum(seq, time)[i] = Accum(seq, time)[i - 1] + time[seq[i]]
<1> DEFINE L == Len(seq)
           Sums(f, n) == /\ f \in [0 .. n -> Int]
                         /\ f[0] = 0
                         /\ \A i \in 1 .. n : f[i] = f[i - 1] + time[seq[i]]
           B == {n \in Nat : n <= L => \E f : Sums(f, n)}
<1>0. L \in Nat /\ \A i \in 1 .. L : time[seq[i]] \in Int
    BY LenProperties, ElementOfSeq
<1>1. 0 \in B
    <2> DEFINE f == [i \in 0 .. 0 |-> 0]
    <2>1. f \in [0 .. 0 -> Int] /\ f[0] = 0
        OBVIOUS
    <2>2. Sums(f, 0)
        BY <2>1
    <2> QED BY <2>1, <2>2
<1>2. ASSUME NEW n \in B PROVE n + 1 \in B
    <2>0. n \in Nat /\ n + 1 \in Nat /\ (n <= L => \E f : Sums(f, n))
        OBVIOUS
    <2> SUFFICES ASSUME n + 1 <= L PROVE \E f : Sums(f, n + 1)
        BY <2>0
    <2>1. PICK g : Sums(g, n)
        <3> n <= L
            BY <1>0, <2>0
        <3> HIDE DEF Sums
        <3> QED BY <2>0
    <2> DEFINE f == [i \in 0 .. n + 1 |-> IF i = n + 1 THEN g[n] + time[seq[n + 1]]
                                          ELSE g[i]]
    <2>2. f \in [0 .. n + 1 -> Int]
        BY <1>0, <2>0, <2>1
    <2>3. \A i \in 1 .. n + 1 : f[i] = f[i - 1] + time[seq[i]]
        BY <2>1
    <2>4. f[0] = 0
        BY <2>0, <2>1
    <2>5. Sums(f, n + 1)
        BY <2>2, <2>3, <2>4
    <2> QED BY <2>5
<1>3. L \in B
    <2> HIDE DEF B
    <2> B = Nat
        <3> B \in SUBSET Nat BY DEF B
        <3> QED BY <1>1, <1>2, SetInduction
    <2> QED BY <1>0
<1>4. PICK f : Sums(f, L)
    BY <1>3
<1>5. f = [i \in 0 .. L |-> IF i = 0 THEN 0 ELSE f[i - 1] + time[seq[i]]]
    BY <1>4
<1> DEFINE A == Accum(seq, time)
<1>6. A = [i \in 0 .. L |-> IF i = 0 THEN 0 ELSE A[i - 1] + time[seq[i]]]
    BY <1>5 DEF Accum
<1> HIDE DEF A
<1>7. DOMAIN A = 0 .. L
    BY <1>6
<1>8. A[0] = 0
    BY <1>0, <1>6
<1>9. \A i \in 1 .. L : A[i] = A[i - 1] + time[seq[i]]
    <2> SUFFICES ASSUME NEW i \in 1 .. L PROVE A[i] = A[i - 1] + time[seq[i]]
        OBVIOUS
    <2> i \in 0 .. L /\ i # 0
        BY <1>0
    <2> QED BY <1>6
<1> DEFINE C == {n \in Nat : n <= L => A[n] \in Int}
<1>10. 0 \in C
    BY <1>8
<1>11. ASSUME NEW n \in C PROVE n + 1 \in C
    <2>1. CASE n + 1 <= L
        <3> n + 1 \in 1 .. L /\ n <= L
            BY <1>0, <2>1
        <3> A[n] \in Int /\ time[seq[n + 1]] \in Int
            BY <1>0
        <3> A[n + 1] = A[n] + time[seq[n + 1]]
            BY <1>9
        <3> QED OBVIOUS
    <2> QED BY <2>1
<1>12. C = Nat
    <2> C \in SUBSET Nat
        OBVIOUS
    <2> HIDE DEF C
    <2> QED BY <1>10, <1>11, SetInduction
<1>13. \A n \in 0 .. L : A[n] \in Int
    BY <1>0, <1>12
<1>14. A \in [0 .. L -> Int]
    BY <1>6, <1>7, <1>13
<1> QED BY <1>8, <1>9, <1>14 DEF A

(* Deltas that are not negative add up to sums that never go down. *)
LEMMA AccumMonotone ==
    ASSUME NEW U, NEW seq \in Seq(U), NEW time \in [U -> Int],
           \A u \in U : time[u] >= 0
    PROVE  \A i, j \in 0 .. Len(seq) :
               i <= j => Accum(seq, time)[i] <= Accum(seq, time)[j]
<1> DEFINE L == Len(seq)
           A == Accum(seq, time)
<1>0. L \in Nat /\ \A i \in 1 .. L : seq[i] \in U
    BY LenProperties, ElementOfSeq
<1>1. /\ A \in [0 .. L -> Int]
      /\ \A i \in 1 .. L : A[i] = A[i - 1] + time[seq[i]]
    BY AccumDef
<1> HIDE DEF A
<1> SUFFICES ASSUME NEW i \in 0 .. L
             PROVE  \A j \in 0 .. L : i <= j => A[i] <= A[j]
    BY DEF A
<1> DEFINE B == {n \in Nat : i + n <= L => A[i] <= A[i + n]}
<1>2. 0 \in B
    BY <1>1
<1>3. ASSUME NEW n \in B PROVE n + 1 \in B
    <2>1. CASE i + (n + 1) <= L
        <3>1. i + n \in 0 .. L /\ i + (n + 1) \in 1 .. L /\ (i + (n + 1)) - 1 = i + n
            BY <1>0, <2>1
        <3>2. A[i + (n + 1)] = A[i + n] + time[seq[i + (n + 1)]]
            BY <1>1, <3>1
        <3>3. time[seq[i + (n + 1)]] \in Int /\ time[seq[i + (n + 1)]] >= 0
            BY <1>0, <3>1
        <3>4. A[i] \in Int /\ A[i + n] \in Int
            BY <1>1, <3>1
        <3>5. A[i] <= A[i + n]
            BY <1>0, <3>1
        <3> QED BY <3>2, <3>3, <3>4, <3>5
    <2> QED BY <2>1
<1>4. B = Nat
    <2> B \in SUBSET Nat
        OBVIOUS
    <2> HIDE DEF B
    <2> QED BY <1>2, <1>3, SetInduction
<1> SUFFICES ASSUME NEW j \in 0 .. L, i <= j PROVE A[i] <= A[j]
    OBVIOUS
<1>5. j - i \in Nat /\ i + (j - i) = j /\ i + (j - i) <= L
    BY <1>0
<1>6. j - i \in B
    <2> HIDE DEF B
    <2> QED BY <1>4, <1>5
<1> QED BY <1>5, <1>6

(* The loop's place exists and is where the loop stops. *)
LEMMA PlaceFound ==
    ASSUME NEW U, NEW seq \in Seq(U), NEW time \in [U -> Int], NEW d \in Int
    PROVE  /\ Place(seq, time, d) \in 1 .. Len(seq) + 1
           /\ \A i \in 1 .. Place(seq, time, d) - 1 : Accum(seq, time)[i] <= d
           /\ Place(seq, time, d) <= Len(seq) =>
                  d < Accum(seq, time)[Place(seq, time, d)]
<1> DEFINE L == Len(seq)
           A == Accum(seq, time)
           P(p) == (\A i \in 1 .. p - 1 : A[i] <= d) /\ (p <= L => d < A[p])
           B == {n \in Nat : n <= L => \A i \in 1 .. n : A[i] <= d}
<1>0. L \in Nat /\ \A i \in 1 .. L : A[i] \in Int
    <2>1. L \in Nat
        BY LenProperties
    <2>2. A \in [0 .. L -> Int]
        BY AccumDef
    <2> HIDE DEF A
    <2> QED BY <2>1, <2>2
<1> HIDE DEF A
<1>1. \E p \in 1 .. L + 1 : P(p)
    <2> SUFFICES ASSUME \A p \in 1 .. L + 1 : ~P(p) PROVE FALSE
        OBVIOUS
    <2>1. 0 \in B
        OBVIOUS
    <2>2. ASSUME NEW n \in B PROVE n + 1 \in B
        <3> SUFFICES ASSUME n + 1 <= L PROVE \A i \in 1 .. n + 1 : A[i] <= d
            OBVIOUS
        <3>1. n + 1 \in 1 .. L + 1 /\ n + 1 \in 1 .. L
            BY <1>0
        <3>2. \A i \in 1 .. n : A[i] <= d
            BY <1>0
        <3>3. ~(d < A[n + 1])
            BY <3>1, <3>2
        <3>4. A[n + 1] <= d
            BY <1>0, <3>1, <3>3
        <3> QED BY <3>2, <3>4
    <2>3. B = Nat
        <3> B \in SUBSET Nat
            OBVIOUS
        <3> HIDE DEF B
        <3> QED BY <2>1, <2>2, SetInduction
    <2>4. L + 1 \in 1 .. L + 1 /\ ~(L + 1 <= L) /\ L \in B
        BY <1>0, <2>3
    <2>5. \A i \in 1 .. (L + 1) - 1 : A[i] <= d
        BY <1>0, <2>4
    <2> QED BY <2>4, <2>5
<1>2. Place(seq, time, d) = CHOOSE p \in 1 .. L + 1 : P(p)
    BY DEF Place, A
<1> HIDE DEF P
<1>3. Place(seq, time, d) \in 1 .. L + 1 /\ P(Place(seq, time, d))
    BY <1>1, <1>2
<1> QED BY <1>3 DEF P, A

(* A list with an entry put in at place p. *)
LEMMA Inserted ==
    ASSUME NEW U, NEW seq \in Seq(U), NEW u \in U, NEW p \in 1 .. Len(seq) + 1
    PROVE  /\ InsertAt(seq, p, u) \in Seq(U)
           /\ Len(InsertAt(seq, p, u)) = Len(seq) + 1
           /\ \A i \in 1 .. p - 1 : InsertAt(seq, p, u)[i] = seq[i]
           /\ InsertAt(seq, p, u)[p] = u
           /\ \A i \in p + 1 .. Len(seq) + 1 : InsertAt(seq, p, u)[i] = seq[i - 1]
<1> DEFINE L == Len(seq)
           f == SubSeq(seq, 1, p - 1)
           g == SubSeq(seq, p, L)
           h == f \o <<u>>
<1>0. L \in Nat /\ p \in Nat /\ \A i \in 1 .. L : seq[i] \in U
    BY LenProperties, ElementOfSeq
<1>1. f \in Seq(U) /\ Len(f) = p - 1 /\ \A i \in 1 .. p - 1 : f[i] = seq[i]
    <2> \A i \in 1 .. p - 1 : seq[i] \in U
        BY <1>0
    <2> QED BY <1>0, SubSeqProperties
<1>2. g \in Seq(U) /\ Len(g) = L - p + 1 /\ \A i \in 1 .. L - p + 1 : g[i] = seq[p + i - 1]
    <2> \A i \in p .. L : seq[i] \in U
        BY <1>0
    <2> QED BY <1>0, SubSeqProperties
<1> HIDE DEF f, g
<1>3. <<u>> \in Seq(U) /\ Len(<<u>>) = 1 /\ <<u>>[1] = u
    OBVIOUS
<1>4. h \in Seq(U) /\ Len(h) = p /\ \A i \in 1 .. p : h[i] = IF i <= p - 1 THEN f[i] ELSE u
    BY <1>0, <1>1, <1>3, ConcatProperties
<1> HIDE DEF h
<1>5. /\ h \o g \in Seq(U) /\ Len(h \o g) = L + 1
      /\ \A i \in 1 .. L + 1 : (h \o g)[i] = IF i <= p THEN h[i] ELSE g[i - p]
    BY <1>0, <1>2, <1>4, ConcatProperties
<1>6. InsertAt(seq, p, u) = h \o g
    BY DEF InsertAt, f, g, h
<1>7. \A i \in 1 .. p - 1 : (h \o g)[i] = seq[i]
    BY <1>0, <1>1, <1>4, <1>5
<1>8. (h \o g)[p] = u
    BY <1>0, <1>4, <1>5
<1>9. ASSUME NEW i \in p + 1 .. L + 1 PROVE (h \o g)[i] = seq[i - 1]
    <2>1. i \in 1 .. L + 1 /\ ~(i <= p) /\ i - p \in 1 .. L - p + 1
        BY <1>0
    <2>2. (h \o g)[i] = g[i - p] /\ g[i - p] = seq[p + (i - p) - 1]
        BY <1>2, <1>5, <2>1
    <2> QED BY <1>0, <2>2
<1> QED BY <1>5, <1>6, <1>7, <1>8, <1>9

(* A list with the entry at place p taken out. *)
LEMMA Removed ==
    ASSUME NEW U, NEW seq \in Seq(U), NEW p \in 1 .. Len(seq)
    PROVE  /\ RemoveAt(seq, p) \in Seq(U)
           /\ Len(RemoveAt(seq, p)) = Len(seq) - 1
           /\ \A i \in 1 .. p - 1 : RemoveAt(seq, p)[i] = seq[i]
           /\ \A i \in p .. Len(seq) - 1 : RemoveAt(seq, p)[i] = seq[i + 1]
<1> DEFINE L == Len(seq)
           f == SubSeq(seq, 1, p - 1)
           g == SubSeq(seq, p + 1, L)
<1>0. L \in Nat /\ p \in Nat /\ \A i \in 1 .. L : seq[i] \in U
    BY LenProperties, ElementOfSeq
<1>1. f \in Seq(U) /\ Len(f) = p - 1 /\ \A i \in 1 .. p - 1 : f[i] = seq[i]
    <2> \A i \in 1 .. p - 1 : seq[i] \in U
        BY <1>0
    <2> QED BY <1>0, SubSeqProperties
<1>2. g \in Seq(U) /\ Len(g) = L - p /\ \A i \in 1 .. L - p : g[i] = seq[p + i]
    <2>1. \A i \in p + 1 .. L : seq[i] \in U
        BY <1>0
    <2>2. /\ g \in Seq(U)
          /\ Len(g) = IF p + 1 <= L THEN L - (p + 1) + 1 ELSE 0
          /\ \A i \in 1 .. L - (p + 1) + 1 : g[i] = seq[p + 1 + i - 1]
        BY <1>0, <2>1, SubSeqProperties
    <2> QED BY <1>0, <2>2
<1> HIDE DEF f, g
<1>3. /\ f \o g \in Seq(U) /\ Len(f \o g) = L - 1
      /\ \A i \in 1 .. L - 1 : (f \o g)[i] = IF i <= p - 1 THEN f[i] ELSE g[i - (p - 1)]
    BY <1>0, <1>1, <1>2, ConcatProperties
<1>4. RemoveAt(seq, p) = f \o g
    BY DEF RemoveAt, f, g
<1>5. \A i \in 1 .. p - 1 : (f \o g)[i] = seq[i]
    BY <1>0, <1>1, <1>3
<1>6. ASSUME NEW i \in p .. L - 1 PROVE (f \o g)[i] = seq[i + 1]
    <2>1. i \in 1 .. L - 1 /\ ~(i <= p - 1) /\ i - (p - 1) \in 1 .. L - p
        BY <1>0
    <2>2. (f \o g)[i] = g[i - (p - 1)] /\ g[i - (p - 1)] = seq[p + (i - (p - 1))]
        BY <1>2, <1>3, <2>1
    <2> QED BY <1>0, <2>2
<1> QED BY <1>3, <1>4, <1>5, <1>6

(* What the places of a sequence hold. *)
Holds(seq, v) == \E i \in 1 .. Len(seq) : seq[i] = v

NoRepeat(seq) == \A i, j \in 1 .. Len(seq) : seq[i] = seq[j] => i = j

(* s and t are a list again that holds u besides the units of seq. *)
Joined(U, seq, time, u, s, t) ==
    /\ s \in Seq(U) /\ s # <<>> /\ NoRepeat(s)
    /\ \A v : Holds(s, v) <=> (v = u \/ Holds(seq, v))
    /\ t \in [U -> Int]
    /\ \A v \in U : v # u /\ ~Holds(seq, v) => t[v] = time[v]

With(U, seq, time, u, s, t) ==
    /\ Joined(U, seq, time, u, s, t)
    /\ \A v \in U : t[v] >= 0

(* Insertion keeps a list of distinct units one, and touches the deltas of *)
(* listed units only.                                                      *)
LEMMA LinkShape ==
    ASSUME NEW U, NEW seq \in Seq(U), NEW time \in [U -> Int], NEW u \in U,
           NEW d \in Int,
           NoRepeat(seq), ~Holds(seq, u)
    PROVE  Joined(U, seq, time, u, Linked(seq, time, u, d), LinkedTime(seq, time, u, d))
<1> DEFINE L == Len(seq)
           A == Accum(seq, time)
           p == Place(seq, time, d)
           s == Linked(seq, time, u, d)
           t == LinkedTime(seq, time, u, d)
           own == d - A[p - 1]
<1>0. L \in Nat /\ \A i \in 1 .. L : seq[i] \in U
    BY LenProperties, ElementOfSeq
<1>1. p \in 1 .. L + 1 /\ (\A i \in 1 .. p - 1 : A[i] <= d) /\ (p <= L => d < A[p])
    BY PlaceFound
<1>2. /\ A \in [0 .. L -> Int] /\ A[0] = 0
      /\ \A i \in 1 .. L : A[i] = A[i - 1] + time[seq[i]]
    BY AccumDef
<1> HIDE DEF p, A
<1>3. /\ s \in Seq(U) /\ Len(s) = L + 1
      /\ \A i \in 1 .. p - 1 : s[i] = seq[i]
      /\ s[p] = u
      /\ \A i \in p + 1 .. L + 1 : s[i] = seq[i - 1]
    <2>1. s = InsertAt(seq, p, u)
        BY DEF Linked, p
    <2>2. p \in 1 .. Len(seq) + 1
        BY <1>1
    <2> HIDE DEF s, L
    <2>3. /\ InsertAt(seq, p, u) \in Seq(U)
          /\ Len(InsertAt(seq, p, u)) = Len(seq) + 1
          /\ \A i \in 1 .. p - 1 : InsertAt(seq, p, u)[i] = seq[i]
          /\ InsertAt(seq, p, u)[p] = u
          /\ \A i \in p + 1 .. Len(seq) + 1 : InsertAt(seq, p, u)[i] = seq[i - 1]
        BY <2>2, Inserted, SMTT(60)
    <2> QED BY <2>1, <2>3 DEF L
<1>4. t = IF p <= L THEN [[time EXCEPT ![u] = own] EXCEPT ![seq[p]] = @ - own]
          ELSE [time EXCEPT ![u] = own]
    BY DEF LinkedTime, p, A
<1> HIDE DEF s, t
<1>5. own \in Int
    <2>1. p - 1 \in 0 .. L
        BY <1>0, <1>1
    <2>2. A[p - 1] \in Int
        BY <1>2, <2>1
    <2> QED BY <2>2
<1>6. p <= L => seq[p] \in U /\ seq[p] # u
    <2> SUFFICES ASSUME p <= L PROVE seq[p] \in U /\ seq[p] # u
        OBVIOUS
    <2> p \in 1 .. L
        BY <1>0, <1>1
    <2> QED BY <1>0 DEF Holds
<1> HIDE DEF own
<1>7. s # <<>>
    BY <1>0, <1>3, EmptySeq
<1>8. \A v : Holds(s, v) <=> (v = u \/ Holds(seq, v))
    <2> TAKE v
    <2>1. ASSUME Holds(s, v) PROVE v = u \/ Holds(seq, v)
        <3>1. PICK i \in 1 .. L + 1 : s[i] = v
            BY <1>3, <2>1 DEF Holds
        <3>2. CASE i < p
            <4> i \in 1 .. p - 1 /\ i \in 1 .. L
                BY <1>0, <1>1, <3>2
            <4> QED BY <1>3, <3>1 DEF Holds
        <3>3. CASE i = p
            BY <1>3, <3>1, <3>3
        <3>4. CASE i > p
            <4> i \in p + 1 .. L + 1 /\ i - 1 \in 1 .. L
                BY <1>0, <1>1, <3>4
            <4> QED BY <1>3, <3>1 DEF Holds
        <3> QED BY <1>1, <3>2, <3>3, <3>4
    <2>2. Holds(s, u)
        <3> p \in 1 .. Len(s)
            BY <1>0, <1>1, <1>3
        <3> QED BY <1>3 DEF Holds
    <2>3. ASSUME Holds(seq, v) PROVE Holds(s, v)
        <3>1. PICK i \in 1 .. L : seq[i] = v
            BY <2>3 DEF Holds
        <3>2. CASE i < p
            <4> i \in 1 .. p - 1 /\ i \in 1 .. Len(s)
                BY <1>0, <1>1, <1>3, <3>2
            <4> QED BY <1>3, <3>1 DEF Holds
        <3>3. CASE i >= p
            <4>1. i + 1 \in p + 1 .. L + 1 /\ i + 1 \in 1 .. Len(s) /\ (i + 1) - 1 = i
                BY <1>0, <1>1, <1>3, <3>3
            <4>2. s[i + 1] = v
                BY <1>3, <3>1, <4>1
            <4> QED BY <4>1, <4>2 DEF Holds
        <3> QED BY <1>1, <3>2, <3>3
    <2> QED BY <2>1, <2>2, <2>3
<1>9. NoRepeat(s)
    <2> DEFINE back(i) == IF i < p THEN i ELSE i - 1
    <2>1. ASSUME NEW i \in 1 .. L + 1, i # p
          PROVE  back(i) \in 1 .. L /\ s[i] = seq[back(i)]
        <3>1. CASE i < p
            <4>1. i \in 1 .. p - 1 /\ i \in 1 .. L /\ back(i) = i
                BY <1>0, <1>1, <3>1
            <4> HIDE DEF back
            <4> QED BY <1>3, <4>1
        <3>2. CASE i > p
            <4>1. i \in p + 1 .. L + 1 /\ i - 1 \in 1 .. L /\ back(i) = i - 1
                BY <1>0, <1>1, <3>2
            <4> HIDE DEF back
            <4> QED BY <1>3, <4>1
        <3> QED BY <1>1, <2>1, <3>1, <3>2
    <2>2. ASSUME NEW i \in 1 .. L + 1, i # p PROVE s[i] # u
        <3> HIDE DEF back
        <3> QED BY <2>1, <2>2 DEF Holds
    <2>3. ASSUME NEW i \in 1 .. L + 1, NEW j \in 1 .. L + 1, s[i] = s[j], i # p, j # p
          PROVE  i = j
        <3>1. back(i) = back(j)
            <4> HIDE DEF back
            <4> QED BY <2>1, <2>3 DEF NoRepeat
        <3> QED BY <1>1, <2>3, <3>1
    <2> QED BY <1>1, <1>3, <2>2, <2>3 DEF NoRepeat
<1>10. t \in [U -> Int]
    BY <1>4, <1>5, <1>6
<1>11. \A v \in U : v # u /\ ~Holds(seq, v) => t[v] = time[v]
    <2>1. p <= L => Holds(seq, seq[p])
        BY <1>0, <1>1 DEF Holds
    <2> QED BY <1>4, <1>6, <2>1
<1> QED BY <1>3, <1>7, <1>8, <1>9, <1>10, <1>11 DEF Joined, s, t

(* Natural deltas stay natural. *)
LEMMA LinkKeeps ==
    ASSUME NEW U, NEW seq \in Seq(U), NEW time \in [U -> Int], NEW u \in U,
           NEW d \in Int,
           NoRepeat(seq), ~Holds(seq, u), \A v \in U : time[v] >= 0, d >= 0
    PROVE  With(U, seq, time, u, Linked(seq, time, u, d), LinkedTime(seq, time, u, d))
<1> DEFINE L == Len(seq)
           A == Accum(seq, time)
           p == Place(seq, time, d)
           t == LinkedTime(seq, time, u, d)
           own == d - A[p - 1]
<1>0. L \in Nat /\ \A i \in 1 .. L : seq[i] \in U
    BY LenProperties, ElementOfSeq
<1>1. p \in 1 .. L + 1 /\ (\A i \in 1 .. p - 1 : A[i] <= d) /\ (p <= L => d < A[p])
    BY PlaceFound
<1>2. /\ A \in [0 .. L -> Int] /\ A[0] = 0
      /\ \A i \in 1 .. L : A[i] = A[i - 1] + time[seq[i]]
    BY AccumDef
<1>3. Joined(U, seq, time, u, Linked(seq, time, u, d), t)
    BY LinkShape
<1>4. t = IF p <= L THEN [[time EXCEPT ![u] = own] EXCEPT ![seq[p]] = @ - own]
          ELSE [time EXCEPT ![u] = own]
    BY DEF LinkedTime
<1> HIDE DEF t, p, A
<1>5. own \in Int /\ own >= 0
    <2>1. CASE p = 1
        BY <1>2, <2>1
    <2>2. CASE p # 1
        <3>1. p - 1 \in 1 .. p - 1 /\ p - 1 \in 0 .. L
            BY <1>0, <1>1, <2>2
        <3>2. A[p - 1] <= d /\ A[p - 1] \in Int
            BY <1>1, <1>2, <3>1
        <3> QED BY <3>2
    <2> QED BY <2>1, <2>2
<1>6. p <= L => seq[p] \in U /\ seq[p] # u /\ time[seq[p]] - own >= 0
    <2> SUFFICES ASSUME p <= L PROVE seq[p] \in U /\ seq[p] # u /\ time[seq[p]] - own >= 0
        OBVIOUS
    <2>1. p \in 1 .. L /\ p - 1 \in 0 .. L
        BY <1>0, <1>1
    <2>2. seq[p] \in U /\ seq[p] # u
        BY <1>0, <2>1 DEF Holds
    <2>3. A[p] = A[p - 1] + time[seq[p]] /\ d < A[p]
        BY <1>1, <1>2, <2>1
    <2>4. A[p - 1] \in Int /\ time[seq[p]] \in Int
        BY <1>2, <2>1, <2>2
    <2> QED BY <2>2, <2>3, <2>4
<1> HIDE DEF own
<1>7. \A v \in U : t[v] >= 0
    BY <1>4, <1>5, <1>6
<1> QED BY <1>3, <1>7 DEF With, t

(* A unit's place is where it is. *)
LEMMA PlaceOfFound ==
    ASSUME NEW seq, NEW u, Holds(seq, u)
    PROVE  PlaceOf(seq, u) \in 1 .. Len(seq) /\ seq[PlaceOf(seq, u)] = u
BY DEF PlaceOf, Holds

(* s and t are a list again that holds the units of seq but u. *)
Parted(U, seq, time, u, s, t) ==
    /\ s \in Seq(U) /\ NoRepeat(s)
    /\ \A v : Holds(s, v) <=> (v # u /\ Holds(seq, v))
    /\ t \in [U -> Int]
    /\ \A v \in U : ~Holds(seq, v) => t[v] = time[v]

Without(U, seq, time, u, s, t) ==
    /\ Parted(U, seq, time, u, s, t)
    /\ t[u] = 0
    /\ \A v \in U : t[v] >= 0

(* Removal keeps a list of distinct units one. *)
LEMMA UnlinkShape ==
    ASSUME NEW U, NEW seq \in Seq(U), NEW time \in [U -> Int], NEW u \in U,
           NoRepeat(seq), Holds(seq, u)
    PROVE  Parted(U, seq, time, u, Unlinked(seq, u), UnlinkedTime(seq, time, u))
<1> DEFINE L == Len(seq)
           p == PlaceOf(seq, u)
           s == Unlinked(seq, u)
           t == UnlinkedTime(seq, time, u)
<1>0. L \in Nat /\ \A i \in 1 .. L : seq[i] \in U
    BY LenProperties, ElementOfSeq
<1>1. p \in 1 .. L /\ seq[p] = u
    BY PlaceOfFound
<1> HIDE DEF p
<1>2. /\ s \in Seq(U) /\ Len(s) = L - 1
      /\ \A i \in 1 .. p - 1 : s[i] = seq[i]
      /\ \A i \in p .. L - 1 : s[i] = seq[i + 1]
    <2>1. s = RemoveAt(seq, p)
        BY DEF Unlinked, p
    <2> HIDE DEF s
    <2> QED BY <1>1, <2>1, Removed
<1>3. t = IF p < L THEN [time EXCEPT ![seq[p + 1]] = @ + time[u]] ELSE time
    BY DEF UnlinkedTime, p
<1> HIDE DEF s, t
<1> DEFINE from(i) == IF i < p THEN i ELSE i + 1
<1>4. ASSUME NEW i \in 1 .. L - 1
      PROVE  from(i) \in 1 .. L /\ from(i) # p /\ s[i] = seq[from(i)]
    <2>1. CASE i < p
        <3>1. i \in 1 .. p - 1 /\ i \in 1 .. L /\ from(i) = i
            BY <1>0, <1>1, <2>1
        <3> HIDE DEF from
        <3> QED BY <1>2, <2>1, <3>1
    <2>2. CASE i >= p
        <3>1. i \in p .. L - 1 /\ i + 1 \in 1 .. L /\ i + 1 # p /\ from(i) = i + 1
            BY <1>0, <1>1, <2>2
        <3> HIDE DEF from
        <3> QED BY <1>2, <3>1
    <2> QED BY <1>1, <2>1, <2>2
<1>5. \A v : Holds(s, v) <=> (v # u /\ Holds(seq, v))
    <2> TAKE v
    <2>1. ASSUME Holds(s, v) PROVE v # u /\ Holds(seq, v)
        <3>1. PICK i \in 1 .. L - 1 : s[i] = v
            BY <1>2, <2>1 DEF Holds
        <3> HIDE DEF from
        <3>2. from(i) \in 1 .. L /\ from(i) # p /\ seq[from(i)] = v
            BY <1>4, <3>1
        <3> QED BY <1>1, <3>2 DEF Holds, NoRepeat
    <2>2. ASSUME v # u, Holds(seq, v) PROVE Holds(s, v)
        <3>1. PICK i \in 1 .. L : seq[i] = v
            BY <2>2 DEF Holds
        <3>2. i # p
            BY <1>1, <2>2, <3>1
        <3>3. CASE i < p
            <4> i \in 1 .. p - 1 /\ i \in 1 .. Len(s)
                BY <1>0, <1>1, <1>2, <3>3
            <4> QED BY <1>2, <3>1 DEF Holds
        <3>4. CASE i > p
            <4>1. i - 1 \in p .. L - 1 /\ i - 1 \in 1 .. Len(s) /\ (i - 1) + 1 = i
                BY <1>0, <1>1, <1>2, <3>4
            <4>2. s[i - 1] = v
                BY <1>2, <3>1, <4>1
            <4> QED BY <4>1, <4>2 DEF Holds
        <3> QED BY <1>1, <3>2, <3>3, <3>4
    <2> QED BY <2>1, <2>2
<1>6. NoRepeat(s)
    <2>1. ASSUME NEW i \in 1 .. L - 1, NEW j \in 1 .. L - 1, s[i] = s[j]
          PROVE  i = j
        <3>1. from(i) = from(j)
            <4> HIDE DEF from
            <4> QED BY <1>4, <2>1 DEF NoRepeat
        <3> QED BY <1>1, <3>1
    <2> QED BY <1>2, <2>1 DEF NoRepeat
<1>7. p < L => seq[p + 1] \in U /\ Holds(seq, seq[p + 1])
    <2> SUFFICES ASSUME p < L PROVE seq[p + 1] \in U /\ Holds(seq, seq[p + 1])
        OBVIOUS
    <2> p + 1 \in 1 .. L
        BY <1>0, <1>1
    <2> QED BY <1>0 DEF Holds
<1>8. t \in [U -> Int] /\ \A v \in U : ~Holds(seq, v) => t[v] = time[v]
    <2>1. CASE p < L
        BY <1>3, <1>7, <2>1
    <2>2. CASE ~(p < L)
        BY <1>3, <2>2
    <2> QED BY <2>1, <2>2
<1> QED BY <1>2, <1>5, <1>6, <1>8 DEF Parted, s, t

(* Natural deltas stay natural, once the removed unit's is cleared. *)
LEMMA UnlinkKeeps ==
    ASSUME NEW U, NEW seq \in Seq(U), NEW time \in [U -> Int], NEW u \in U,
           NoRepeat(seq), Holds(seq, u), \A v \in U : time[v] >= 0
    PROVE  Without(U, seq, time, u, Unlinked(seq, u),
                   [UnlinkedTime(seq, time, u) EXCEPT ![u] = 0])
<1> DEFINE L == Len(seq)
           p == PlaceOf(seq, u)
           s == Unlinked(seq, u)
           t0 == UnlinkedTime(seq, time, u)
           t == [t0 EXCEPT ![u] = 0]
<1>0. L \in Nat /\ \A i \in 1 .. L : seq[i] \in U
    BY LenProperties, ElementOfSeq
<1>1. p \in 1 .. L /\ seq[p] = u
    BY PlaceOfFound
<1>2. Parted(U, seq, time, u, s, t0)
    BY UnlinkShape
<1>3. t0 = IF p < L THEN [time EXCEPT ![seq[p + 1]] = @ + time[u]] ELSE time
    BY DEF UnlinkedTime
<1> HIDE DEF p, s, t0
<1>4. p < L => seq[p + 1] \in U
    <2> SUFFICES ASSUME p < L PROVE seq[p + 1] \in U
        OBVIOUS
    <2> p + 1 \in 1 .. L
        BY <1>0, <1>1
    <2> QED BY <1>0
<1>5. \A v \in U : t0[v] >= 0
    <2>1. CASE p < L
        BY <1>3, <1>4, <2>1
    <2>2. CASE ~(p < L)
        BY <1>3, <2>2
    <2> QED BY <2>1, <2>2
<1>6. t0 \in [U -> Int]
    BY <1>2 DEF Parted
<1>7. t \in [U -> Int] /\ t[u] = 0 /\ \A v \in U : t[v] >= 0 /\ (v # u => t[v] = t0[v])
    BY <1>5, <1>6
<1> HIDE DEF t
<1>8. Parted(U, seq, time, u, s, t)
    BY <1>2, <1>7 DEF Parted
<1> QED BY <1>7, <1>8 DEF Without, s, t, t0

-----------------------------------------------------------------------------
(* The accumulated times of a changed list.  From a in the one sequence of *)
(* sums and b in the other the same n deltas are added.                    *)
SameDeltas(A1, A2, a, b, n) ==
    \A k \in 1 .. n :
        \E x \in Int : /\ A1[a + (k - 1)] \in Int
                       /\ A1[a + k] = A1[a + (k - 1)] + x
                       /\ A2[b + k] = A2[b + (k - 1)] + x

SameSums(A1, A2, a, b, n) == \A k \in 0 .. n : A2[b + k] = A1[a + k]

LEMMA SumsAgree ==
    ASSUME NEW A1, NEW A2, NEW a \in Nat, NEW b \in Nat, NEW n \in Nat,
           A2[b] = A1[a], SameDeltas(A1, A2, a, b, n)
    PROVE  SameSums(A1, A2, a, b, n)
<1> DEFINE B == {k \in Nat : k <= n => A2[b + k] = A1[a + k]}
<1>1. 0 \in B
    OBVIOUS
<1>2. ASSUME NEW k \in B PROVE k + 1 \in B
    <2> SUFFICES ASSUME k + 1 <= n PROVE A2[b + (k + 1)] = A1[a + (k + 1)]
        OBVIOUS
    <2>1. k \in Nat /\ k <= n /\ A2[b + k] = A1[a + k] /\ k + 1 \in 1 .. n /\ (k + 1) - 1 = k
        OBVIOUS
    <2>2. PICK x \in Int : /\ A1[a + k] \in Int
                           /\ A1[a + (k + 1)] = A1[a + k] + x
                           /\ A2[b + (k + 1)] = A2[b + k] + x
        BY <2>1 DEF SameDeltas
    <2> QED BY <2>1, <2>2
<1>3. B = Nat
    <2> B \in SUBSET Nat
        OBVIOUS
    <2> HIDE DEF B
    <2> QED BY <1>1, <1>2, SetInduction
<1>4. \A k \in 0 .. n : k \in Nat /\ k <= n
    OBVIOUS
<1> QED BY <1>3, <1>4 DEF SameSums

(* Indices behind a place p of a list of L. *)
LEMMA Behind ==
    \A L \in Nat : \A p \in 1 .. L : \A k \in 1 .. L - p :
        /\ (p + 1) + k \in p + 1 .. L + 1 /\ (p + 1) + k \in 1 .. L + 1
        /\ ((p + 1) + k) - 1 = p + k
        /\ p + k \in 1 .. L /\ p + k # p
        /\ p + (k - 1) = (p + k) - 1 /\ p + (k - 1) \in 0 .. L
        /\ (p + 1) + (k - 1) = p + k
OBVIOUS

LEMMA BehindNext ==
    \A L \in Nat : \A p \in 1 .. L : \A k \in 1 .. (L - 1) - p :
        /\ p + k \in p .. L - 1 /\ p + k \in 1 .. L - 1 /\ (p + k) + 1 = (p + 1) + k
        /\ (p + 1) + k \in 1 .. L /\ (p + 1) + k # p /\ (p + 1) + k # p + 1
        /\ (p + 1) + (k - 1) = ((p + 1) + k) - 1 /\ p + (k - 1) = (p + k) - 1
        /\ (p + 1) + (k - 1) \in 0 .. L
OBVIOUS

(* An insertion moves no other unit: the sums before the new one stay, its *)
(* own is its delay, and those behind it are found one place further.      *)
LinkedInPlace(seq, time, u, d) ==
    LET p == Place(seq, time, d)
        A == Accum(seq, time)
        B == Accum(Linked(seq, time, u, d), LinkedTime(seq, time, u, d))
    IN  /\ \A i \in 0 .. p - 1 : B[i] = A[i]
        /\ B[p] = d
        /\ \A i \in p .. Len(seq) : B[i + 1] = A[i]

LEMMA LinkedSums ==
    ASSUME NEW U, NEW seq \in Seq(U), NEW time \in [U -> Int], NEW u \in U,
           NEW d \in Int, NoRepeat(seq), ~Holds(seq, u)
    PROVE  LinkedInPlace(seq, time, u, d)
<1> DEFINE L == Len(seq)
           p == Place(seq, time, d)
           s == Linked(seq, time, u, d)
           t == LinkedTime(seq, time, u, d)
           A == Accum(seq, time)
           B == Accum(s, t)
           own == d - A[p - 1]
<1>0. /\ L \in Nat /\ (\A i \in 1 .. L : seq[i] \in U /\ seq[i] # u)
      /\ p \in 1 .. L + 1
    BY LenProperties, ElementOfSeq, PlaceFound DEF Holds
<1>1. /\ s \in Seq(U) /\ t \in [U -> Int]
    BY LinkShape DEF Joined
<1>2. /\ Len(s) = L + 1
      /\ \A i \in 1 .. p - 1 : s[i] = seq[i]
      /\ s[p] = u
      /\ \A i \in p + 1 .. L + 1 : s[i] = seq[i - 1]
    <2>1. s = InsertAt(seq, p, u)
        BY DEF Linked
    <2>2. p \in 1 .. Len(seq) + 1
        BY <1>0
    <2> HIDE DEF s, L, p
    <2>3. /\ InsertAt(seq, p, u) \in Seq(U)
          /\ Len(InsertAt(seq, p, u)) = Len(seq) + 1
          /\ \A i \in 1 .. p - 1 : InsertAt(seq, p, u)[i] = seq[i]
          /\ InsertAt(seq, p, u)[p] = u
          /\ \A i \in p + 1 .. Len(seq) + 1 : InsertAt(seq, p, u)[i] = seq[i - 1]
        BY <2>2, Inserted, SMTT(60)
    <2> QED BY <2>1, <2>3 DEF L
<1>3. t = IF p <= L THEN [[time EXCEPT ![u] = own] EXCEPT ![seq[p]] = @ - own]
          ELSE [time EXCEPT ![u] = own]
    BY DEF LinkedTime
<1>4. /\ A \in [0 .. L -> Int] /\ A[0] = 0
      /\ \A i \in 1 .. L : A[i] = A[i - 1] + time[seq[i]]
    BY AccumDef
<1>5. /\ B \in [0 .. Len(s) -> Int] /\ B[0] = 0
      /\ \A i \in 1 .. Len(s) : B[i] = B[i - 1] + t[s[i]]
    <2> HIDE DEF s, t
    <2> QED BY <1>1, AccumDef
<1>6. LinkedInPlace(seq, time, u, d) <=>
          /\ \A i \in 0 .. p - 1 : B[i] = A[i]
          /\ B[p] = d
          /\ \A i \in p .. L : B[i + 1] = A[i]
    BY DEF LinkedInPlace
<1> HIDE DEF s, t, p, A, B
<1>7. own \in Int
    <2>1. p - 1 \in 0 .. L
        BY <1>0
    <2>2. A[p - 1] \in Int
        BY <1>4, <2>1
    <2> QED BY <1>0, <2>2
<1> HIDE DEF own
<1>8. /\ t[u] = own
      /\ p <= L => t[seq[p]] = time[seq[p]] - own
      /\ \A v \in U : v # u /\ (p <= L => v # seq[p]) => t[v] = time[v]
    BY <1>0, <1>3, <1>7
<1>9. \A i \in 0 .. p - 1 : B[i] = A[i]
    <2>1. p - 1 \in Nat
        BY <1>0
    <2>2. ASSUME NEW k \in 1 .. p - 1 PROVE t[s[k]] = time[seq[k]]
        <3>1. k \in 1 .. L /\ k # p
            BY <1>0
        <3>2. s[k] = seq[k] /\ seq[k] \in U /\ seq[k] # u
            BY <1>0, <1>2, <3>1
        <3>3. p <= L => seq[k] # seq[p]
            BY <1>0, <3>1 DEF NoRepeat
        <3> QED BY <1>8, <3>1, <3>2, <3>3
    <2>3. SameDeltas(A, B, 0, 0, p - 1)
        <3> SUFFICES ASSUME NEW k \in 1 .. p - 1
                     PROVE  \E x \in Int : /\ A[0 + (k - 1)] \in Int
                                           /\ A[0 + k] = A[0 + (k - 1)] + x
                                           /\ B[0 + k] = B[0 + (k - 1)] + x
            BY DEF SameDeltas
        <3>1. /\ 0 + k = k /\ 0 + (k - 1) = k - 1 /\ k - 1 \in 0 .. L
              /\ k \in 1 .. L /\ k \in 1 .. Len(s)
            BY <1>0, <1>2
        <3>2. A[k - 1] \in Int /\ time[seq[k]] \in Int
            BY <1>0, <1>4, <3>1
        <3>3. A[k] = A[k - 1] + time[seq[k]] /\ B[k] = B[k - 1] + t[s[k]]
            BY <1>4, <1>5, <3>1
        <3> QED BY <2>2, <3>1, <3>2, <3>3
    <2>4. SameSums(A, B, 0, 0, p - 1)
        <3> B[0] = A[0] /\ 0 \in Nat
            BY <1>4, <1>5
        <3> QED BY <2>1, <2>3, SumsAgree
    <2>5. \A k \in 0 .. p - 1 : 0 + k = k
        BY <1>0
    <2> QED BY <2>4, <2>5 DEF SameSums
<1>10. B[p] = d
    <2>1. p \in 1 .. Len(s) /\ p - 1 \in 0 .. p - 1 /\ p - 1 \in 0 .. L
        BY <1>0, <1>2
    <2>2. B[p] = B[p - 1] + t[s[p]] /\ B[p - 1] = A[p - 1] /\ A[p - 1] \in Int
        BY <1>4, <1>5, <1>9, <2>1
    <2>3. B[p] = A[p - 1] + own
        BY <1>2, <1>8, <2>2
    <2> QED BY <2>2, <2>3 DEF own
<1>11. \A i \in p .. L : B[i + 1] = A[i]
    <2>0. p > L => p .. L = {}
        BY <1>0
    <2> SUFFICES ASSUME p <= L PROVE \A i \in p .. L : B[i + 1] = A[i]
        BY <1>0, <2>0
    <2>1. /\ p \in Nat /\ p + 1 \in Nat /\ L - p \in Nat
          /\ p \in 1 .. L /\ p - 1 \in 0 .. L /\ p + 1 \in 1 .. Len(s)
          /\ (p + 1) - 1 = p /\ p + 1 \in p + 1 .. L + 1
        BY <1>0, <1>2
    <2>2. B[p + 1] = A[p]
        <3>1. B[p + 1] = B[p] + t[s[p + 1]] /\ s[p + 1] = seq[p]
            BY <1>2, <1>5, <2>1
        <3>2. A[p] = A[p - 1] + time[seq[p]] /\ A[p - 1] \in Int /\ time[seq[p]] \in Int
            BY <1>0, <1>4, <2>1
        <3>3. B[p + 1] = d + (time[seq[p]] - own)
            BY <1>8, <1>10, <3>1
        <3> QED BY <3>2, <3>3 DEF own
    <2>3. ASSUME NEW k \in 1 .. L - p PROVE t[s[(p + 1) + k]] = time[seq[p + k]]
        <3>1. /\ (p + 1) + k \in p + 1 .. L + 1 /\ ((p + 1) + k) - 1 = p + k
              /\ p + k \in 1 .. L /\ p + k # p
            BY <1>0, <2>1, Behind
        <3>2. s[(p + 1) + k] = seq[p + k] /\ seq[p + k] \in U /\ seq[p + k] # u
            BY <1>0, <1>2, <3>1
        <3>3. seq[p + k] # seq[p]
            BY <2>1, <3>1 DEF NoRepeat
        <3> QED BY <1>8, <3>2, <3>3
    <2>4. SameDeltas(A, B, p, p + 1, L - p)
        <3> SUFFICES ASSUME NEW k \in 1 .. L - p
                     PROVE  \E x \in Int : /\ A[p + (k - 1)] \in Int
                                           /\ A[p + k] = A[p + (k - 1)] + x
                                           /\ B[(p + 1) + k] = B[(p + 1) + (k - 1)] + x
            BY DEF SameDeltas
        <3>1. /\ p + (k - 1) = (p + k) - 1 /\ (p + 1) + (k - 1) = ((p + 1) + k) - 1
              /\ p + (k - 1) \in 0 .. L
              /\ p + k \in 1 .. L /\ (p + 1) + k \in 1 .. Len(s)
            BY <1>0, <1>2, <2>1, Behind
        <3>2. A[p + (k - 1)] \in Int /\ time[seq[p + k]] \in Int
            BY <1>0, <1>4, <3>1
        <3>3. /\ A[p + k] = A[p + (k - 1)] + time[seq[p + k]]
              /\ B[(p + 1) + k] = B[(p + 1) + (k - 1)] + t[s[(p + 1) + k]]
            BY <1>4, <1>5, <3>1
        <3> QED BY <2>3, <3>2, <3>3
    <2>5. SameSums(A, B, p, p + 1, L - p)
        BY <2>1, <2>2, <2>4, SumsAgree
    <2> TAKE i \in p .. L
    <2>6. i - p \in 0 .. L - p /\ (p + 1) + (i - p) = i + 1 /\ p + (i - p) = i
        BY <1>0
    <2> QED BY <2>5, <2>6 DEF SameSums
<1> QED BY <1>6, <1>9, <1>10, <1>11

(* A removal moves no other unit either. *)
UnlinkedInPlace(seq, time, u) ==
    LET p == PlaceOf(seq, u)
        A == Accum(seq, time)
        B == Accum(Unlinked(seq, u), [UnlinkedTime(seq, time, u) EXCEPT ![u] = 0])
    IN  /\ \A i \in 0 .. p - 1 : B[i] = A[i]
        /\ \A i \in p .. Len(seq) - 1 : B[i] = A[i + 1]

LEMMA UnlinkedSums ==
    ASSUME NEW U, NEW seq \in Seq(U), NEW time \in [U -> Int], NEW u \in U,
           NoRepeat(seq), Holds(seq, u)
    PROVE  UnlinkedInPlace(seq, time, u)
<1> DEFINE L == Len(seq)
           p == PlaceOf(seq, u)
           s == Unlinked(seq, u)
           t == [UnlinkedTime(seq, time, u) EXCEPT ![u] = 0]
           A == Accum(seq, time)
           B == Accum(s, t)
<1>0. /\ L \in Nat /\ (\A i \in 1 .. L : seq[i] \in U)
      /\ p \in 1 .. L /\ seq[p] = u
    BY LenProperties, ElementOfSeq, PlaceOfFound
<1>1. /\ s \in Seq(U) /\ t \in [U -> Int]
    <2> UnlinkedTime(seq, time, u) \in [U -> Int] /\ s \in Seq(U)
        BY UnlinkShape DEF Parted
    <2> QED OBVIOUS
<1>2. /\ Len(s) = L - 1
      /\ \A i \in 1 .. p - 1 : s[i] = seq[i]
      /\ \A i \in p .. L - 1 : s[i] = seq[i + 1]
    <2>1. s = RemoveAt(seq, p)
        BY DEF Unlinked
    <2> HIDE DEF s, p
    <2> QED BY <1>0, <2>1, Removed
<1>3. t = [IF p < L THEN [time EXCEPT ![seq[p + 1]] = @ + time[u]] ELSE time EXCEPT ![u] = 0]
    BY DEF UnlinkedTime
<1>4. /\ A \in [0 .. L -> Int] /\ A[0] = 0
      /\ \A i \in 1 .. L : A[i] = A[i - 1] + time[seq[i]]
    BY AccumDef
<1>5. /\ B \in [0 .. Len(s) -> Int] /\ B[0] = 0
      /\ \A i \in 1 .. Len(s) : B[i] = B[i - 1] + t[s[i]]
    <2> HIDE DEF s, t
    <2> QED BY <1>1, AccumDef
<1>6. UnlinkedInPlace(seq, time, u) <=>
          /\ \A i \in 0 .. p - 1 : B[i] = A[i]
          /\ \A i \in p .. L - 1 : B[i] = A[i + 1]
    BY DEF UnlinkedInPlace
<1> HIDE DEF s, t, p, A, B
<1>7. \A i \in 1 .. L : i # p => seq[i] # u
    BY <1>0 DEF NoRepeat
<1>8. /\ p < L => t[seq[p + 1]] = time[seq[p + 1]] + time[u]
      /\ \A v \in U : v # u /\ (p < L => v # seq[p + 1]) => t[v] = time[v]
    <2>1. p < L => seq[p + 1] \in U /\ seq[p + 1] # u
        <3> SUFFICES ASSUME p < L PROVE seq[p + 1] \in U /\ seq[p + 1] # u
            OBVIOUS
        <3> p + 1 \in 1 .. L /\ p + 1 # p
            BY <1>0
        <3> QED BY <1>0, <1>7
    <2> QED BY <1>0, <1>3, <2>1
<1>9. \A i \in 0 .. p - 1 : B[i] = A[i]
    <2>1. p - 1 \in Nat
        BY <1>0
    <2>2. ASSUME NEW k \in 1 .. p - 1 PROVE t[s[k]] = time[seq[k]]
        <3>1. k \in 1 .. L /\ k # p
            BY <1>0
        <3>2. s[k] = seq[k] /\ seq[k] \in U /\ seq[k] # u
            BY <1>0, <1>2, <1>7, <3>1
        <3>3. p < L => seq[k] # seq[p + 1]
            <4> SUFFICES ASSUME p < L PROVE seq[k] # seq[p + 1]
                OBVIOUS
            <4> p + 1 \in 1 .. L /\ k # p + 1
                BY <1>0
            <4> QED BY <3>1 DEF NoRepeat
        <3> QED BY <1>8, <3>1, <3>2, <3>3
    <2>3. SameDeltas(A, B, 0, 0, p - 1)
        <3> SUFFICES ASSUME NEW k \in 1 .. p - 1
                     PROVE  \E x \in Int : /\ A[0 + (k - 1)] \in Int
                                           /\ A[0 + k] = A[0 + (k - 1)] + x
                                           /\ B[0 + k] = B[0 + (k - 1)] + x
            BY DEF SameDeltas
        <3>1. /\ 0 + k = k /\ 0 + (k - 1) = k - 1 /\ k - 1 \in 0 .. L
              /\ k \in 1 .. L /\ k \in 1 .. Len(s)
            BY <1>0, <1>2
        <3>2. A[k - 1] \in Int /\ time[seq[k]] \in Int
            BY <1>0, <1>4, <3>1
        <3>3. A[k] = A[k - 1] + time[seq[k]] /\ B[k] = B[k - 1] + t[s[k]]
            BY <1>4, <1>5, <3>1
        <3> QED BY <2>2, <3>1, <3>2, <3>3
    <2>4. SameSums(A, B, 0, 0, p - 1)
        <3> B[0] = A[0] /\ 0 \in Nat
            BY <1>4, <1>5
        <3> QED BY <2>1, <2>3, SumsAgree
    <2>5. \A k \in 0 .. p - 1 : 0 + k = k
        BY <1>0
    <2> QED BY <2>4, <2>5 DEF SameSums
<1>10. \A i \in p .. L - 1 : B[i] = A[i + 1]
    <2> SUFFICES ASSUME p < L PROVE \A i \in p .. L - 1 : B[i] = A[i + 1]
        <3> p >= L => p .. L - 1 = {}
            BY <1>0
        <3> QED BY <1>0
    <2>1. /\ p \in Nat /\ p + 1 \in Nat /\ (L - 1) - p \in Nat
          /\ p \in 1 .. L /\ p - 1 \in 0 .. L /\ p - 1 \in 0 .. p - 1 /\ p + 1 \in 1 .. L
          /\ p \in 1 .. Len(s) /\ p \in p .. L - 1 /\ (p + 1) - 1 = p
        BY <1>0, <1>2
    <2>2. B[p] = A[p + 1]
        <3>1. B[p] = B[p - 1] + t[s[p]] /\ s[p] = seq[p + 1] /\ B[p - 1] = A[p - 1]
            BY <1>2, <1>5, <1>9, <2>1
        <3>2. /\ A[p] = A[p - 1] + time[u] /\ A[p + 1] = A[p] + time[seq[p + 1]]
              /\ A[p - 1] \in Int /\ time[u] \in Int /\ time[seq[p + 1]] \in Int
            BY <1>0, <1>4, <2>1
        <3>3. B[p] = A[p - 1] + (time[seq[p + 1]] + time[u])
            BY <1>8, <3>1
        <3> QED BY <3>2, <3>3
    <2>3. ASSUME NEW k \in 1 .. (L - 1) - p PROVE t[s[p + k]] = time[seq[(p + 1) + k]]
        <3>1. /\ p + k \in p .. L - 1 /\ (p + k) + 1 = (p + 1) + k
              /\ (p + 1) + k \in 1 .. L /\ (p + 1) + k # p /\ (p + 1) + k # p + 1
            BY <1>0, <2>1, BehindNext
        <3>2. s[p + k] = seq[(p + 1) + k] /\ seq[(p + 1) + k] \in U /\ seq[(p + 1) + k] # u
            BY <1>0, <1>2, <1>7, <3>1
        <3>3. seq[(p + 1) + k] # seq[p + 1]
            BY <2>1, <3>1 DEF NoRepeat
        <3> QED BY <1>8, <3>2, <3>3
    <2>4. SameDeltas(A, B, p + 1, p, (L - 1) - p)
        <3> SUFFICES ASSUME NEW k \in 1 .. (L - 1) - p
                     PROVE  \E x \in Int : /\ A[(p + 1) + (k - 1)] \in Int
                                           /\ A[(p + 1) + k] = A[(p + 1) + (k - 1)] + x
                                           /\ B[p + k] = B[p + (k - 1)] + x
            BY DEF SameDeltas
        <3>1. /\ (p + 1) + (k - 1) = ((p + 1) + k) - 1 /\ p + (k - 1) = (p + k) - 1
              /\ (p + 1) + (k - 1) \in 0 .. L
              /\ (p + 1) + k \in 1 .. L /\ p + k \in 1 .. Len(s)
            BY <1>0, <1>2, <2>1, BehindNext
        <3>2. A[(p + 1) + (k - 1)] \in Int /\ time[seq[(p + 1) + k]] \in Int
            BY <1>0, <1>4, <3>1
        <3>3. /\ A[(p + 1) + k] = A[(p + 1) + (k - 1)] + time[seq[(p + 1) + k]]
              /\ B[p + k] = B[p + (k - 1)] + t[s[p + k]]
            BY <1>4, <1>5, <3>1
        <3> QED BY <2>3, <3>2, <3>3
    <2>5. SameSums(A, B, p + 1, p, (L - 1) - p)
        BY <2>1, <2>2, <2>4, SumsAgree
    <2> TAKE i \in p .. L - 1
    <2>6. /\ i - p \in 0 .. (L - 1) - p /\ p + (i - p) = i /\ (p + 1) + (i - p) = i + 1
        BY <1>0
    <2> QED BY <2>5, <2>6 DEF SameSums
<1> QED BY <1>6, <1>9, <1>10

(* In a list without repetition a unit's key is the sum at its place. *)
LEMMA KeyAt ==
    ASSUME NEW seq, NEW time, NoRepeat(seq), NEW i \in 1 .. Len(seq)
    PROVE  PlaceOf(seq, seq[i]) = i /\ Key(seq, time, seq[i]) = Accum(seq, time)[i]
<1>1. Holds(seq, seq[i])
    BY DEF Holds
<1>2. PlaceOf(seq, seq[i]) = i
    BY <1>1, PlaceOfFound DEF NoRepeat
<1> QED BY <1>2 DEF Key

(* The places of the units in a changed list. *)
LinkedAt(seq, p, u, s) ==
    /\ Len(s) = Len(seq) + 1
    /\ \A i \in 1 .. p - 1 : s[i] = seq[i]
    /\ s[p] = u
    /\ \A i \in p + 1 .. Len(seq) + 1 : s[i] = seq[i - 1]

UnlinkedAt(seq, p, s) ==
    /\ Len(s) = Len(seq) - 1
    /\ \A i \in 1 .. p - 1 : s[i] = seq[i]
    /\ \A i \in p .. Len(seq) - 1 : s[i] = seq[i + 1]

LEMMA InsertedPlaces ==
    ASSUME NEW U, NEW seq \in Seq(U), NEW u \in U, NEW p \in 1 .. Len(seq) + 1
    PROVE  LinkedAt(seq, p, u, InsertAt(seq, p, u))
BY Inserted DEF LinkedAt

LEMMA LinkedPlaces ==
    ASSUME NEW U, NEW seq \in Seq(U), NEW time \in [U -> Int], NEW u \in U, NEW d \in Int
    PROVE  LinkedAt(seq, Place(seq, time, d), u, Linked(seq, time, u, d))
<1> DEFINE p == Place(seq, time, d)
           s == Linked(seq, time, u, d)
<1>1. p \in 1 .. Len(seq) + 1 /\ s = InsertAt(seq, p, u)
    BY PlaceFound DEF Linked
<1> HIDE DEF p, s
<1>2. LinkedAt(seq, p, u, InsertAt(seq, p, u))
    BY <1>1, InsertedPlaces
<1>3. LinkedAt(seq, p, u, s)
    BY <1>1, <1>2
<1> QED BY <1>3 DEF p, s

LEMMA UnlinkedPlaces ==
    ASSUME NEW U, NEW seq \in Seq(U), NEW u \in U, Holds(seq, u)
    PROVE  UnlinkedAt(seq, PlaceOf(seq, u), Unlinked(seq, u))
<1> DEFINE p == PlaceOf(seq, u)
           s == Unlinked(seq, u)
<1>1. p \in 1 .. Len(seq) /\ s = RemoveAt(seq, p)
    BY PlaceOfFound DEF Unlinked
<1> HIDE DEF p, s
<1>2. /\ RemoveAt(seq, p) \in Seq(U)
      /\ Len(RemoveAt(seq, p)) = Len(seq) - 1
      /\ \A i \in 1 .. p - 1 : RemoveAt(seq, p)[i] = seq[i]
      /\ \A i \in p .. Len(seq) - 1 : RemoveAt(seq, p)[i] = seq[i + 1]
    BY <1>1, Removed, SMTT(60)
<1>3. UnlinkedAt(seq, p, s)
    BY <1>1, <1>2 DEF UnlinkedAt
<1> QED BY <1>3 DEF p, s

-----------------------------------------------------------------------------
(* Sums of a list whose head has another delta. *)
HeadShifted(seq, t1, t2) ==
    \A i \in 1 .. Len(seq) :
        Accum(seq, t2)[i] = Accum(seq, t1)[i] + (t2[seq[1]] - t1[seq[1]])

LEMMA HeadShift ==
    ASSUME NEW U, NEW seq \in Seq(U), NEW t1 \in [U -> Int], NEW t2 \in [U -> Int],
           \A i \in 2 .. Len(seq) : t1[seq[i]] = t2[seq[i]]
    PROVE  HeadShifted(seq, t1, t2)
<1> DEFINE L == Len(seq)
           A == Accum(seq, t1)
           B == Accum(seq, t2)
           x == t2[seq[1]] - t1[seq[1]]
           D == [i \in 0 .. L |-> A[i] + x]
<1>1. L \in Nat /\ \A i \in 1 .. L : seq[i] \in U
    BY LenProperties, ElementOfSeq
<1>2. /\ A \in [0 .. L -> Int] /\ A[0] = 0
      /\ \A i \in 1 .. L : A[i] = A[i - 1] + t1[seq[i]]
    BY AccumDef
<1>3. /\ B \in [0 .. L -> Int] /\ B[0] = 0
      /\ \A i \in 1 .. L : B[i] = B[i - 1] + t2[seq[i]]
    BY AccumDef
<1>4. HeadShifted(seq, t1, t2) <=> \A i \in 1 .. L : B[i] = A[i] + x
    BY DEF HeadShifted
<1>5. CASE L = 0
    <2> 1 .. L = {}
        BY <1>5
    <2> QED BY <1>4
<1>6. CASE L # 0
    <2>1. 1 \in 1 .. L /\ 1 \in 0 .. L /\ L - 1 \in Nat
        BY <1>1, <1>6
    <2> HIDE DEF A, B, L
    <2>2. seq[1] \in U /\ t1[seq[1]] \in Int /\ t2[seq[1]] \in Int
        BY <1>1, <2>1
    <2>3. A[1] = t1[seq[1]] /\ B[1] = t2[seq[1]]
        BY <1>2, <1>3, <2>1, <2>2
    <2>4. x \in Int /\ D[1] = B[1]
        BY <2>1, <2>2, <2>3
    <2> HIDE DEF x
    <2>5. SameDeltas(D, B, 1, 1, L - 1)
        <3> SUFFICES ASSUME NEW k \in 1 .. L - 1
                     PROVE  \E y \in Int : /\ D[1 + (k - 1)] \in Int
                                           /\ D[1 + k] = D[1 + (k - 1)] + y
                                           /\ B[1 + k] = B[1 + (k - 1)] + y
            BY DEF SameDeltas
        <3>1. /\ 1 + (k - 1) = k /\ 1 + k = k + 1 /\ (k + 1) - 1 = k /\ k + 1 \in 2 .. L
              /\ k \in 0 .. L /\ k + 1 \in 0 .. L /\ k + 1 \in 1 .. L
            BY <1>1
        <3>2. t2[seq[k + 1]] = t1[seq[k + 1]] /\ t1[seq[k + 1]] \in Int
            BY <1>1, <3>1 DEF L
        <3>3. A[k + 1] = A[k] + t1[seq[k + 1]] /\ A[k] \in Int
            BY <1>2, <3>1
        <3>4. B[k + 1] = B[k] + t1[seq[k + 1]]
            BY <1>3, <3>1, <3>2
        <3>5. D[k] = A[k] + x /\ D[k + 1] = A[k + 1] + x
            BY <3>1
        <3> HIDE DEF D
        <3>6. D[k] \in Int /\ D[k + 1] = D[k] + t1[seq[k + 1]]
            BY <2>4, <3>2, <3>3, <3>5
        <3> QED BY <3>1, <3>2, <3>4, <3>6
    <2>6. SameSums(D, B, 1, 1, L - 1)
        <3> HIDE DEF D
        <3> 1 \in Nat
            OBVIOUS
        <3> QED BY <2>1, <2>4, <2>5, SumsAgree
    <2>7. ASSUME NEW i \in 1 .. L PROVE B[i] = A[i] + x
        <3>1. i - 1 \in 0 .. L - 1 /\ 1 + (i - 1) = i /\ i \in 0 .. L
            BY <1>1
        <3>2. B[i] = D[i]
            BY <2>6, <3>1 DEF SameSums
        <3> QED BY <3>1, <3>2
    <2> QED BY <1>4, <2>7
<1> QED BY <1>5, <1>6

(* The sums depend on the deltas of the listed units only. *)
LEMMA AccumFrame ==
    ASSUME NEW U, NEW seq \in Seq(U), NEW t1 \in [U -> Int], NEW t2 \in [U -> Int],
           \A i \in 1 .. Len(seq) : t1[seq[i]] = t2[seq[i]]
    PROVE  Accum(seq, t1) = Accum(seq, t2)
<1> DEFINE L == Len(seq)
           A == Accum(seq, t1)
           B == Accum(seq, t2)
<1>1. L \in Nat /\ \A i \in 1 .. L : seq[i] \in U
    BY LenProperties, ElementOfSeq
<1>2. A \in [0 .. L -> Int] /\ A[0] = 0
    BY AccumDef
<1>3. B \in [0 .. L -> Int] /\ B[0] = 0
    BY AccumDef
<1>4. \A i \in 1 .. L : B[i] = A[i] + (t2[seq[1]] - t1[seq[1]])
    <2>1. \A i \in 2 .. L : t1[seq[i]] = t2[seq[i]]
        BY <1>1
    <2>2. HeadShifted(seq, t1, t2)
        BY <2>1, HeadShift
    <2> QED BY <2>2 DEF HeadShifted
<1> HIDE DEF A, B
<1>5. ASSUME NEW i \in 0 .. L PROVE A[i] = B[i]
    <2>1. CASE i = 0
        BY <1>2, <1>3, <2>1
    <2>2. CASE i # 0
        <3>1. i \in 1 .. L /\ 1 \in 1 .. L
            BY <1>1, <2>2
        <3>2. t2[seq[1]] = t1[seq[1]] /\ t1[seq[1]] \in Int /\ A[i] \in Int
            BY <1>1, <1>2, <3>1
        <3>3. B[i] = A[i] + (t2[seq[1]] - t1[seq[1]])
            BY <1>4, <3>1
        <3> QED BY <3>2, <3>3
    <2> QED BY <2>1, <2>2
<1> QED BY <1>2, <1>3, <1>5 DEF A, B

(* What is left of a list when its first n entries are taken off, with the *)
(* sum up to the new head as that one's delta.                             *)
SuffixAt(seq, n, r) ==
    /\ Len(r) = Len(seq) - n
    /\ \A i \in 1 .. Len(seq) - n : r[i] = seq[n + i]

SuffixInPlace(seq, t1, n, r, t2) ==
    \A i \in 1 .. Len(seq) - n : Accum(r, t2)[i] = Accum(seq, t1)[n + i]

LEMMA SuffixSums ==
    ASSUME NEW U, NEW seq \in Seq(U), NEW t1 \in [U -> Int], NEW t2 \in [U -> Int],
           NEW n \in 0 .. Len(seq) - 1, NEW r \in Seq(U), SuffixAt(seq, n, r),
           t2[seq[n + 1]] = Accum(seq, t1)[n + 1],
           \A i \in n + 2 .. Len(seq) : t2[seq[i]] = t1[seq[i]]
    PROVE  SuffixInPlace(seq, t1, n, r, t2)
<1> DEFINE L == Len(seq)
           A == Accum(seq, t1)
           B == Accum(r, t2)
<1>1. /\ L \in Nat /\ (\A i \in 1 .. L : seq[i] \in U)
      /\ n \in Nat /\ n + 1 \in 1 .. L /\ (L - n) - 1 \in Nat
    BY LenProperties, ElementOfSeq
<1>2. /\ A \in [0 .. L -> Int]
      /\ \A i \in 1 .. L : A[i] = A[i - 1] + t1[seq[i]]
    BY AccumDef
<1>3. /\ B \in [0 .. Len(r) -> Int] /\ B[0] = 0
      /\ \A i \in 1 .. Len(r) : B[i] = B[i - 1] + t2[r[i]]
    BY AccumDef
<1>4. SuffixInPlace(seq, t1, n, r, t2) <=> \A i \in 1 .. L - n : B[i] = A[n + i]
    BY DEF SuffixInPlace
<1>5. Len(r) = L - n /\ \A i \in 1 .. L - n : r[i] = seq[n + i]
    BY DEF SuffixAt
<1> HIDE DEF A, B
<1>6. t2[seq[n + 1]] = A[n + 1]
    BY DEF A
<1>7. \A i \in n + 2 .. L : t2[seq[i]] = t1[seq[i]]
    OBVIOUS
<1> HIDE DEF L
<1>8. B[1] = A[n + 1]
    <2>1. 1 \in 1 .. L - n /\ 1 \in 1 .. Len(r)
        BY <1>1, <1>5
    <2>2. r[1] = seq[n + 1] /\ A[n + 1] \in Int
        <3> n + 1 \in 0 .. L
            BY <1>1
        <3> QED BY <1>2, <1>5, <2>1
    <2>3. B[1] = B[1 - 1] + t2[r[1]] /\ 1 - 1 = 0
        BY <1>3, <2>1
    <2> QED BY <1>3, <1>6, <2>2, <2>3
<1>9. SameDeltas(A, B, n + 1, 1, (L - n) - 1)
    <2> SUFFICES ASSUME NEW k \in 1 .. (L - n) - 1
                 PROVE  \E y \in Int : /\ A[(n + 1) + (k - 1)] \in Int
                                       /\ A[(n + 1) + k] = A[(n + 1) + (k - 1)] + y
                                       /\ B[1 + k] = B[1 + (k - 1)] + y
        BY DEF SameDeltas
    <2> DEFINE j == (n + 1) + k
    <2>1. /\ j \in n + 2 .. L /\ j \in 1 .. L /\ j - 1 \in 0 .. L
          /\ (n + 1) + (k - 1) = j - 1
          /\ 1 + k \in 1 .. L - n /\ 1 + k \in 1 .. Len(r) /\ n + (1 + k) = j
          /\ (1 + k) - 1 = 1 + (k - 1)
        BY <1>1, <1>5
    <2> HIDE DEF j
    <2>2. A[j] = A[j - 1] + t1[seq[j]] /\ A[j - 1] \in Int /\ t1[seq[j]] \in Int
        BY <1>1, <1>2, <2>1
    <2>3. B[1 + k] = B[1 + (k - 1)] + t2[r[1 + k]]
        BY <1>3, <2>1
    <2>4. r[1 + k] = seq[j] /\ t2[seq[j]] = t1[seq[j]]
        BY <1>5, <1>7, <2>1
    <2>5. A[(n + 1) + (k - 1)] = A[j - 1] /\ A[(n + 1) + k] = A[j]
        BY <2>1 DEF j
    <2> QED BY <2>2, <2>3, <2>4, <2>5
<1>10. SameSums(A, B, n + 1, 1, (L - n) - 1)
    <2> n + 1 \in Nat /\ 1 \in Nat
        BY <1>1
    <2> QED BY <1>1, <1>8, <1>9, SumsAgree
<1>11. ASSUME NEW i \in 1 .. L - n PROVE B[i] = A[n + i]
    <2>1. i - 1 \in 0 .. (L - n) - 1 /\ 1 + (i - 1) = i /\ (n + 1) + (i - 1) = n + i
        BY <1>1
    <2> QED BY <1>10, <2>1 DEF SameSums
<1> QED BY <1>4, <1>11

(* A list cut in two behind its first n entries. *)
Cut(U, seq, n, f, r) ==
    /\ f \in Seq(U) /\ Len(f) = n /\ \A i \in 1 .. n : f[i] = seq[i]
    /\ r \in Seq(U) /\ SuffixAt(seq, n, r)

LEMMA SubSeqCut ==
    ASSUME NEW U, NEW seq \in Seq(U), NEW n \in 0 .. Len(seq)
    PROVE  Cut(U, seq, n, SubSeq(seq, 1, n), SubSeq(seq, n + 1, Len(seq)))
<1> DEFINE L == Len(seq)
           f == SubSeq(seq, 1, n)
           r == SubSeq(seq, n + 1, L)
<1>0. L \in Nat /\ n \in Nat /\ \A i \in 1 .. L : seq[i] \in U
    BY LenProperties, ElementOfSeq
<1>1. f \in Seq(U) /\ Len(f) = n /\ \A i \in 1 .. n : f[i] = seq[i]
    <2>1. \A i \in 1 .. n : seq[i] \in U
        BY <1>0
    <2> QED BY <1>0, <2>1, SubSeqProperties
<1>2. r \in Seq(U) /\ Len(r) = L - n /\ \A i \in 1 .. L - n : r[i] = seq[n + i]
    <2>1. \A i \in n + 1 .. L : seq[i] \in U
        BY <1>0
    <2>2. /\ r \in Seq(U)
          /\ Len(r) = IF n + 1 <= L THEN L - (n + 1) + 1 ELSE 0
          /\ \A i \in 1 .. L - (n + 1) + 1 : r[i] = seq[n + 1 + i - 1]
        BY <1>0, <2>1, SubSeqProperties
    <2> HIDE DEF r, L
    <2>3. L - (n + 1) + 1 = L - n /\ \A i \in 1 .. L - n : n + 1 + i - 1 = n + i
        BY <1>0
    <2>4. Len(r) = L - n
        BY <1>0, <2>2 DEF L
    <2> QED BY <2>2, <2>3, <2>4
<1> QED BY <1>1, <1>2 DEF Cut, SuffixAt

LEMMA CutShape ==
    ASSUME NEW U, NEW seq \in Seq(U), NoRepeat(seq), NEW n \in 0 .. Len(seq),
           NEW f, NEW r, Cut(U, seq, n, f, r)
    PROVE  /\ NoRepeat(f) /\ NoRepeat(r)
           /\ \A v : Holds(seq, v) <=> Holds(f, v) \/ Holds(r, v)
           /\ \A v : ~(Holds(f, v) /\ Holds(r, v))
<1> DEFINE L == Len(seq)
<1>0. L \in Nat /\ n \in Nat
    BY LenProperties
<1>1. /\ Len(f) = n /\ \A i \in 1 .. n : f[i] = seq[i] /\ i \in 1 .. L
    BY <1>0 DEF Cut
<1>2. /\ Len(r) = L - n
      /\ \A i \in 1 .. L - n : r[i] = seq[n + i] /\ n + i \in 1 .. L /\ ~(n + i \in 1 .. n)
    BY <1>0 DEF Cut, SuffixAt
<1>3. \A i, j \in 1 .. L : seq[i] = seq[j] => i = j
    BY DEF NoRepeat
<1>4. NoRepeat(f)
    BY <1>1, <1>3 DEF NoRepeat
<1>5. NoRepeat(r)
    <2> SUFFICES ASSUME NEW i \in 1 .. L - n, NEW j \in 1 .. L - n, r[i] = r[j]
                 PROVE  i = j
        BY <1>2 DEF NoRepeat
    <2>1. n + i = n + j
        BY <1>2, <1>3
    <2> QED BY <1>0, <2>1
<1>6. \A v : Holds(f, v) \/ Holds(r, v) => Holds(seq, v)
    BY <1>1, <1>2 DEF Holds
<1>7. ASSUME NEW v, Holds(seq, v) PROVE Holds(f, v) \/ Holds(r, v)
    <2>1. PICK k \in 1 .. L : seq[k] = v
        BY <1>7 DEF Holds
    <2>2. CASE k <= n
        <3> k \in 1 .. n
            BY <1>0, <2>2
        <3> QED BY <1>1, <2>1 DEF Holds
    <2>3. CASE k > n
        <3> k - n \in 1 .. L - n /\ n + (k - n) = k
            BY <1>0, <2>3
        <3> QED BY <1>2, <2>1 DEF Holds
    <2> QED BY <1>0, <2>2, <2>3
<1>8. ASSUME NEW v, Holds(f, v), Holds(r, v) PROVE FALSE
    <2>1. PICK i \in 1 .. n : f[i] = v
        BY <1>1, <1>8 DEF Holds
    <2>2. PICK j \in 1 .. L - n : r[j] = v
        BY <1>2, <1>8 DEF Holds
    <2>3. i = n + j
        BY <1>1, <1>2, <1>3, <2>1, <2>2
    <2> QED BY <1>2, <2>3
<1> QED BY <1>4, <1>5, <1>6, <1>7, <1>8
=============================================================================
