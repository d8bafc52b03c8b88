------------------------------ MODULE DeltaList ------------------------------
(***************************************************************************)
(* The delta-encoded timer list that sim_evtq.c (sim_clock_queue) and      *)
(* sim_timer.c (clock_cosched_queue) both keep: units are linked in firing *)
(* order and each unit's `time` counts from the unit before it.  Here a    *)
(* list is the pair of a sequence of units (the `next` links) and the      *)
(* function `time` (every unit's `time` field, listed or not).             *)
(***************************************************************************)
EXTENDS Integers, SequencesExt

(* accum after the first i entries, as the C loops build it up. *)
Accum(seq, time) ==
    LET acc[i \in 0 .. Len(seq)] ==
            IF i = 0 THEN 0 ELSE acc[i - 1] + time[seq[i]]
    IN  acc

(* The place a unit with delay d goes to: in front of the first entry that *)
(* is due later than d, where the loop breaks, or else at the end.         *)
Place(seq, time, d) ==
    LET acc == Accum(seq, time)
    IN  CHOOSE p \in 1 .. Len(seq) + 1 :
            /\ \A i \in 1 .. p - 1 : acc[i] <= d
            /\ p <= Len(seq) => d < acc[p]

Linked(seq, time, u, d) == InsertAt(seq, Place(seq, time, d), u)

(* Mutant: the displaced entry keeps its delta. *)
LinkedTimeNoFollower(seq, time, u, d) ==
    [time EXCEPT ![u] = d - Accum(seq, time)[Place(seq, time, d) - 1]]

(* u gets what is left of d there, and the entry it displaces loses it. *)
LinkedTime(seq, time, u, d) ==
    LET p   == Place(seq, time, d)
        own == d - Accum(seq, time)[p - 1]
        t   == [time EXCEPT ![u] = own]
    IN  IF p <= Len(seq) THEN [t EXCEPT ![seq[p]] = @ - own] ELSE t

PlaceOf(seq, u) == CHOOSE i \in 1 .. Len(seq) : seq[i] = u

Unlinked(seq, u) == RemoveAt(seq, PlaceOf(seq, u))

(* Mutant: nobody inherits the delta. *)
UnlinkedTimeNoFollower(seq, time, u) == time

(* The follower of an unlinked unit inherits its delta. *)
UnlinkedTime(seq, time, u) ==
    LET p == PlaceOf(seq, u)
    IN  IF p < Len(seq) THEN [time EXCEPT ![seq[p + 1]] = @ + time[u]] ELSE time

(* A listed unit's time from the head of the list. *)
Key(seq, time, u) == Accum(seq, time)[PlaceOf(seq, u)]
=============================================================================
