----------------------------- MODULE TimedQueue -----------------------------
(***************************************************************************)
(* What an event queue promises, with no deltas: every queued unit has a   *)
(* time to wait, units leave in order of that time, first queued first on  *)
(* a tie, and queueing or dropping one unit says nothing about another's   *)
(* time or place.  The first unit leaves when as many instructions have    *)
(* been counted as it has to wait, never before, and until it leaves none  *)
(* is counted beyond.                                                      *)
(*                                                                         *)
(* What counts is weaker than what a caller may expect.  Every edit begins *)
(* the count anew, for all units; and the count goes on when a unit        *)
(* leaves, so that the next one, whose time is now reckoned from there,    *)
(* has the instructions before it counted again.                           *)
(***************************************************************************)
EXTENDS Integers, SequencesExt

CONSTANTS
    Unit,          \* what can be queued
    Delays         \* the times a unit can be asked to wait

VARIABLES
    order,         \* the queued units, next one first
    wait,          \* the time each queued unit still waits, 0 for the others
    passed         \* instructions counted since the queue was edited last

tqvars == <<order, wait, passed>>

Queued(u) == \E i \in 1 .. Len(order) : order[i] = u

Init ==
    /\ order = <<>>
    /\ wait = [u \in Unit |-> 0]
    /\ passed = 0

Count ==
    /\ order # <<>>
    /\ passed < wait[Head(order)]
    /\ passed' = passed + 1
    /\ UNCHANGED <<order, wait>>

(* p is the place in o of a newcomer that waits for d. *)
Fits(o, p, d) ==
    /\ p \in 1 .. Len(o) + 1
    /\ \A i \in 1 .. p - 1 : wait[o[i]] <= d
    /\ \A i \in p .. Len(o) : wait[o[i]] > d

Put(u, d) ==
    /\ ~Queued(u)
    /\ \E p \in 1 .. Len(order) + 1 :
           /\ Fits(order, p, d)
           /\ order' = InsertAt(order, p, u)
    /\ wait' = [wait EXCEPT ![u] = d]
    /\ passed' = 0

Drop(i) ==
    /\ order' = RemoveAt(order, i)
    /\ wait' = [wait EXCEPT ![order[i]] = 0]
    /\ passed' = 0

(* The unit at place i is queued anew, to wait for d. *)
Reput(i, d) ==
    LET o == RemoveAt(order, i)
    IN  /\ \E p \in 1 .. Len(o) + 1 :
               /\ Fits(o, p, d)
               /\ order' = InsertAt(o, p, order[i])
        /\ wait' = [wait EXCEPT ![order[i]] = d]
        /\ passed' = 0

(* The first unit has waited and leaves; its time is off that of all. *)
Pop ==
    /\ order # <<>>
    /\ passed >= wait[Head(order)]
    /\ order' = Tail(order)
    /\ wait' = [u \in Unit |->
                   IF Queued(u) /\ u # Head(order) THEN wait[u] - wait[Head(order)]
                   ELSE 0]
    /\ passed' = IF Tail(order) = <<>> THEN 0 ELSE passed

Next ==
    \/ Count
    \/ \E u \in Unit, d \in Delays : Put(u, d)
    \/ \E i \in 1 .. Len(order) : Drop(i)
    \/ \E i \in 1 .. Len(order), d \in Delays : Reput(i, d)
    \/ Pop

Spec == Init /\ [][Next]_tqvars

=============================================================================
