---------------------------- MODULE MCEventQueue ----------------------------
(***************************************************************************)
(* EventQueue on three units, with the properties that the delta coding    *)
(* and the countdown have to keep.                                         *)
(***************************************************************************)
EXTENDS EventQueue

(* The queue keeps the promise of TimedQueue: order, ties, that an edit    *)
(* for one unit moves no other, and that a unit is served exactly when the *)
(* instructions counted since the last edit have reached its time.  A      *)
(* unit's time is read off the deltas in front of it, and the count off    *)
(* what sim_interval has left of the first one.                            *)
Promise ==
    INSTANCE TimedQueue WITH
        order  <- queue,
        wait   <- [u \in Unit |-> IF IsActive(u) THEN Key(queue, time, u) ELSE 0],
        passed <- IF queue = <<>> THEN 0 ELSE time[Head(queue)] - simInterval

KeepsPromise == Promise!Spec

(* Once device code only reschedules its own unit from its own service     *)
(* routine, by a delay that is not 0, every queued unit leaves the queue     *)
(* (served, or cancelled before): periodic units such as the clock do not  *)
(* starve the others.                                                      *)
OnlyPeriodic ==
    \/ Step
    \/ /\ phase = "service"
       /\ \E d \in Delays \ {0} : Becomes(_sim_activate(Q, running, d))
       /\ UNCHANGED <<phase, running>>

NoStarvation ==
    <>[][OnlyPeriodic]_vars => \A u \in Unit : IsActive(u) ~> ~IsActive(u)
=============================================================================
