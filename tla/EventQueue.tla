----------------------------- MODULE EventQueue -----------------------------
(***************************************************************************)
(* The event queue of the simulator (sim_evtq.c) and the countdown that    *)
(* drives it from the CPU loop (pdp11_cpu.c, sim_instr).                   *)
(*                                                                         *)
(* One thread runs everything.  `phase` is where it is: at the top of the  *)
(* instruction loop ("fetch"), inside an instruction, which may reach      *)
(* device registers ("exec"), inside a unit's service routine, called by   *)
(* sim_process_event ("service"), or between two routines of one           *)
(* sim_process_event call ("drain").                                       *)
(*                                                                         *)
(* Left out: stop_cpu, which nothing sets in this build; UPDATE_SIM_TIME   *)
(* and the AIO_ macros, which expand to nothing; usecs_remaining, which    *)
(* only sim_timer.c makes non-zero (module ClockCosched); the instruction  *)
(* breakpoints, never set, and the CIS instructions that count for several *)
(* (pdp11_cis.c:1618).                                                     *)
(***************************************************************************)
EXTENDS DeltaList

CONSTANTS
    Unit,          \* UNITs that device code schedules
    NoUnit,        \* no routine is running
    Delays,        \* the event_time values device code passes
    NoQueueWait    \* NOQUEUE_WAIT, the countdown of an empty queue

ASSUME EventQueueAssumption ==
    /\ NoUnit \notin Unit
    /\ Delays \subseteq Nat
    /\ NoQueueWait \in Nat \ {0}

VARIABLES
    queue,         \* sim_clock_queue: the units in order of their next links
    time,          \* uptr->time of every unit
    simInterval,   \* sim_interval, counted down by the CPU
    phase,
    running        \* the unit whose action is executing

vars == <<queue, time, simInterval, phase, running>>

(* The deltas are natural: no insertion or removal leaves a negative one,  *)
(* which would put a unit behind one that is due later.  A unit is running *)
(* exactly while a service routine is.                                     *)
TypeOK ==
    /\ queue \in Seq(Unit)
    /\ time \in [Unit -> Nat]
    /\ simInterval \in Int
    /\ phase \in {"fetch", "exec", "service", "drain"}
    /\ running \in Unit \cup {NoUnit}
    /\ running \in Unit <=> phase = "service"

(* uptr->next is non-NULL exactly while the unit is linked. *)
IsActive(u) == \E i \in 1 .. Len(queue) : queue[i] = u

Init ==
    /\ queue = <<>>
    /\ time = [u \in Unit |-> 0]
    /\ simInterval = NoQueueWait
    /\ phase = "fetch"
    /\ running = NoUnit

-----------------------------------------------------------------------------
(* The calls device code makes, from a register access or a service        *)
(* routine, as functions on the queue and its countdown.                   *)

Q == [seq |-> queue, time |-> time, interval |-> simInterval]

Becomes(q) ==
    /\ queue' = q.seq
    /\ time' = q.time
    /\ simInterval' = q.interval

Listed(q, u) == \E i \in 1 .. Len(q.seq) : q.seq[i] = u

(* Mutant: sim_interval is set only when the queue was empty. *)
ActivateKeepsInterval(q, u, d) ==
    IF Listed(q, u) THEN q
    ELSE LET t == LinkedTime(q.seq, q.time, u, d)
         IN  [q EXCEPT !.seq = Linked(q.seq, q.time, u, d), !.time = t,
                       !.interval = IF q.seq = <<>> THEN t[u] ELSE @]

_sim_activate(q, u, d) ==
    IF Listed(q, u) THEN q
    ELSE LET s == Linked(q.seq, q.time, u, d)
             t == LinkedTime(q.seq, q.time, u, d)
         IN  [q EXCEPT !.seq = s, !.time = t, !.interval = t[Head(s)]]

sim_cancel(q, u) ==
    IF ~Listed(q, u) THEN q
    ELSE LET s == Unlinked(q.seq, u)
             t == [UnlinkedTime(q.seq, q.time, u) EXCEPT ![u] = 0]
         IN  [q EXCEPT !.seq = s, !.time = t,
                       !.interval = IF s = <<>> THEN NoQueueWait ELSE t[Head(s)]]

sim_activate_abs(q, u, d) == _sim_activate(sim_cancel(q, u), u, d)

(* sim_grtime, which returns the never written sim_rtime. *)
sim_grtime == 0

sim_activate_notbefore(q, u, rtime) ==
    _sim_activate(sim_cancel(q, u), u,
                  IF rtime < sim_grtime THEN 0 ELSE rtime - sim_grtime)

InDeviceCode == phase \in {"exec", "service"}

Activate ==
    /\ InDeviceCode
    /\ \E u \in Unit, d \in Delays : Becomes(_sim_activate(Q, u, d))
    /\ UNCHANGED <<phase, running>>

ActivateAbs ==
    /\ InDeviceCode
    /\ \E u \in Unit, d \in Delays : Becomes(sim_activate_abs(Q, u, d))
    /\ UNCHANGED <<phase, running>>

ActivateNotBefore ==
    /\ InDeviceCode
    /\ \E u \in Unit, d \in Delays : Becomes(sim_activate_notbefore(Q, u, d))
    /\ UNCHANGED <<phase, running>>

Cancel ==
    /\ InDeviceCode
    /\ \E u \in Unit : Becomes(sim_cancel(Q, u))
    /\ UNCHANGED <<phase, running>>

-----------------------------------------------------------------------------
(* The CPU loop. *)

Fetch ==
    /\ phase = "fetch"
    /\ simInterval > 0
    /\ simInterval' = simInterval - 1
    /\ phase' = "exec"
    /\ UNCHANGED <<queue, time, running>>

EndInstruction ==
    /\ phase = "exec"
    /\ phase' = "fetch"
    /\ UNCHANGED <<queue, time, simInterval, running>>

-----------------------------------------------------------------------------
(* sim_process_event. *)

(* Mutant: events are due an instruction too soon. *)
ExpiredEarly == phase = "drain" \/ (phase = "fetch" /\ simInterval <= 1)

Expired == phase = "drain" \/ (phase = "fetch" /\ simInterval <= 0)

QueueEmpty ==
    /\ Expired
    /\ queue = <<>>
    /\ simInterval' = NoQueueWait
    /\ phase' = "fetch"
    /\ UNCHANGED <<queue, time, running>>

(* One turn of the do loop, up to the call of uptr->action. *)
TakeFirst ==
    /\ Expired
    /\ queue # <<>>
    /\ LET u == Head(queue)
           rest == Tail(queue)
       IN  /\ queue' = rest
           /\ time' = [time EXCEPT ![u] = 0]
           /\ simInterval' = IF rest = <<>> THEN NoQueueWait
                             ELSE simInterval - time[u] + time[Head(rest)]
           /\ running' = u

Dispatch == TakeFirst /\ phase' = "service"

(* The action returns: the loop goes on while all is well and the countdown *)
(* is spent, and the call ends otherwise, also on an action's error.        *)
Return(ok) ==
    /\ running' = NoUnit
    /\ phase' = IF ok /\ simInterval <= 0 /\ queue # <<>> THEN "drain" ELSE "fetch"
    /\ simInterval' = IF queue = <<>> THEN NoQueueWait ELSE simInterval
    /\ UNCHANGED <<queue, time>>

ReturnOK == phase = "service" /\ Return(TRUE)
ReturnError == phase = "service" /\ Return(FALSE)

-----------------------------------------------------------------------------
DeviceCall == Activate \/ ActivateAbs \/ ActivateNotBefore \/ Cancel

Step == Fetch \/ EndInstruction \/ QueueEmpty \/ Dispatch \/ ReturnOK \/ ReturnError

Next == DeviceCall \/ Step

(* The thread never stops, and service routines and instructions end. *)
Spec == Init /\ [][Next]_vars /\ WF_vars(Step)

-----------------------------------------------------------------------------
(* The `next` links form one list and only listed units hold a delta: a    *)
(* unit taken off by sim_cancel or by sim_process_event is left clean, so  *)
(* that the accumulated times of the others stay right.                    *)
WellLinked ==
    /\ \A i, j \in 1 .. Len(queue) : queue[i] = queue[j] => i = j
    /\ \A u \in Unit : ~IsActive(u) => time[u] = 0

(* The CPU never has more instructions to run before the next event than   *)
(* the first unit's delta: the countdown survives every edit of the queue, *)
(* every service routine and every error return.                           *)
CountdownBounded == queue # <<>> => simInterval <= time[Head(queue)]
=============================================================================
