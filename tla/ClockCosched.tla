---------------------------- MODULE ClockCosched ----------------------------
(***************************************************************************)
(* Scheduling by wall-clock time and by clock tick (sim_timer.c) on top of *)
(* the event queue, with the line clock (pdp11_stddev.c) that makes the    *)
(* ticks.                                                                  *)
(*                                                                         *)
(* A unit that is to run "on a clock tick" waits on a second delta list,   *)
(* counted in ticks, and carries a cancel hook meanwhile; a unit with a    *)
(* long wait is parked there too, with the rest of its wait in             *)
(* usecs_remaining.  Line is the timer unit of the line clock; Internal is *)
(* the timer unit of the stand-in clock that runs from a bus reset to the  *)
(* next line clock tick.  The list of the clock in use is the only one     *)
(* with units on it, so one list is kept.                                  *)
(*                                                                         *)
(* Time is in instructions: inst_per_usec is 1, and both clocks tick every *)
(* TickSize instructions.  Calibration leaves the tick size as it is.      *)
(***************************************************************************)
EXTENDS EventQueue

CONSTANTS
    Device,        \* units of devices
    Line,          \* sim_timer_units[TMR_CLK], started through clk_unit
    Internal,      \* sim_timer_units[SIM_NTIMERS]
    TickSize,      \* rtc->currd
    Hz,            \* ticks from one calibration to the next
    CoschedTicks,  \* the waits, in ticks, that device code asks for
    UsecDelays     \* the waits, in wall-clock time, that device code asks for

ASSUME ClockCoschedAssumption ==
    /\ Unit = Device \cup {Line, Internal}
    /\ Line # Internal /\ {Line, Internal} \cap Device = {}
    /\ TickSize \in Nat \ {0} /\ Hz \in Nat \ {0, 1, 2}
    /\ CoschedTicks \subseteq Nat /\ UsecDelays \subseteq Nat

VARIABLES
    cosched,         \* clock_cosched_queue of the clock in use
    coschedInterval, \* its cosched_interval
    hooked,          \* units whose cancel is _sim_coschedule_cancel
    usecs,           \* usecs_remaining of every unit
    ticks,           \* rtc->ticks of the clock in use
    calb,            \* sim_calb_tmr: the clock in use
    gathered         \* sptr: units a tick has taken off cosched, to dispatch

cvars == <<cosched, coschedInterval, hooked, usecs, ticks, calb, gathered>>
allvars == <<vars, cvars>>

(* Both lists, as one record for the functions below. *)
S == [seq |-> queue, time |-> time, interval |-> simInterval,
      cosched |-> cosched, cinterval |-> coschedInterval,
      hooked |-> hooked, usecs |-> usecs, gathered |-> gathered]

Turns(s) ==
    /\ Becomes(s)
    /\ cosched' = s.cosched
    /\ coschedInterval' = s.cinterval
    /\ hooked' = s.hooked
    /\ usecs' = s.usecs
    /\ gathered' = s.gathered

InSeq(u, seq) == \E i \in 1 .. Len(seq) : seq[i] = u

(* sim_is_active: linked in either list. *)
Active(s, u) == Listed(s, u) \/ InSeq(u, s.cosched) \/ InSeq(u, s.gathered)

Activated(s, u, d) == IF Active(s, u) THEN s ELSE _sim_activate(s, u, d)

-----------------------------------------------------------------------------
sim_clock_coschedule_tmr(s, u, n) ==
    IF Active(s, u) THEN s
    ELSE LET t0 == IF s.cosched = <<>> THEN s.time
                   ELSE [s.time EXCEPT ![Head(s.cosched)] = s.cinterval]
             c  == Linked(s.cosched, t0, u, n)
             t  == LinkedTime(s.cosched, t0, u, n)
         IN  [s EXCEPT !.cosched = c, !.time = t,
                       !.hooked = @ \cup {u},
                       !.cinterval = IF Head(c) = u THEN t[u] ELSE @]

(* Mutant: the cancel hook stays bound. *)
CancelKeepsHook(s, u) ==
    [s EXCEPT !.cosched = Unlinked(s.cosched, u),
              !.time = UnlinkedTime(s.cosched, s.time, u),
              !.usecs[u] = 0]

(* The follower's delta grows; the interval keeps counting for the head *)
(* that is gone.                                                        *)
_sim_coschedule_cancel(s, u) ==
    [s EXCEPT !.cosched = Unlinked(s.cosched, u),
              !.time = UnlinkedTime(s.cosched, s.time, u),
              !.hooked = @ \ {u},
              !.usecs[u] = 0]

(* sim_cancel with the hook. *)
Cancelled(s, u) ==
    IF u \in s.hooked /\ InSeq(u, s.cosched) THEN _sim_coschedule_cancel(s, u)
    ELSE IF Listed(s, u) THEN [sim_cancel(s, u) EXCEPT !.usecs[u] = 0]
    ELSE s

AtLeast0(n) == IF n < 0 THEN 0 ELSE n

(* sim_activate_time - 1: what is left before u, -1 if it is not queued. *)
InstTil(s, u) ==
    IF ~Listed(s, u) THEN -1
    ELSE Key(s.seq, s.time, u) - s.time[Head(s.seq)] + AtLeast0(s.interval)

(* A long wait is parked on the tick list, to the last tick before a       *)
(* calibration or to the next tick, with the remainder kept for later.     *)
sim_timer_activate_after(s, u, d) ==
    LET tilTick  == InstTil(s, calb)
        toGo     == Hz - ticks
        tilCalib == tilTick + (toGo - 1) * TickSize
        s0       == [s EXCEPT !.usecs[u] = 0]
        Park(n, done) ==
            [sim_clock_coschedule_tmr(s0, u, n) EXCEPT !.usecs[u] = d - done]
    IN  IF Active(s, u) THEN s
        ELSE IF u # calb /\ tilTick > 0 /\ d > tilCalib THEN Park(toGo - 1, tilCalib)
        ELSE IF u # calb /\ tilTick > 0 /\ d > 2 * TickSize /\ toGo > 1
             THEN Park(0, tilTick)
        ELSE _sim_activate(s0, u, d)

(* A unit of the tick list of clock c moves to the event queue, one         *)
(* instruction away, with the time it had left: sim_process_event will      *)
(* park it again.                                                          *)
MigrateOne(m, u, c, bias) ==
    LET left == m.usecs[u] + AtLeast0(m.cinterval) * TickSize + InstTil(m, c) - bias
    IN  [_sim_activate(_sim_coschedule_cancel(m, u), u, 1) EXCEPT !.usecs[u] = left]

Migrated(s, c, bias) ==
    LET m[i \in 0 .. Len(s.cosched)] ==
            IF i = 0 THEN s ELSE MigrateOne(m[i - 1], s.cosched[i], c, bias)
    IN  m[Len(s.cosched)]

-----------------------------------------------------------------------------
(* Device code, in an instruction or in a device's service routine. *)

DeviceCode ==
    \/ phase = "exec"
    \/ phase = "service" /\ running \in Device

Calls(s) == DeviceCode /\ Turns(s) /\ UNCHANGED <<phase, running, ticks, calb>>

CallActivate == \E u \in Device, d \in Delays : Calls(Activated(S, u, d))

CallActivateAfter ==
    \E u \in Device, d \in UsecDelays : Calls(sim_timer_activate_after(S, u, d))

CallActivateAfterAbs(u) ==
    \E d \in UsecDelays : Calls(sim_timer_activate_after(Cancelled(S, u), u, d))

CallCoschedule ==
    \E u \in Device, n \in CoschedTicks : Calls(sim_clock_coschedule_tmr(S, u, n))

CallCancel == \E u \in Device : Calls(Cancelled(S, u))

(* Mutant: the line clock is not started again with the internal one. *)
ResetStopsLine ==
    /\ phase = "exec"
    /\ IF calb = Internal
       THEN /\ Turns(Activated(S, Line, TickSize))
            /\ UNCHANGED <<ticks, calb>>
       ELSE /\ Turns(Activated(Cancelled(Migrated(S, Line, 1), Line), Internal, TickSize))
            /\ ticks' = 1
            /\ calb' = Internal
    /\ UNCHANGED <<phase, running>>

(* clk_reset in a bus reset.  With the line clock in use, its units are    *)
(* migrated, it stops, and the internal clock is started (its first tick   *)
(* is forced); the line clock is started in any case.                      *)
clk_reset ==
    /\ phase = "exec"
    /\ IF calb = Internal
       THEN /\ Turns(Activated(S, Line, TickSize))
            /\ UNCHANGED <<ticks, calb>>
       ELSE LET s1 == Cancelled(Migrated(S, Line, 1), Line)
                s2 == Activated(s1, Internal, TickSize)
            IN  /\ Turns(Activated(s2, Line, TickSize))
                /\ ticks' = 1
                /\ calb' = Internal
    /\ UNCHANGED <<phase, running>>

-----------------------------------------------------------------------------
(* A clock tick: sim_timer_tick_svc, as the action of a timer unit. *)

(* Mutant: a unit that is due at this very tick is left for the next one. *)
GatherLate(s) ==
    LET ci == s.cinterval - 1
        t0 == [s.time EXCEPT ![Head(s.cosched)] = ci]
    IN  IF s.cosched = <<>> THEN [s EXCEPT !.cinterval = 0]
        ELSE IF ci >= 0 THEN [s EXCEPT !.time = t0, !.cinterval = ci]
        ELSE [s EXCEPT !.cosched = Tail(@), !.gathered = <<Head(s.cosched)>>,
                       !.cinterval = IF Len(s.cosched) = 1 THEN 0
                                     ELSE ci + t0[s.cosched[2]]]

(* The tick is counted, the list's interval goes down by one, and the      *)
(* leading units that are due are taken off it.  With an empty list the    *)
(* interval goes on counting down in the code; nothing reads it before the *)
(* next insertion sets it, so it is kept at 0.                             *)
Gather(s) ==
    LET ci == s.cinterval - 1
        t0 == [s.time EXCEPT ![Head(s.cosched)] = ci]
        n  == IF ci > 0 THEN 0 ELSE Place(s.cosched, t0, 0) - 1
        rest == SubSeq(s.cosched, n + 1, Len(s.cosched))
        next == IF rest = <<>> THEN 0 ELSE Accum(s.cosched, t0)[n + 1]
    IN  IF s.cosched = <<>> THEN [s EXCEPT !.cinterval = 0]
        ELSE IF n = 0 THEN [s EXCEPT !.time = t0, !.cinterval = ci]
        ELSE [s EXCEPT !.cosched = rest, !.cinterval = next,
                       !.gathered = SubSeq(s.cosched, 1, n),
                       !.time = IF rest = <<>> THEN t0
                                ELSE [t0 EXCEPT ![Head(rest)] = next]]

(* Mutant: the line clock is not rescheduled when it takes over. *)
LineTickOnce ==
    IF calb = Line THEN Gather(Activated(S, Line, TickSize))
    ELSE Gather(Cancelled(Migrated(S, Internal, 0), Internal))

(* clk_svc reschedules its unit; on its first tick after a reset it also   *)
(* takes over from the internal clock.                                     *)
LineTick ==
    LET s1 == IF calb = Line THEN S ELSE Cancelled(Migrated(S, Internal, 0), Internal)
    IN  Gather(Activated(s1, Line, TickSize))

InternalTick == Gather(Activated(S, Internal, TickSize))

TickService ==
    /\ phase = "service"
    /\ running \in {Line, Internal}
    /\ Turns(IF running = Line THEN LineTick ELSE InternalTick)
    /\ calb' = running
    /\ ticks' = IF running = calb THEN (ticks + 1) % Hz ELSE 1
    /\ phase' = "tick"
    /\ UNCHANGED running

(* The gathered units are put on the event queue, due at once, or wait for *)
(* the rest of their time.                                                 *)
TickDispatch ==
    /\ phase = "tick"
    /\ gathered # <<>>
    /\ LET u == Head(gathered)
           s == [S EXCEPT !.hooked = @ \ {u}, !.time[u] = 0, !.gathered = Tail(@)]
       IN  Turns(IF usecs[u] = 0 THEN _sim_activate(s, u, 0)
                 ELSE sim_timer_activate_after(s, u, usecs[u]))
    /\ UNCHANGED <<phase, running, ticks, calb>>

TickReturn ==
    /\ phase = "tick"
    /\ gathered = <<>>
    /\ Return(TRUE)
    /\ UNCHANGED cvars

-----------------------------------------------------------------------------
(* sim_process_event with usecs_remaining: a unit that is not through with *)
(* its wait is scheduled again instead of being served.                    *)

DispatchUnit == TakeFirst /\ usecs[Head(queue)] = 0 /\ phase' = "service"
DispatchWaiting == TakeFirst /\ usecs[Head(queue)] # 0 /\ phase' = "requeue"

Requeue ==
    /\ phase = "requeue"
    /\ Turns(sim_timer_activate_after(S, running, usecs[running]))
    /\ phase' = "requeued"
    /\ UNCHANGED <<running, ticks, calb>>

RequeueReturn == phase = "requeued" /\ Return(TRUE) /\ UNCHANGED cvars

DeviceReturn ==
    /\ running \in Device
    /\ ReturnOK \/ ReturnError
    /\ UNCHANGED cvars

-----------------------------------------------------------------------------
(* reset_all has run: the internal clock and the line clock are started,   *)
(* in this order, and the devices are idle.                                *)
CInit ==
    /\ queue = <<Internal, Line>>
    /\ time = [u \in Unit |-> IF u = Internal THEN TickSize ELSE 0]
    /\ simInterval = TickSize
    /\ phase = "fetch"
    /\ running = NoUnit
    /\ cosched = <<>>
    /\ coschedInterval = 0
    /\ hooked = {}
    /\ usecs = [u \in Unit |-> 0]
    /\ ticks = 1
    /\ calb = Internal
    /\ gathered = <<>>

CCall ==
    \/ CallActivate \/ CallActivateAfter \/ CallCoschedule \/ CallCancel
    \/ \E u \in Device : CallActivateAfterAbs(u)
    \/ clk_reset

CStep ==
    \/ (Fetch \/ EndInstruction \/ DispatchUnit \/ DispatchWaiting) /\ UNCHANGED cvars
    \/ Requeue \/ RequeueReturn \/ DeviceReturn
    \/ TickService \/ TickDispatch \/ TickReturn

CNext == CCall \/ CStep

(* The thread goes on: routines and instructions end, and the loop turns.  *)
(* A step of CStep is possible in every state, and in time one that        *)
(* changes phase, as no call of device code does.                          *)
GoesOn ==
    phase' \in {"fetch", "exec", "service", "drain", "tick", "requeue", "requeued"}
               \ {phase}

CSpec == CInit /\ [][CNext]_allvars /\ WF_phase(GoesOn)
=============================================================================
