--------------------------- MODULE MCClockCosched ---------------------------
(***************************************************************************)
(* ClockCosched on two devices, beside an ideal count of ticks: due[u] is  *)
(* the number of clock ticks that unit u, waiting on the tick list, was    *)
(* asked to wait less those that have passed since.  From some moment on   *)
(* the guest may be quiet: then only service routines queue units again,   *)
(* each its own.                                                           *)
(***************************************************************************)
EXTENDS ClockCosched

VARIABLES due, quiet

hvars == <<allvars, due, quiet>>

Ticks == phase = "service" /\ phase' = "tick"

HInit ==
    /\ CInit
    /\ due = [u \in Device |-> 0]
    /\ quiet = FALSE

(* A unit that joins the list, or is queued anew by one call, has in its   *)
(* accumulated times what it was asked to wait.                            *)
Counts(anew) ==
    due' = [u \in Device |->
               IF ~InSeq(u, cosched') THEN IF Ticks THEN due[u] - 1 ELSE 0
               ELSE IF u \in anew \/ ~InSeq(u, cosched) THEN Key(cosched', time', u)
               ELSE IF Ticks THEN due[u] - 1 ELSE due[u]]

(* Service routines that queue their own unit again. *)
Periodic ==
    /\ phase = "service" /\ running \in Device
    /\ \/ \E n \in CoschedTicks :
              Calls(sim_clock_coschedule_tmr(S, running, n))
       \/ \E d \in UsecDelays : Calls(sim_timer_activate_after(S, running, d))
       \/ \E d \in Delays \ {0} : Calls(Activated(S, running, d))

HCall ==
    /\ \/ /\ ~quiet
          /\ \/ CallActivate \/ CallActivateAfter \/ CallCoschedule \/ CallCancel
             \/ clk_reset
          /\ Counts({})
       \/ /\ ~quiet
          /\ \E u \in Device : CallActivateAfterAbs(u) /\ Counts({u})
       \/ quiet /\ Periodic /\ Counts({})
    /\ UNCHANGED quiet

HStep == CStep /\ Counts({}) /\ UNCHANGED quiet

GoQuiet == ~quiet /\ quiet' = TRUE /\ UNCHANGED <<allvars, due>>

HNext == HCall \/ HStep \/ GoQuiet

HSpec == HInit /\ [][HNext]_hvars /\ WF_phase(GoesOn)

-----------------------------------------------------------------------------
(* Every unit is linked in at most one list and at most once, and its      *)
(* cancel hook is bound exactly while it is on the tick list: sim_cancel   *)
(* looks for a unit only where the hook sends it, so a stale hook would    *)
(* leave a unit that nobody can cancel or queue again.                     *)
OneList ==
    LET all == queue \o cosched \o gathered
    IN  /\ \A i, j \in 1 .. Len(all) : all[i] = all[j] => i = j
        /\ \A u \in Unit : u \in hooked <=> InSeq(u, cosched \o gathered)

Waiting(u) == Active(S, u) \/ (running = u /\ phase = "requeue")

(* Outside its own service routine the clock in use is queued, and so is   *)
(* the line clock: no reset, switch of clocks, cancellation or re-queueing *)
(* stops the ticks that the units on the tick list wait for.               *)
ClockRuns ==
    \A c \in {Line, calb} : Listed(S, c) \/ (running = c /\ phase = "service")

(* A tick leaves nobody behind: a unit is never on the tick list after the *)
(* tick it was asked to wait for, whatever was inserted, cancelled, parked *)
(* or migrated around it.                                                  *)
NoTickMissed ==
    [][Ticks => \A u \in Device : InSeq(u, cosched') => due'[u] > 0]_hvars

(* When the guest makes no more calls but those of a service routine that  *)
(* queues its own unit again, every waiting unit leaves its list: however  *)
(* often a long wait is parked and parked again, it ends.                  *)
WaitsEnd == \A u \in Device : quiet /\ Waiting(u) ~> ~Waiting(u)
=============================================================================
