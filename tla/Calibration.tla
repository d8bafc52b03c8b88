---------------------------- MODULE Calibration ----------------------------
(***************************************************************************)
(* How the clocks of sim_timer.c keep pace with the wall clock: each is an *)
(* event every so many instructions, and once a second the clock in use    *)
(* corrects that number from the time it took.  The line clock of          *)
(* pdp11_stddev.c is in use, except from a bus reset to its next tick, when*)
(* the internal clock stands in.  The third event is the throttle, which   *)
(* sleeps every so many instructions.                                      *)
(*                                                                         *)
(* The host runs `speed` instructions in a millisecond.  Now and then it   *)
(* becomes faster or slower, is suspended, or its clock is set back; the   *)
(* guest resets the bus: MaxTroubles and MaxSeconds bound it.  Wall time is kept  *)
(* relative to each clock: `since` is sim_os_msec() - rtime and `gap` is   *)
(* vtime - rtime.  The host can sleep for less than a tick, so that no     *)
(* clock has to catch up, and it does not idle.                            *)
(***************************************************************************)
EXTENDS Integers, FiniteSets, FiniteSetsExt

CONSTANTS
    Second,         \* milliseconds in a second
    SIM_TMAX,       \* what one second may make up for
    GapTooBig,      \* suspended longer than this, a clock starts afresh
    clk_tps,        \* ticks per second of the line clock
    sim_int_clk_tps,\* and of the internal one
    ClkInit,        \* first tick size of the internal clock (CLK_INIT)
    ClkDelay,       \* and of the line clock (CLK_DELAY)
    Speeds,         \* instructions the host can run in a millisecond
    Throttles,      \* what sim_set_throt is called with, see ThrotSetting
    SleepMin,       \* sim_idle_rate_ms
    MaxTroubles,
    MaxSeconds      \* bound on the calibrations after a trouble

VARIABLES
    rtc,        \* the clocks
    calb,       \* the clock in use, sim_calb_tmr
    left,       \* instructions to the event of a clock or the throttle, -1: none
    throt,      \* sleep time and instructions between two sleeps, of the throttle
    host,       \* its speed, troubles so far
    kept        \* calibrations since the last trouble, the gap at the one before

calvars == <<rtc, calb, left, throt, host, kept>>

LINE == "TMR_CLK"
INTERNAL == "SIM_INTERNAL_CLK"
THROTTLE == "sim_throttle_unit"

S == [rtc |-> rtc, calb |-> calb, left |-> left]
Turns(s) == rtc' = s.rtc /\ calb' = s.calb /\ left' = s.left

-----------------------------------------------------------------------------
(* Scheduling. *)

sim_timer_inst_per_sec(s) ==
    LET c == s.rtc[s.calb]
    IN c.currd * (IF c.hz = 0 THEN sim_int_clk_tps ELSE c.hz)

(* sim_activate_after, by the tick of a clock: an event that is queued     *)
(* stays as it is; no delay is less than an instruction.                   *)
ActivateAfter(s, c, tps) ==
    LET delay == (sim_timer_inst_per_sec(s) * (Second \div tps)) \div Second
    IN IF s.left[c] >= 0 THEN s ELSE [s EXCEPT !.left[c] = Max({1, delay})]

Cancel(s, c) == [s EXCEPT !.left[c] = -1]

(* The state of a clock that starts: it keeps the tick size it once had.   *)
Initialized(s, c, time, tps) ==
    LET size == IF s.rtc[c].currd = 0 THEN time ELSE s.rtc[c].currd
    IN [s EXCEPT !.rtc[c] = [@ EXCEPT !.since = 0, !.gap = 0, !.nxintv = Second, !.ticks = 0,
                                      !.last_hz = s.rtc[c].hz, !.hz = tps, !.based = size,
                                      !.currd = size]]

(* A clock ticks, is not faster than the host and has had one rate only.   *)
Suitable(s, c) == s.rtc[c].hz # 0 /\ s.rtc[c].last_hz \in {0, s.rtc[c].hz}

(* _rtcn_configure_calibrated_clock, when the line clock changes: in use   *)
(* is the line clock if it is suitable, else the internal one, started for *)
(* the purpose; its first tick is forced.                                  *)
Internal(s) ==
    LET stopped == IF s.calb = LINE /\ s.rtc[LINE].hz = 0 THEN Cancel(s, LINE) ELSE s
        started == Initialized([stopped EXCEPT !.calb = INTERNAL], INTERNAL, ClkInit, sim_int_clk_tps)
    IN ActivateAfter([started EXCEPT !.rtc[INTERNAL].ticks = 1], INTERNAL, sim_int_clk_tps)

_rtcn_configure_calibrated_clock(s) ==
    IF Suitable(s, LINE)
      THEN IF s.calb = LINE THEN s
           ELSE [Cancel(s, INTERNAL) EXCEPT !.rtc[INTERNAL].hz = 0, !.calb = LINE]
    ELSE IF s.left[INTERNAL] >= 0 THEN s ELSE Internal(s)

(* clk_reset, in reset_all and in every bus reset. *)
clk_reset(s) ==
    ActivateAfter(_rtcn_configure_calibrated_clock(Initialized(s, LINE, ClkDelay, 0)), LINE, clk_tps)

-----------------------------------------------------------------------------
(* sim_rtcn_calb: a tick of clock c, which ticks tps times a second.       *)

(* The first tick says at what rate: the clock may come into use.          *)
RateKnown(s, c, tps) ==
    LET r == s.rtc[c]
        changed == r.last_hz \notin {0, tps}
        known == [s EXCEPT !.rtc[c].currd = IF changed THEN sim_timer_inst_per_sec(s) \div tps ELSE @,
                           !.rtc[c].last_hz = r.hz, !.rtc[c].hz = tps]
    IN IF r.hz = tps THEN s ELSE _rtcn_configure_calibrated_clock(known)

(* Wall time went backwards, or too far: from here on as it is. *)
StartsAfresh(r) == [r EXCEPT !.gap = 0, !.since = 0, !.nxintv = Second, !.based = r.currd]

(* Mutant: what is missing is added once more. *)
NextIntervalAway(gap) == Second - gap

(* Mutant: whatever is missing is made up for at once. *)
NextIntervalAtOnce(gap) == Second + gap

(* What is missing, or too much, is made up for in the next second, but no *)
(* more than SIM_TMAX. *)
NextInterval(gap) ==
    Second + (IF gap > SIM_TMAX THEN SIM_TMAX ELSE IF gap < -SIM_TMAX THEN -SIM_TMAX ELSE gap)

AtLeast1(n) == IF n <= 0 THEN 1 ELSE n

(* The instructions of the last interval took `since`: this gives the base *)
(* rate, for a second, and the tick size for the next interval.            *)
Regulated(r, tps) ==
    LET gap   == r.gap + Second - r.since
        based == IF r.since = 0 THEN r.based * tps ELSE (r.based * r.nxintv) \div r.since
        next  == NextInterval(gap)
    IN [r EXCEPT !.gap = gap, !.since = 0, !.nxintv = next, !.based = AtLeast1(based),
                 !.currd = AtLeast1((based * next) \div Second)]

(* The clock in use also sets the tick size of the other, if it ticks.     *)
Calibrated(s, c, tps, backwards) ==
    LET r == s.rtc[c]
        now == Regulated(r, tps)
        Other(d) == IF d = c \/ s.rtc[d].hz = 0 THEN s.rtc[d]
                    ELSE [s.rtc[d] EXCEPT !.currd = (now.currd * tps) \div s.rtc[d].hz]
    IN IF backwards \/ r.since > GapTooBig THEN [s EXCEPT !.rtc[c] = StartsAfresh(r)]
       ELSE [s EXCEPT !.rtc = [d \in {LINE, INTERNAL} |-> IF d = c THEN now ELSE Other(d)]]

(* A clock that is not in use takes over the rate of the one that is.      *)
SecondOver(s, c, tps, backwards) ==
    LET t == [s EXCEPT !.rtc[c].ticks = 0]
    IN IF s.calb = c THEN Calibrated(t, c, tps, backwards)
       ELSE [t EXCEPT !.rtc[c].currd = sim_timer_inst_per_sec(s) \div tps]

IsSecond(s, c, tps) == RateKnown(s, c, tps).rtc[c].ticks + 1 >= tps

sim_rtcn_calb(s, c, tps, backwards) ==
    LET t == RateKnown(s, c, tps)
    IN IF IsSecond(s, c, tps) THEN SecondOver(t, c, tps, backwards)
       ELSE [t EXCEPT !.rtc[c].ticks = @ + 1]

-----------------------------------------------------------------------------
(* The throttle: "val/val2" is a sleep of val2 ms every val instructions;  *)
(* a host that cannot sleep that short sleeps less often.                  *)
ThrotSetting(val, val2) ==
    IF val2 >= SleepMin THEN [sleep |-> val2, wait |-> val]
    ELSE IF SleepMin % val2 = 0 THEN [sleep |-> SleepMin, wait |-> val * (SleepMin \div val2)]
    ELSE [sleep |-> SleepMin, wait |-> val * (1 + (SleepMin \div val2))]

NoThrottle == [sleep |-> 0, wait |-> 0]

-----------------------------------------------------------------------------
(* Of a clock that stands still nobody asks the time. *)
Later(s, ms) ==
    [s EXCEPT !.rtc = [c \in {LINE, INTERNAL} |->
                          [s.rtc[c] EXCEPT !.since = IF s.rtc[c].hz = 0 THEN 0 ELSE @ + ms]]]

(* reset_all, then the throttle is started (sim_throt_sched) and the timer *)
(* services find the internal clock running (sim_start_timer_services).    *)
Off == [hz |-> 0, last_hz |-> 0, currd |-> 0, based |-> 0, nxintv |-> 0, since |-> 0, gap |-> 0, ticks |-> 0]
CalibrationInit ==
    /\ throt \in {NoThrottle} \cup {ThrotSetting(t.val, t.val2) : t \in Throttles}
    /\ \E speed \in Speeds : host = [speed |-> speed, troubles |-> 0]
    /\ kept = [calibrations |-> 0, gap |-> 0]
    /\ LET none == [rtc |-> [c \in {LINE, INTERNAL} |-> Off], calb |-> INTERNAL,
                    left |-> [u \in {LINE, INTERNAL, THROTTLE} |-> -1]]
           s == clk_reset(none)
       IN /\ rtc = s.rtc /\ calb = s.calb
          /\ left = [s.left EXCEPT ![THROTTLE] = IF throt.wait = 0 THEN -1 ELSE throt.wait]

(* The next event, its instructions later.  *)
Due(u) == left[u] >= 0 /\ \A v \in DOMAIN left : left[v] >= 0 => left[u] <= left[v]
AtEvent(u) ==
    LET past == [v \in DOMAIN left |-> IF v = u \/ left[v] < 0 THEN -1 ELSE left[v] - left[u]]
    IN Later([S EXCEPT !.left = past], left[u] \div host.speed)

Trouble == host.troubles < MaxTroubles /\ host' = [host EXCEPT !.troubles = @ + 1]
Disturbed == kept' = [calibrations |-> 0, gap |-> 0]

(* clk_svc and sim_timer_clock_tick_svc. *)
TickOf(c, tps, backwards) ==
    /\ Due(c)
    /\ LET s == AtEvent(c)
       IN Turns(ActivateAfter(sim_rtcn_calb(s, c, tps, backwards), c, tps))
    /\ UNCHANGED throt

TickAsUsual ==
    \E c \in {LINE, INTERNAL} :
        LET tps == IF c = LINE THEN clk_tps ELSE sim_int_clk_tps
        IN /\ kept.calibrations < MaxSeconds
           /\ TickOf(c, tps, FALSE)
           /\ kept' = IF calb = c /\ IsSecond(AtEvent(c), c, tps)
                      THEN [calibrations |-> kept.calibrations + 1,
                            gap |-> rtc[c].gap]
                      ELSE kept
           /\ UNCHANGED host

TickBackwards ==
    /\ calb = LINE /\ IsSecond(S, LINE, clk_tps)
    /\ TickOf(LINE, clk_tps, TRUE) /\ Trouble /\ Disturbed

(* The throttle sleeps; what it works out every ten seconds nobody reads.  *)
sim_throt_svc ==
    /\ Due(THROTTLE) /\ kept.calibrations < MaxSeconds
    /\ Turns(Later([AtEvent(THROTTLE) EXCEPT !.left[THROTTLE] = throt.wait], throt.sleep))
    /\ UNCHANGED <<throt, host, kept>>

HostSpeed ==
    /\ \E speed \in Speeds \ {host.speed} : host' = [speed |-> speed, troubles |-> host.troubles + 1]
    /\ host.troubles < MaxTroubles /\ Disturbed
    /\ UNCHANGED <<rtc, calb, left, throt>>
HostSuspended ==
    /\ \E ms \in {GapTooBig, 2 * Second} : Turns(Later(S, ms))
    /\ Trouble /\ Disturbed /\ UNCHANGED throt
BusReset ==
    /\ Turns(clk_reset(S))
    /\ Trouble /\ Disturbed /\ UNCHANGED throt

CalibrationNext ==
    \/ TickAsUsual \/ TickBackwards \/ sim_throt_svc \/ HostSpeed \/ HostSuspended \/ BusReset

-----------------------------------------------------------------------------
(* The tick size of a clock that ticks is never zero; and whatever has     *)
(* happened to the host, from the third undisturbed second on guest time  *)
(* comes nearer to wall time by SIM_TMAX a second, until they differ by    *)
(* no more than the tolerance: three milliseconds for each tick of a       *)
(* second, for time in whole milliseconds and tick sizes in whole          *)
(* instructions, and six sleeps of the throttle.                           *)
Rounding == 3 * clk_tps + 6 * throt.sleep
Absolute(n) == IF n < 0 THEN -n ELSE n
TimeKept ==
    /\ \A c \in {LINE, INTERNAL} : rtc[c].hz # 0 => rtc[c].currd > 0 /\ rtc[c].based > 0
    /\ left[calb] >= 0
    /\ kept.calibrations >= 4 =>
          Absolute(rtc[calb].gap)
            <= (IF Absolute(kept.gap) > SIM_TMAX THEN Absolute(kept.gap) - SIM_TMAX ELSE 0) + Rounding
=============================================================================
