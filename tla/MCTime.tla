------------------------------- MODULE MCTime -------------------------------
(***************************************************************************)
(* WallClock and AppTimer for TLC: the clock of the display and the timers *)
(* that drive it and everything else that waits.  They share nothing; what *)
(* says whose behaviour it is.  In "long" a timer waits longer than the    *)
(* counter takes to go around.                                             *)
(***************************************************************************)
EXTENDS WallClock

CONSTANTS scan, timeout

VARIABLES what, rtc, list, m_ticks_latest, m_ticks_elapsed, ops, pending,
          handler, call, left, fired, late

(* Around midnight.                                                        *)
AllYears == 0 .. 63
AroundMidnight == {0, 86398}

BothTimers == {scan, timeout}
Periods == [t \in BothTimers |-> IF t = scan THEN 6 ELSE 0]
OneOperation == {<<"start">>, <<"stop">>}
StopAndStart == {<<"start">>, <<"stop", "start">>}

Short == INSTANCE AppTimer WITH
             Timers <- BothTimers, Period <- Periods, Everlasting <- {scan},
             MAX_RTC_COUNTER_VAL <- 31, MaxLatency <- 1,
             Timeouts <- {5}, OpQueueSize <- 2, ThreadStarts <- {timeout},
             Handlers <- StopAndStart

Long == INSTANCE AppTimer WITH
            Timers <- BothTimers, Period <- Periods, Everlasting <- {scan},
            MAX_RTC_COUNTER_VAL <- 31, MaxLatency <- 1,
            Timeouts <- {40}, OpQueueSize <- 1, ThreadStarts <- {},
            Handlers <- OneOperation

ASSUME TimerAssumption == Short!AppTimerAssumption /\ Long!AppTimerAssumption

timerVars == <<rtc, list, m_ticks_latest, m_ticks_elapsed, ops, pending,
               handler, call, left, fired, late>>

TimeInit == what \in {"clock", "short", "long"} /\ Init /\ Short!Init

ClockStep == what = "clock" /\ Next /\ UNCHANGED <<what, timerVars>>
ShortStep == what = "short" /\ Short!Next /\ UNCHANGED <<what, vars>>
LongStep  == what = "long" /\ Long!Next /\ UNCHANGED <<what, vars>>

TimeNext == ClockStep \/ ShortStep \/ LongStep

TimeSpec == TimeInit /\ [][TimeNext]_<<what, vars, timerVars>>

-----------------------------------------------------------------------------
(* A timer is called at most a few ticks late, whatever is started and     *)
(* stopped meanwhile, by the thread and by handlers, and however often the *)
(* counter goes around (with the types of AppTimer).                       *)
CalledInTime ==
    /\ what = "short" => Short!TypeOK /\ Short!NeverLate
    /\ what = "long" => Long!NeverLate

(* And never before its time.                                              *)
NeverEarly ==
    [][/\ what = "short" => Short!CallsNoneEarly
       /\ what = "long" => Long!CallsNoneEarly]_timerVars

(* The clock shows what was set and the right day of the week, and goes on *)
(* from day to day, month to month and year to year as the calendar does.  *)
ClockRight ==
    /\ [](what = "clock" => TypeOK /\ ShowsWhatWasSet /\ WeekdayRight)
    /\ GoesLikeACalendar
=============================================================================
