----------------------------- MODULE WallClock -----------------------------
(***************************************************************************)
(* The clock of the display (TimeClock.c): a count of seconds since        *)
(* 2000-01-01, which a timer advances through the scheduler, the phone     *)
(* sets by a packed date, and the display converts to a date again.        *)
(*                                                                         *)
(* The date the user sees is compared with a calendar that goes from one   *)
(* second to the next (`Later`) and knows nothing of counts of days.       *)
(***************************************************************************)
EXTENDS Integers, FiniteSetsExt

CONSTANTS Years,        \* years, after 2000, that the phone may set
          Times,        \* times of the day, in seconds, that it may set
          MaxTicks      \* bound: seconds that pass

(* time_bit_field_type_t has six bits for the year.                        *)
ASSUME WallClockAssumption ==
    /\ Years \subseteq 0 .. 63 /\ Times \subseteq 0 .. 86399
    /\ MaxTicks \in Nat

VARIABLES SecondCountRTC, Global_Time, TimerWeek,
          asked,            \* the date the phone has set, if any
          nticks

vars == <<SecondCountRTC, Global_Time, TimerWeek, asked, nticks>>

BEGYEAR == 2000
DAY == 86400
LENGTH_OF_WEEK == 7
SYSTEM_ORIGIN_DAY_OF_WEEK == 5      \* Sat; weeks begin with MOn = 0

(* Mutant: the years divisible by 400 are left out.                        *)
IsLeapYear_NoCentury(yr) == yr % 100 # 0 /\ yr % 4 = 0

IsLeapYear(yr) == yr % 400 = 0 \/ (yr % 100 # 0 /\ yr % 4 = 0)
YearLength(yr) == IF IsLeapYear(yr) THEN 366 ELSE 365

(* Months are 0 to 11 here.  Months of 31 and 30 days alternate, but for   *)
(* July and August.                                                        *)
monthLength(leap, mon) ==
    IF mon = 1 THEN IF leap THEN 29 ELSE 28
    ELSE LET m == IF mon > 6 THEN mon - 1 ELSE mon
         IN  IF m % 2 = 1 THEN 30 ELSE 31

(* Days that the loops over years and months have taken off.               *)
YearEnd == 64
DaysBeforeYear ==
    [k \in 0 .. YearEnd + 1 |->
        MapThenSumSet(LAMBDA y : YearLength(BEGYEAR + y), 0 .. k - 1)]

DaysBeforeMonth ==
    [leap \in BOOLEAN |->
        [m \in 0 .. 12 |-> MapThenSumSet(LAMBDA n : monthLength(leap, n), 0 .. m - 1)]]

(***************************************************************************)
(* From a count of seconds to a date; a day of the month is 0 to 30.       *)
(***************************************************************************)
ConvertToUTCTime(secTime) ==
    LET numDays == secTime \div DAY
        second == secTime % DAY
        k == CHOOSE y \in 0 .. YearEnd :
                 DaysBeforeYear[y] <= numDays /\ numDays < DaysBeforeYear[y + 1]
        leap == IsLeapYear(BEGYEAR + k)
        left == numDays - DaysBeforeYear[k]
        m == CHOOSE n \in 0 .. 11 :
                 DaysBeforeMonth[leap][n] <= left /\ left < DaysBeforeMonth[leap][n + 1]
    IN  [year |-> BEGYEAR + k, month |-> m, day |-> left - DaysBeforeMonth[leap][m],
         hour |-> second \div 3600, minutes |-> (second % 3600) \div 60,
         seconds |-> second % 60]

get_wall_clock_time(secTime) ==
    LET tm == ConvertToUTCTime(secTime)
    IN  [tm EXCEPT !.month = @ + 1, !.day = @ + 1]

get_day_of_week(secTime) ==
    (((secTime \div DAY) % LENGTH_OF_WEEK) + SYSTEM_ORIGIN_DAY_OF_WEEK) % LENGTH_OF_WEEK

(***************************************************************************)
(* From a date (months and days from 1) to a count of seconds.             *)
(***************************************************************************)
offset(time) ==
    time.seconds + time.minutes * 60 + time.hour * 60 * 60
        + DAY * (time.day - 1)
        + DAY * DaysBeforeMonth[IsLeapYear(time.year)][time.month - 1]
        + DAY * DaysBeforeYear[time.year - BEGYEAR]

(***************************************************************************)
(* The calendar.                                                           *)
(***************************************************************************)
MonthDays == <<31, 28, 31, 30, 31, 30, 31, 31, 30, 31, 30, 31>>
DaysOf(year, month) ==
    IF month = 2 /\ (year % 4 = 0 /\ (year % 100 = 0 => year % 400 = 0))
    THEN 29 ELSE MonthDays[month]

Dates ==
    {d \in [year : {BEGYEAR + y : y \in Years}, month : 1 .. 12, day : 1 .. 31] :
        d.day <= DaysOf(d.year, d.month)}

At(d, t) ==
    [year |-> d.year, month |-> d.month, day |-> d.day,
     hour |-> t \div 3600, minutes |-> (t \div 60) % 60, seconds |-> t % 60]

Nothing == At([year |-> 0, month |-> 0, day |-> 0], 0)

(* The moment one second after another.                                    *)
Later(t) ==
    IF t.seconds < 59 THEN [t EXCEPT !.seconds = @ + 1]
    ELSE LET s == [t EXCEPT !.seconds = 0] IN
    IF t.minutes < 59 THEN [s EXCEPT !.minutes = @ + 1]
    ELSE LET m == [s EXCEPT !.minutes = 0] IN
    IF t.hour < 23 THEN [m EXCEPT !.hour = @ + 1]
    ELSE LET h == [m EXCEPT !.hour = 0] IN
    IF t.day < DaysOf(t.year, t.month) THEN [h EXCEPT !.day = @ + 1]
    ELSE LET d == [h EXCEPT !.day = 1] IN
    IF t.month < 12 THEN [d EXCEPT !.month = @ + 1]
    ELSE [d EXCEPT !.month = 1, !.year = @ + 1]

(***************************************************************************)
(* The clock.                                                              *)
(***************************************************************************)
Init ==
    /\ SecondCountRTC = 0
    /\ Global_Time = get_wall_clock_time(0) /\ TimerWeek = SYSTEM_ORIGIN_DAY_OF_WEEK
    /\ asked = Nothing /\ nticks = 0

(* setup_time_f(): the new date shows with the next second.                *)
set_system_clock ==
    /\ asked = Nothing
    /\ \E d \in Dates, t \in Times :
           /\ asked' = At(d, t)
           /\ SecondCountRTC' = offset(At(d, t))
    /\ nticks' = 0
    /\ UNCHANGED <<Global_Time, TimerWeek>>

(* One second; the display asks for the date whenever it shows it.         *)
update_wall_clock ==
    /\ nticks < MaxTicks
    /\ nticks' = nticks + 1
    /\ SecondCountRTC' = SecondCountRTC + 1
    /\ Global_Time' = get_wall_clock_time(SecondCountRTC')
    /\ TimerWeek' = get_day_of_week(SecondCountRTC')
    /\ UNCHANGED asked

Next == set_system_clock \/ update_wall_clock

Spec == Init /\ [][Next]_vars

(***************************************************************************)
(* Properties.                                                             *)
(***************************************************************************)
(* The date on display exists.                                             *)
TypeOK ==
    /\ SecondCountRTC \in Nat
    /\ Global_Time.month \in 1 .. 12
    /\ Global_Time.day \in 1 .. DaysOf(Global_Time.year, Global_Time.month)
    /\ Global_Time.hour \in 0 .. 23
    /\ Global_Time.minutes \in 0 .. 59 /\ Global_Time.seconds \in 0 .. 59
    /\ TimerWeek \in 0 .. LENGTH_OF_WEEK - 1
    /\ nticks \in 0 .. MaxTicks

(* What the phone has set is what the conversion gives back.               *)
ShowsWhatWasSet ==
    asked # Nothing /\ nticks = 0 => get_wall_clock_time(SecondCountRTC) = asked

(* From one second to the next the date goes on as a calendar does, over   *)
(* the ends of months, of leap years and of years.                         *)
GoesLikeACalendar ==
    [][update_wall_clock /\ nticks > 0 =>
           Global_Time' = Later(Global_Time)]_vars

(* Zeller's congruence, with Monday 0.                                     *)
DayOfWeek(t) ==
    LET y == IF t.month < 3 THEN t.year - 1 ELSE t.year
        m == IF t.month < 3 THEN t.month + 12 ELSE t.month
    IN  (t.day + (13 * (m + 1)) \div 5 + y + y \div 4 - y \div 100 + y \div 400 + 5) % 7

(* The day of the week is that of the date on display.                     *)
WeekdayRight == TimerWeek = DayOfWeek(Global_Time)
=============================================================================
