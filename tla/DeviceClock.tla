----------------------------- MODULE DeviceClock -----------------------------
(***************************************************************************)
(* The device clock (main.cpp, F-TIMESYNC): the host's clock plus the      *)
(* offset the last TimeSynchronization left, read through Local_Date and   *)
(* Local_Time and stamped into the File's Modification_Date.               *)
(*                                                                         *)
(* The calendar is a parameter: months of given lengths, a leap day in     *)
(* every second year at the end of the last month, a day of HoursPerDay    *)
(* hours; minutes and seconds are further digits of the same kind and are  *)
(* left out.  Summer time is left out: local time never skips or repeats.  *)
(***************************************************************************)
EXTENDS Integers, Sequences

CONSTANTS
    MonthLength,   \* the lengths of a year's months
    HoursPerDay,
    Years, Months, Days, Hours,  \* what the fields of a request hold
    UNSPECIFIED,   \* the wildcard octet
    Epoch,         \* time_t 0, in hours since the start of year 0
    HostStart, MaxHost,          \* the host's clock
    None

\* Year 0, the first the calendar has, is left out of the requests: a month or a day 0
\* would reach back beyond it.
ASSUME CalendarAssumption ==
    /\ MonthLength \in Seq(1..31) /\ Len(MonthLength) >= 2
    /\ MonthLength[Len(MonthLength)] <= 30  \* there is room for the leap day
    /\ HoursPerDay \in Nat \ {0} /\ Epoch \in Nat
    /\ HostStart \in Nat /\ MaxHost \in Nat /\ HostStart <= MaxHost

ASSUME RequestAssumption ==
    /\ Years \subseteq 1..255 /\ Months \subseteq 0..255 /\ Days \subseteq 0..255 /\ Hours \subseteq 0..255
    /\ None \notin [year : Nat, month : Nat, day : Nat, hour : Nat]

VARIABLES
    host,                  \* time(NULL)
    g_clockOffsetSeconds,
    expected               \* the moment a wall calendar set by the last good request shows (history)

clockVars == <<host, g_clockOffsetSeconds, expected>>

-----------------------------------------------------------------------------
MonthsPerYear == Len(MonthLength)
LengthOf(month) ==  \* months are counted from the start of year 0
    MonthLength[(month % MonthsPerYear) + 1]
    + (IF (month + 1) % (2 * MonthsPerYear) = 0 THEN 1 ELSE 0)

DaysBefore[month \in Nat] ==
    IF month = 0 THEN 0 ELSE DaysBefore[month - 1] + LengthOf(month - 1)

\* The month a day is in: no month is without a day, so it is not later than the day.
MonthOf(day) == CHOOSE m \in 0..day : DaysBefore[m] <= day /\ day < DaysBefore[m] + LengthOf(m)

\* mktime, which takes any fields and carries what is too large into the next one.
mktime(m) ==
    (DaysBefore[m.year * MonthsPerYear + m.month - 1] + m.day - 1) * HoursPerDay + m.hour - Epoch

\* Mutant: the weekday is copied as struct tm counts it.
WeekdayAsInTm(day) == (day + 1) % 7

\* 1 = Monday .. 7 = Sunday, where tm_wday has 0 = Sunday; day 0 is a Monday.
Weekday(day) == LET tm_wday == (day + 1) % 7 IN IF tm_wday = 0 THEN 7 ELSE tm_wday

\* localtime, and the BACnet fields ReadDeviceDateTime makes of it.
localtime(t) ==
    LET day == (t + Epoch) \div HoursPerDay
        month == MonthOf(day)
    IN  [year |-> (month \div MonthsPerYear) % 256,
         month |-> (month % MonthsPerYear) + 1,
         day |-> day - DaysBefore[month] + 1,
         hour |-> (t + Epoch) % HoursPerDay,
         weekday |-> Weekday(day)]

\* GetDeviceLocalTm: what GetPropertyDate and GetPropertyTime serve.
Local == localtime(host + g_clockOffsetSeconds)

Moments == [year : Years, month : Months, day : Days, hour : Hours]

\* The request names a moment of the calendar.
Exists(m) ==
    /\ m.month \in 1..MonthsPerYear /\ m.hour \in 0..(HoursPerDay - 1)
    /\ m.day \in 1..LengthOf(m.year * MonthsPerYear + m.month - 1)

\* Mutant: the correction is added to the one before.
SetSystemTimeOnTop(m) ==
    /\ UNSPECIFIED \notin {m.year, m.month, m.day, m.hour}
    /\ g_clockOffsetSeconds' = g_clockOffsetSeconds + mktime(m) - host
    /\ expected' = IF Exists(m) THEN m ELSE None
    /\ UNCHANGED host

SetSystemTime(m) ==
    /\ UNSPECIFIED \notin {m.year, m.month, m.day, m.hour}
    /\ mktime(m) # -1
    /\ g_clockOffsetSeconds' = mktime(m) - host
    /\ expected' = IF Exists(m) THEN m ELSE None
    /\ UNCHANGED host

\* A wildcard, or what mktime reports as a failure.
IgnoreSystemTime(m) ==
    /\ UNSPECIFIED \notin {m.year, m.month, m.day, m.hour} => mktime(m) = -1
    /\ UNCHANGED clockVars

\* A wall calendar one hour later, digit by digit; its year has an octet, as BACnet's.
HourLater(m) ==
    LET last == LengthOf(m.year * MonthsPerYear + m.month - 1)
    IN  CASE m.hour + 1 < HoursPerDay -> [m EXCEPT !.hour = @ + 1]
          [] m.hour + 1 = HoursPerDay /\ m.day < last -> [m EXCEPT !.hour = 0, !.day = @ + 1]
          [] m.hour + 1 = HoursPerDay /\ m.day = last /\ m.month < MonthsPerYear ->
               [m EXCEPT !.hour = 0, !.day = 1, !.month = @ + 1]
          [] OTHER -> [year |-> (m.year + 1) % 256, month |-> 1, day |-> 1, hour |-> 0]

\* An hour passes on the host.
HourPasses ==
    /\ host < MaxHost
    /\ host' = host + 1
    /\ expected' = IF expected = None THEN None ELSE HourLater(expected)
    /\ UNCHANGED g_clockOffsetSeconds

ClockInit ==
    /\ host = HostStart
    /\ g_clockOffsetSeconds = 0
    /\ expected = None

ClockNext == HourPasses \/ \E m \in Moments : SetSystemTime(m) \/ IgnoreSystemTime(m)

ClockSpec == ClockInit /\ [][ClockNext]_clockVars

-----------------------------------------------------------------------------
(***************************************************************************)
(* Properties.                                                             *)
(***************************************************************************)
\* Every variable, and what is served from them, has its type.
ClockTypeOK ==
    /\ host \in HostStart..MaxHost /\ g_clockOffsetSeconds \in Int
    /\ Local \in [year : 0..255, month : 1..MonthsPerYear, day : 1..31, hour : 0..(HoursPerDay - 1),
                  weekday : 1..7]

\* "Local_Date / Local_Time ... follow the synchronised time ... and keep running from
\* there" (SetSystemTime): after a request that names a moment the device shows, hour
\* for hour and across the ends of months and years, what a calendar set to that
\* moment would, whatever the offset was before; what it serves is always a date.
FollowsSynchronisedTime ==
    /\ ClockTypeOK
    /\ expected # None => \A f \in {"year", "month", "day", "hour"} : Local[f] = expected[f]

Date == <<Local.year, Local.month, Local.day>>

\* Weekday, which the request's own is not used for, runs Monday = 1 .. Sunday = 7 and
\* moves on by one whenever the date does.
WeekdayFollowsDate ==
    [][host' = host + 1 =>
          Local.weekday' = IF Date' = Date THEN Local.weekday ELSE (Local.weekday % 7) + 1]_clockVars
=============================================================================
