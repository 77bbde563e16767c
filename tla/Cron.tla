------------------------------- MODULE Cron -------------------------------
(***************************************************************************)
(* internal/cron: Validate, parseField and the scan of NextTime, which     *)
(* jumps over months, days and hours that cannot match.                    *)
(*                                                                         *)
(* Time is counted in minutes since an epoch; the wall clock is offset     *)
(* minutes ahead of it.  The calendar is a parameter (hours of             *)
(* MinutesPerHour minutes, and so on), so that a year is small enough to   *)
(* look at every minute of it.  All months have the same length and the    *)
(* offset never changes: leap days and summer time are left out.           *)
(***************************************************************************)
EXTENDS Integers, FiniteSets

CONSTANTS
  MinutesPerHour, HoursPerDay, DaysPerMonth, MonthsPerYear, DaysPerWeek,
  HorizonDays,   \* the scan is given up after so many days (366 in the code)
  Offsets,       \* how far time zones are ahead of absolute time, in minutes
  Fields,        \* the texts a field may be: Fields[i] for the i-th field
  MaxAfter       \* bound: the times NextTime is called with

ASSUME CalendarAssumption ==
  /\ {MinutesPerHour, HoursPerDay, DaysPerMonth, MonthsPerYear, DaysPerWeek}
       \subseteq Nat \ {0}
  /\ {HorizonDays, MaxAfter} \subseteq Nat /\ Offsets \subseteq Nat

VARIABLES
  offset,     \* of the zone the process runs in
  pc,         \* "validate", "rejected", "scan" or "done"
  fields,     \* the five fields: minute, hour, day of month, month, weekday
  after,      \* the argument of NextTime
  candidate,  \* the loop variable of NextTime
  result      \* what NextTime returns

cronVars == <<offset, pc, fields, after, candidate, result>>

-----------------------------------------------------------------------------
(* Fields: a comma-separated list, here a set, of parts *, a, a-b, each    *)
(* possibly with a step /n.                                                *)

Part == [form : {"all", "value", "range"}, a : Int, b : Int, step : Int]

Position == 1..5

\* The text of a field has at least one part.
ASSUME FieldsAssumption == Fields \in [Position -> SUBSET ((SUBSET Part) \ {{}})]

Low  == <<0, 0, 1, 1, 0>>
High == <<MinutesPerHour - 1, HoursPerDay - 1, DaysPerMonth, MonthsPerYear, DaysPerWeek - 1>>

NoStep == 0   \* a part without "/"

\* validateField and validateRange, for one part.
ValidPart(p, i) ==
  /\ p.step >= 0
  /\ p.form = "value" => p.a \in Low[i]..High[i]
  /\ p.form = "range" => Low[i] <= p.a /\ p.b <= High[i] /\ p.a <= p.b

Validate == \A i \in Position : \A p \in fields[i] : ValidPart(p, i)

Every(a, b, n) == {v \in a..b : (v - a) % n = 0}

\* parseField, for one part: a value is checked, a range is not, and a value
\* with a step starts a range that ends at the highest value.
ParsePart(p, i) ==
  CASE p.form = "all"   -> Every(Low[i], High[i], IF p.step = NoStep THEN 1 ELSE p.step)
    [] p.form = "range" -> Every(p.a, p.b, IF p.step = NoStep THEN 1 ELSE p.step)
    [] p.form = "value" -> IF p.step = NoStep THEN {p.a} \cap Low[i]..High[i]
                                              ELSE Every(p.a, High[i], p.step)

ParseField(i) ==
  LET set == UNION {ParsePart(p, i) : p \in fields[i]}
  IN  IF set = {} THEN Low[i]..High[i] ELSE set

-----------------------------------------------------------------------------
(* The calendar, as time.Time shows it in the process's time zone.         *)

MinutesPerDay == MinutesPerHour * HoursPerDay
Day(t)     == (t + offset) \div MinutesPerDay
Minute(t)  == (t + offset) % MinutesPerHour
Hour(t)    == ((t + offset) \div MinutesPerHour) % HoursPerDay
MonthDay(t) == (Day(t) % DaysPerMonth) + 1
Month(t)   == ((Day(t) \div DaysPerMonth) % MonthsPerYear) + 1
Weekday(t) == Day(t) % DaysPerWeek

\* time.Date of midnight of the d-th day, in absolute time.
Midnight(d) == d * MinutesPerDay - offset
NextDay(t)   == Midnight(Day(t) + 1)
NextMonth(t) == Midnight((Day(t) \div DaysPerMonth + 1) * DaysPerMonth)

\* Truncate(time.Hour).Add(time.Hour): Truncate works on absolute time.
NextHourTwice(t) == (t \div MinutesPerHour + 2) * MinutesPerHour
NextHourStays(t) == (t \div MinutesPerHour) * MinutesPerHour
NextHour(t) == (t \div MinutesPerHour + 1) * MinutesPerHour

-----------------------------------------------------------------------------
CronInit ==
  /\ pc = "validate" /\ offset \in Offsets
  /\ \E minute \in Fields[1], hour \in Fields[2], dom \in Fields[3],
        month \in Fields[4], dow \in Fields[5] :
       fields = <<minute, hour, dom, month, dow>>
  /\ after \in 0..MaxAfter
  /\ candidate = 0 /\ result = 0

\* Schedules are validated before they are stored; NextTime starts at the
\* minute after its argument.
Start ==
  /\ pc = "validate"
  /\ IF Validate THEN pc' = "scan" /\ candidate' = after + 1
                 ELSE pc' = "rejected" /\ UNCHANGED candidate
  /\ UNCHANGED <<offset, fields, after, result>>

Limit == after + 1 + HorizonDays * MinutesPerDay

InMonth  == Month(candidate) \in ParseField(4)
InDay    == MonthDay(candidate) \in ParseField(3) /\ Weekday(candidate) \in ParseField(5)
InHour   == Hour(candidate) \in ParseField(2)
InMinute == Minute(candidate) \in ParseField(1)

Scan == pc = "scan" /\ candidate < Limit

Found ==
  /\ Scan /\ InMonth /\ InDay /\ InHour /\ InMinute
  /\ pc' = "done" /\ result' = candidate
  /\ UNCHANGED <<offset, fields, after, candidate>>

Skip ==
  /\ Scan
  /\ \/ ~InMonth /\ candidate' = NextMonth(candidate)
     \/ InMonth /\ ~InDay /\ candidate' = NextDay(candidate)
     \/ InMonth /\ InDay /\ ~InHour /\ candidate' = NextHour(candidate)
     \/ InMonth /\ InDay /\ InHour /\ ~InMinute /\ candidate' = candidate + 1
  /\ UNCHANGED <<offset, pc, fields, after, result>>

\* No match before the limit: an hour from now.
GiveUp ==
  /\ pc = "scan" /\ candidate >= Limit
  /\ pc' = "done" /\ result' = after + MinutesPerHour
  /\ UNCHANGED <<offset, fields, after, candidate>>

CronNext == Start \/ Found \/ Skip \/ GiveUp

CronSpec == CronInit /\ [][CronNext]_cronVars

\* NextTime is called in one go.
FairCronSpec == CronSpec /\ WF_cronVars(CronNext)

-----------------------------------------------------------------------------
(* Properties.                                                             *)

\* What a field says, without the parser: some part admits v.
Admits(i, v) ==
  \E p \in fields[i] :
    LET from == CASE p.form = "all" -> Low[i] [] OTHER -> p.a
        to   == CASE p.form = "range" -> p.b
                  [] p.form = "value" /\ p.step = NoStep -> p.a
                  [] OTHER -> High[i]
    IN  /\ from <= v /\ v <= to
        /\ p.step = NoStep \/ (v - from) % p.step = 0

Fires(t) ==
  /\ Admits(1, Minute(t)) /\ Admits(2, Hour(t)) /\ Admits(3, MonthDay(t))
  /\ Admits(4, Month(t)) /\ Admits(5, Weekday(t))

\* A jump over an hour ends at a whole hour of absolute time: where the zone is
\* not whole hours ahead, it may pass over the first minutes of the next hour.
Clear(t) == Minute(t) >= offset % MinutesPerHour

\* NextTime returns a minute before the limit at which the expression fires, and
\* however the jumps over months, days and hours fall it passes over none, in
\* zones of whole hours, or none but in the minutes a jump may pass over; the
\* hourly fallback only if there is no such minute before the limit.
NextTimeExact ==
  pc = "done" =>
    LET firings == {t \in after + 1 .. Limit - 1 : Fires(t)}
        clear   == {t \in firings : Clear(t)}
    IN  \/ result \in firings /\ \A t \in clear : result <= t
        \/ result = after + MinutesPerHour /\ clear = {}

\* The scan ends for every expression that was accepted.
ScanEnds == <>(pc \in {"done", "rejected"})
=============================================================================
