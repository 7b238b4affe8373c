------------------------------ MODULE CalendarTime ------------------------------
(***************************************************************************)
(* The instant a FileTimestamp names (src/src/file.rs): parse_rfc3339 and  *)
(* the two accessors above it, system_time and unix_nanos.                 *)
(*                                                                         *)
(* A timestamp is the record of the fields its text has at their places;   *)
(* text of another layout, which parse_rfc3339 refuses before it reads a   *)
(* field, is no such record.  The calendar walks month by month from the   *)
(* epoch in both directions and counts the days by hand, which is what     *)
(* days_from_civil computes in closed form.                                *)
(***************************************************************************)
EXTENDS Integers, Sequences

CONSTANTS
  FirstYear, LastYear,  \* the years the parser accepts, 0000 to 9999
  NanoDigits,           \* decimal digits of a second that are kept, 9
  MaxDigits,            \* the digits of the longest fraction
  PlatformSeconds,      \* the furthest SystemTime reaches from the epoch
  Texts,                \* what timestamps have beside their year and month
  ComparedYears,        \* where InstantsAreExact compares seconds,
  ComparedDays          \* and where it compares nanoseconds too

ASSUME YearsAssumption ==
  FirstYear \in Nat /\ LastYear \in Nat /\ FirstYear <= 1970 /\ 1970 <= LastYear
ASSUME PrecisionAssumption ==
  /\ NanoDigits \in Nat \ {0} /\ MaxDigits \in Nat /\ NanoDigits <= MaxDigits
  /\ PlatformSeconds \in Nat

Zone == [sign: {1, -1}, hours: Nat, minutes: Nat]

ASSUME TextsAssumption ==
  /\ Texts \subseteq [day: Nat, hour: Nat, minute: Nat, second: Nat, zone: Zone,
                      fraction: Seq(0..9)]
  /\ \A text \in Texts : Len(text.fraction) <= MaxDigits

\* What the powers of ten are, which the proofs take from here.
ASSUME PowersOfTenAssumption ==
  /\ 10 ^ 0 = 1
  /\ \A k \in 0..MaxDigits : 10 ^ k \in Nat \ {0} /\ 10 ^ (k + 1) = 10 * 10 ^ k

VARIABLES
  year, month,          \* where the calendar stands
  firstDay              \* days from the epoch to the first of that month, counted

calendar == <<year, month, firstDay>>

SecondsPerDay == 86400
NanosPerSecond == 10 ^ NanoDigits

\* Division as Rust does it, which truncates toward zero.
Quotient(a, b) == IF a >= 0 THEN a \div b ELSE -((-a) \div b)

-------------------------------------------------------------------------------
(* Mutated forms of the definitions below, each a bug this code could have;   *)
(* no specification uses them.                                                *)

\* Without the shift of the era, and so off by an era in January and February 0000.
EraOf(y) == Quotient(y, 400)

\* The magnitude before 1970 keeps the remainder as it is.
NegatedSeconds(seconds, nanos) == [before |-> TRUE, seconds |-> -seconds, nanos |-> nanos]

-------------------------------------------------------------------------------
(* The calendar *)

is_leap_year(y) == y % 4 = 0 /\ (y % 100 # 0 \/ y % 400 = 0)

days_in_month(y, m) ==
  IF m \in {1, 3, 5, 7, 8, 10, 12} THEN 31
  ELSE IF m \in {4, 6, 9, 11} THEN 30
  ELSE IF m # 2 THEN 0
  ELSE IF is_leap_year(y) THEN 29 ELSE 28

era_of(y) == Quotient(IF y >= 0 THEN y ELSE y - 399, 400)

\* Years begin in March, which puts the leap day at their end.
days_from_civil(y, m, d) ==
  LET shifted == IF m <= 2 THEN y - 1 ELSE y
      era == era_of(shifted)
      yearOfEra == shifted - era * 400
      dayOfYear == (153 * (IF m > 2 THEN m - 3 ELSE m + 9) + 2) \div 5 + d - 1
      dayOfEra == yearOfEra * 365 + yearOfEra \div 4 - yearOfEra \div 100 + dayOfYear
  IN  era * 146097 + dayOfEra - 719468

-------------------------------------------------------------------------------
(* A timestamp *)

\* Z is the offset of no hours and no minutes.
zone_in_range(zone) == zone.hours <= 23 /\ zone.minutes <= 59

\* parse_offset, in seconds to subtract from the local time
parse_offset(zone) == zone.sign * (zone.hours * 3600 + zone.minutes * 60)

\* The number that the first n digits make, those that are missing taken for zeros.
Leading(digits, n) ==
  LET number[i \in 0..n] ==
        IF i = 0 THEN 0
        ELSE number[i - 1] * 10 + (IF i <= Len(digits) THEN digits[i] ELSE 0)
  IN  number[n]

parse_fraction(digits) == Leading(digits, NanoDigits)

accepted(t) ==
  /\ zone_in_range(t.zone)
  /\ t.month \in 1..12
  /\ t.day >= 1 /\ t.day <= days_in_month(t.year, t.month)
  /\ t.hour <= 23 /\ t.minute <= 59
  /\ t.second <= 59                     \* a leap second is refused

\* Of an accepted timestamp.
parse_rfc3339(t) ==
  [seconds |-> days_from_civil(t.year, t.month, t.day) * SecondsPerDay
               + t.hour * 3600 + t.minute * 60 + t.second - parse_offset(t.zone),
   nanos |-> parse_fraction(t.fraction)]

unix_nanos(t) ==
  LET instant == parse_rfc3339(t) IN instant.seconds * NanosPerSecond + instant.nanos

-------------------------------------------------------------------------------
(* SystemTime, a distance from UNIX_EPOCH *)

Magnitude(seconds, nanos) ==
  IF nanos = 0
  THEN [before |-> TRUE, seconds |-> -seconds, nanos |-> 0]
  ELSE [before |-> TRUE, seconds |-> -seconds - 1, nanos |-> NanosPerSecond - nanos]

unix_instant_to_system_time(seconds, nanos) ==
  IF seconds >= 0
  THEN [before |-> FALSE, seconds |-> seconds, nanos |-> nanos]
  ELSE Magnitude(seconds, nanos)

\* checked_add and checked_sub
representable(time) == time.seconds <= PlatformSeconds

-------------------------------------------------------------------------------
CalendarInit == year = 1970 /\ month = 1 /\ firstDay = 0

NextMonth ==
  /\ month < 12 \/ year < LastYear
  /\ firstDay >= 0
  /\ year' = IF month < 12 THEN year ELSE year + 1
  /\ month' = IF month < 12 THEN month + 1 ELSE 1
  /\ firstDay' = firstDay + days_in_month(year, month)

PreviousMonth ==
  /\ month > 1 \/ year > FirstYear
  /\ firstDay <= 0
  /\ year' = IF month > 1 THEN year ELSE year - 1
  /\ month' = IF month > 1 THEN month - 1 ELSE 12
  /\ firstDay' = firstDay - days_in_month(year', month')

CalendarNext == NextMonth \/ PreviousMonth

CalendarSpec == CalendarInit /\ [][CalendarNext]_calendar

-------------------------------------------------------------------------------
(* Properties *)

\* Every day of every year the parser accepts is the number of days from the epoch
\* that counting them one by one finds: leap years, centuries, eras and the two
\* months that belong to the year before included.
DaysAreCounted ==
  \A d \in 1..days_in_month(year, month) :
    days_from_civil(year, month, d) = firstDay + d - 1

\* The minute of the day in UTC, which may be one of the day before or the day after.
UtcMinute(t) ==
  t.hour * 60 + t.minute - t.zone.sign * (t.zone.hours * 60 + t.zone.minutes)

\* The seconds since the epoch at the counted day that minute falls in.
CountedSeconds(t) ==
  (firstDay + t.day - 1 + UtcMinute(t) \div 1440) * SecondsPerDay
  + (UtcMinute(t) % 1440) * 60 + t.second

\* The digits as a number, cut to the precision that is kept.
KeptNanos(digits) ==
  (Leading(digits, Len(digits)) * NanosPerSecond) \div 10 ^ Len(digits)

SignedNanos(time) ==
  (IF time.before THEN -1 ELSE 1) * (time.seconds * NanosPerSecond + time.nanos)

\* An accepted timestamp names the second of the counted day it falls in once its
\* offset is taken off, into whichever day, month or year that leads, and the
\* fraction its digits say, cut off.
NamesItsInstant(t) ==
  accepted(t) => parse_rfc3339(t) = [seconds |-> CountedSeconds(t), nanos |-> KeptNanos(t.fraction)]

\* The SystemTime is that very instant, on either side of 1970, and its remainder is
\* less than a second, so that Duration::new cannot carry.
SystemTimeIsThatInstant(t) ==
  accepted(t) =>
    LET time == unix_instant_to_system_time(parse_rfc3339(t).seconds, parse_rfc3339(t).nanos)
    IN  /\ time.nanos \in 0..(NanosPerSecond - 1) /\ time.seconds >= 0
        /\ representable(time) => SignedNanos(time) = unix_nanos(t)

Stamp(text) ==
  [year |-> year, month |-> month, day |-> text.day, hour |-> text.hour,
   minute |-> text.minute, second |-> text.second, zone |-> text.zone,
   fraction |-> text.fraction]

InstantsAreExact ==
  \A text \in Texts :
    /\ year \in ComparedYears => NamesItsInstant(Stamp(text))
    /\ firstDay \in ComparedDays => SystemTimeIsThatInstant(Stamp(text))

=============================================================================
