-------------------------------- MODULE Temporal --------------------------------
(***************************************************************************)
(* Time for scripts (temporal.cpp, bound by lua_temporal_core.cpp): points *)
(* of time as signed nanoseconds, 64 bits wide, and what is computed with  *)
(* them.  Each call is a step that records what was given and the result,  *)
(* and the properties compare results with a reference that has no width.  *)
(*                                                                         *)
(* The scale is smaller, the shape is not: a tick stands for a nanosecond, *)
(* numbers go from -MaxInt - 1 to MaxInt, which is not a whole number of   *)
(* days, seconds or parts, the calendar is the one of the date library     *)
(* around its epoch, and the time of a day is counted in ticks instead of  *)
(* hours, minutes and seconds.                                             *)
(***************************************************************************)
EXTENDS Scenario, Integers, Sequences, FiniteSets

CONSTANTS
    MaxInt,             \* std::numeric_limits<std::int64_t>::max()
    MaxCInt,           \* std::numeric_limits<int>::max(), of std::int32_t too
    PerMicro, PerMilli, PerSecond, SecondsPerDay,
    EpochYear,          \* of day 0, a year after a leap year plus one, like 1970
    LastYear,           \* date::year::max(); the first is as far on the other side
    MaxField,           \* kMaxSafeCalendarPeriodField
    FractionDigits,     \* 9
    Operands,           \* numbers given to calls: small, and close to the limits
    Days, Shifts,       \* days whose dates are computed with, and calendar periods
    Offsets             \* of zones, in seconds

MinInt == -MaxInt - 1
PerDay == PerSecond * SecondsPerDay

\* What sol2 makes of a number of Lua's where the binding takes an int: a cast,
\* which keeps the lower bits.
IntWidth == 2 * (MaxCInt + 1)
AsInt(n) == ((n + MaxCInt + 1) % IntWidth) - MaxCInt - 1

\* What a call that throws gives: no number.
Thrown == 3 * MaxInt

ASSUME TemporalBounds ==
    /\ {MaxInt, PerMicro, PerMilli, PerSecond, SecondsPerDay, FractionDigits} \subseteq Nat \ {0}
    /\ PerDay < MaxInt
    /\ MaxCInt \in LastYear + 1..MaxInt - 1
    /\ PerSecond < MaxCInt /\ MaxInt < MaxCInt * PerDay /\ (MaxCInt + 1) % 256 = 0
    /\ 12 * MaxField + MaxField < MaxInt
    /\ EpochYear % 4 = 2
    /\ Operands \subseteq MinInt..MaxInt

VARIABLE computed       \* the last call: what it was, what it was given, its result

temporalVars == <<computed>>

TemporalInit == computed = [call |-> "none"]

----------------------------------------------------------------------------
(* Arithmetic of the language, and of checked_add and its like.            *)

\* / and %, which truncate.
Quot(n, d) ==
    LET whole == (IF n < 0 THEN -n ELSE n) \div (IF d < 0 THEN -d ELSE d)
    IN  IF (n < 0) = (d < 0) THEN whole ELSE -whole
Rem(n, d) == n - d * Quot(n, d)

Added(a, b) ==
    IF \/ Thrown \in {a, b}
       \/ b > 0 /\ a > MaxInt - b
       \/ b < 0 /\ a < MinInt - b
    THEN Thrown ELSE a + b

Taken(a, b) ==
    IF \/ Thrown \in {a, b}
       \/ b < 0 /\ a > MaxInt + b
       \/ b > 0 /\ a < MinInt + b
    THEN Thrown ELSE a - b

Times(value, factor) ==
    IF \/ Thrown \in {value, factor}
       \/ value > 0 /\ factor > 0 /\ value > Quot(MaxInt, factor)
       \/ value > 0 /\ factor < 0 /\ factor < Quot(MinInt, value)
       \/ value < 0 /\ factor > 0 /\ value < Quot(MinInt, factor)
       \/ value < 0 /\ factor < 0 /\ factor < Quot(MaxInt, value)
    THEN Thrown ELSE value * factor

\* Mutant: the part that the least number has below its last whole unit is
\* compared as it is, although days and seconds are counted downwards from it.
JoinedFromAbove(high, low, unit) ==
    LET most == Quot(MaxInt, unit)
        least == Quot(MinInt, unit) - (IF Rem(MinInt, unit) < 0 THEN 1 ELSE 0)
    IN  IF \/ high > most
           \/ high = most /\ low > Rem(MaxInt, unit)
           \/ high < least
           \/ high = least /\ low < Rem(MinInt, unit)
        THEN Thrown
        ELSE Added(Times(high, unit), low)

\* nanos_from_day_time and nanos_from_unix_parts: so many whole units and a part
\* of one, where the units alone may be below the least number.
Joined(high, low, unit) ==
    LET below == Rem(MinInt, unit) < 0
        most == Quot(MaxInt, unit)
        least == Quot(MinInt, unit) - (IF below THEN 1 ELSE 0)
        leastPart == Rem(MinInt, unit) + (IF below THEN unit ELSE 0)
    IN  IF \/ high > most
           \/ high = most /\ low > Rem(MaxInt, unit)
           \/ high < least
           \/ high = least /\ low < leastPart
        THEN Thrown
        ELSE IF high = least THEN Added(MinInt, Taken(low, leastPart))
        ELSE Added(Times(high, unit), low)

----------------------------------------------------------------------------
(* The calendar of the date library.                                       *)

IsLeap(year) == year % 4 = 0 /\ (year % 100 # 0 \/ year % 400 = 0)

LastDay(year, month) ==
    IF month = 2 THEN IF IsLeap(year) THEN 29 ELSE 28
    ELSE IF month \in {4, 6, 9, 11} THEN 30 ELSE 31

\* Days before a month of a year that is not leap.
DaysBefore == <<0, 31, 59, 90, 120, 151, 181, 212, 243, 273, 304, 334>>

\* Days before January of a year, from year 0.
ToYear(year) ==
    365 * year + (year + 3) \div 4 - (year + 99) \div 100 + (year + 399) \div 400

\* local_days of a date.
DayNumber(year, month, day) ==
    ToYear(year) - ToYear(EpochYear) + DaysBefore[month]
        + (IF month > 2 /\ IsLeap(year) THEN 1 ELSE 0) + day - 1

\* year_month_day of a day.
DateOf(number) ==
    LET guess == EpochYear + number \div 366
        year == CHOOSE y \in guess - 1..guess + 3 + (number \div 365) \div 100 :
                    DayNumber(y, 1, 1) <= number /\ number < DayNumber(y + 1, 1, 1)
        month == CHOOSE m \in 1..12 :
                    /\ DayNumber(year, m, 1) <= number
                    /\ number < DayNumber(year, m, 1) + LastDay(year, m)
    IN  [year |-> year, month |-> month, day |-> number - DayNumber(year, month, 1) + 1]

FirstYear == -LastYear - 1

----------------------------------------------------------------------------
(* Fields, and back.                                                       *)

\* date::month and date::day keep one byte of what they are given.
Byte(n) == n % 256

\* validate_date_fields, which asks the date whether it is one, and
\* validate_time_fields.
ValidDate(year, month, day) ==
    /\ year \in FirstYear..LastYear
    /\ Byte(month) \in 1..12
    /\ Byte(day) \in 1..LastDay(year, Byte(month))
ValidTime(time) == time \in 0..PerDay - 1

\* PlainDateTime::from_fields: local_from_fields of nanos_from_fields, of ints.
FromFields(year, month, day, time) ==
    IF ValidDate(year, month, day) /\ ValidTime(time)
    THEN Joined(DayNumber(year, Byte(month), Byte(day)), time, PerDay)
    ELSE Thrown

\* Instant::parse: checked_sys_from_civil_with_offset of what the text says.
ParseInstant(year, month, day, time, offset) ==
    LET adjusted == Taken(time, Times(offset, PerSecond))
        rest == Rem(adjusted, PerDay)
        delta == Quot(adjusted, PerDay) - (IF rest < 0 THEN 1 ELSE 0)
    IN  IF ValidDate(year, month, day) /\ ValidTime(time)
        THEN Joined(Added(DayNumber(year, Byte(month), Byte(day)), delta),
                    IF rest < 0 THEN Added(rest, PerDay) ELSE rest, PerDay)
        ELSE Thrown

\* The product of a day and the length of one, which in the first, partial day
\* does not fit: builds keep the lower bits.
LowerBits(n) == ((n - MinInt) % (2 * (MaxInt + 1))) + MinInt

\* date::floor to days, and what the value has beyond it.
FloorDay(value) == Quot(value, PerDay) - (IF Rem(value, PerDay) < 0 THEN 1 ELSE 0)
TimeOf(value) == LowerBits(value - LowerBits(FloorDay(value) * PerDay))

\* fields_from_local.
FieldsOf(value) ==
    LET date == DateOf(FloorDay(value))
    IN  <<date.year, date.month, date.day, TimeOf(value)>>

\* Instant::from_unix, epoch_seconds and nanosecond.
FromUnix(seconds, part) ==
    IF AsInt(part) \in 0..PerSecond - 1 THEN Joined(seconds, AsInt(part), PerSecond) ELSE Thrown
EpochSeconds(instant) == Quot(instant, PerSecond) - (IF Rem(instant, PerSecond) < 0 THEN 1 ELSE 0)
NanosecondOf(instant) == LowerBits(instant - LowerBits(EpochSeconds(instant) * PerSecond))

\* Duration::from_parts.
FromParts(seconds, milliseconds, microseconds, nanoseconds) ==
    Added(Added(Added(Times(seconds, PerSecond), Times(milliseconds, PerMilli)),
                Times(microseconds, PerMicro)),
          nanoseconds)

----------------------------------------------------------------------------
(* Calendar arithmetic.                                                    *)

\* PlainDateTime::add_days, of an int.
AddDays(value, days) == Joined(Added(FloorDay(value), AsInt(days)), TimeOf(value), PerDay)

\* add_calendar_months: the date so many months on, or on the last day of that
\* month when it is shorter.
MonthsOn(date, years, months) ==
    LET index == Added(Added(Times(date.year, 12), date.month - 1), Added(Times(years, 12), months))
        year == Quot(index, 12) - (IF Rem(index, 12) < 0 THEN 1 ELSE 0)
        month == Taken(index, Times(year, 12)) + 1
    IN  IF index = Thrown \/ year \notin FirstYear..LastYear THEN Thrown
        ELSE LET longest == LastDay(year, month)
             IN  DayNumber(year, month, IF date.day > longest THEN longest ELSE date.day)

\* require_consistent_calendar_signs.
SignsAgree(fields) ==
    ~ \E i, j \in DOMAIN fields : fields[i] > 0 /\ fields[j] < 0

\* add-calendar: the fields are whole numbers that a double holds exactly.
AddCalendar(value, years, months, weeks, days) ==
    LET on == MonthsOn(DateOf(FloorDay(value)), years, months)
    IN  IF /\ {years, months, weeks, days} \subseteq -MaxField..MaxField
           /\ SignsAgree(<<years, months, weeks, days>>)
           /\ on # Thrown
        THEN Joined(Added(on, Added(Times(weeks, 7), days)), TimeOf(value), PerDay)
        ELSE Thrown

----------------------------------------------------------------------------
(* Zones.  A zone of the date library has an offset before the second `at` *)
(* and another one after it.                                               *)

Zones == [at : {-1, 2}, before : Offsets, after : Offsets]

\* What get_info says of a local time.
LocalInfo(zone, local) ==
    LET before == (zone.at + zone.before) * PerSecond
        after == (zone.at + zone.after) * PerSecond
    IN  IF local >= before /\ local < after THEN "nonexistent"
        ELSE IF local >= after /\ local < before THEN "ambiguous"
        ELSE "unique"

OffsetAt(zone, instant) == IF instant < zone.at * PerSecond THEN zone.before ELSE zone.after

\* checked_sys_from_local_with_offset.
LessOffset(local, offset) == Taken(local, Times(offset, PerSecond))

\* resolve_local.
Resolve(zone, local, choice) ==
    LET info == LocalInfo(zone, local)
        early == local < (zone.at + zone.before) * PerSecond
    IN  IF info = "unique" THEN LessOffset(local, IF early THEN zone.before ELSE zone.after)
        ELSE IF choice = "reject" THEN Thrown
        ELSE IF info = "ambiguous"
             THEN LessOffset(local, IF choice = "earliest" THEN zone.before ELSE zone.after)
        ELSE IF choice = "earliest" THEN Times(zone.at, PerSecond)
        ELSE Taken(Times(zone.at, PerSecond), 1)

\* ZonedDateTime::fields, by the local time that it has fields of.
LocalOf(zone, instant) == Added(instant, Times(OffsetAt(zone, instant), PerSecond))

----------------------------------------------------------------------------
(* Fractions of a second in texts.                                         *)

\* parse_fraction: the digits, followed by zeros.
ParseFraction(digits) ==
    IF Len(digits) > FractionDigits THEN Thrown
    ELSE LET padded == [i \in 1..FractionDigits |-> IF i <= Len(digits) THEN digits[i] ELSE 0]
             upTo[i \in 0..FractionDigits] ==
                 IF i = 0 THEN 0 ELSE 10 * upTo[i - 1] + padded[i]
         IN  upTo[FractionDigits]

\* format_fraction: all digits, without the zeros that they end with.
FormatFraction(part) ==
    LET all == [i \in 1..FractionDigits |-> (part \div 10 ^ (FractionDigits - i)) % 10]
        kept == {i \in 1..FractionDigits : \A j \in i + 1..FractionDigits : all[j] = 0}
    IN  IF part = 0 THEN <<>>
        ELSE SubSeq(all, 1, CHOOSE i \in kept : \A j \in kept : i <= j)

----------------------------------------------------------------------------
(* Calls.                                                                  *)

Computes(call, given, result) ==
    computed' = [call |-> call, given |-> given, result |-> result]

Measure ==
    \E s, ms, us, ns \in Operands :
        Computes("from-parts", <<s, ms, us, ns>>, FromParts(s, ms, us, ns))

AddTo ==
    \E value, other \in Operands :
        \/ Computes("add", <<value, other>>, Added(value, other))
        \/ Computes("since", <<value, other>>, Taken(value, other))

CountUnix ==
    \E seconds \in UNION {n - 1..n + 1 : n \in Operands \cup {Quot(m, PerSecond) : m \in Operands}},
       part \in -1..PerSecond \cup {IntWidth, -IntWidth} :
        /\ seconds \in MinInt..MaxInt
        /\ Computes("from-unix", <<seconds, part>>, FromUnix(seconds, part))

\* The years that have instants, and one before and after them; months and days.
Years == DateOf(FloorDay(MinInt)).year - 1..DateOf(FloorDay(MaxInt)).year + 1
MonthsAndDays == (0..13 \cup {99}) \X {0, 1, 2, 5, 12, 19, 28, 29, 30, 31, 32, 99}

\* Fields of scripts: also numbers that a byte or an int does not hold.
FieldYears == Years \cup {FirstYear - 1, FirstYear, LastYear, LastYear + 1, EpochYear + IntWidth}
FieldMonthsAndDays == MonthsAndDays \cup ({-1, 1, 257} \X {-1, 1, 257})

MakeFields ==
    \E date \in FieldMonthsAndDays, year \in FieldYears,
       time \in {-1, 0, PerDay - 1, PerDay, Rem(MaxInt, PerDay), Rem(MaxInt, PerDay) + 1,
                 Rem(MinInt, PerDay) + PerDay - 1, Rem(MinInt, PerDay) + PerDay, IntWidth} :
        Computes("from-fields", <<year, date[1], date[2], time>>,
                 FromFields(AsInt(year), AsInt(date[1]), AsInt(date[2]), AsInt(time)))

\* The text has two digits for a month and for a day.
Parse ==
    \E year \in Years, date \in MonthsAndDays, time \in {0, 1, PerDay - 1}, offset \in Offsets :
        Computes("parse", <<year, date[1], date[2], time, offset>>,
                 ParseInstant(year, date[1], date[2], time, offset))

\* Local times: at the limits, and early or late on some days.
LocalTimes ==
    {MinInt, MinInt + PerDay - 1, MaxInt - PerDay + 1, MaxInt}
        \cup {d * PerDay + time : d \in Days, time \in {0, PerDay - 1}}

MoveDays ==
    \E value \in LocalTimes, days \in Operands \cup {IntWidth + 1, 1 - IntWidth} :
        Computes("add-days", <<value, days>>, AddDays(value, days))

MoveCalendar ==
    \E value \in LocalTimes, y, m, w, d \in Shifts :
        Computes("add-calendar", <<value, y, m, w, d>>, AddCalendar(value, y, m, w, d))

Locate ==
    \E zone \in Zones, choice \in {"reject", "earliest", "latest"},
       local \in (-5 * PerSecond..6 * PerSecond) \cup {MinInt, MinInt + 1, MaxInt - 1, MaxInt} :
        Computes("from-plain", <<zone, local, choice>>, Resolve(zone, local, choice))

ReadFraction ==
    \E n \in 0..FractionDigits + 1 :
        \E digits \in [1..n -> 0..9] :
            Computes("fraction", <<digits>>, ParseFraction(digits))

TemporalNext ==
    /\ Spend("compute")
    /\ \/ MakeFields \/ Parse \/ Measure \/ AddTo \/ CountUnix
       \/ MoveDays \/ MoveCalendar \/ Locate \/ ReadFraction

----------------------------------------------------------------------------
(* The reference: whole numbers without a width.                           *)

\* What a call must give for a number that may be out of range.
Exactly(n) == IF n \in MinInt..MaxInt THEN n ELSE Thrown

Is(call) == computed.call = call

\* A sum, a difference and a duration of parts are exact or thrown; parts of one
\* sign are refused only for what they come to.
DurationsExact ==
    LET given == computed.given
    IN  /\ Is("add") => computed.result = Exactly(given[1] + given[2])
        /\ Is("since") => computed.result = Exactly(given[1] - given[2])
        /\ Is("from-parts") =>
               LET sum == Exactly(given[1] * PerSecond + given[2] * PerMilli
                                      + given[3] * PerMicro + given[4])
               IN  /\ computed.result \in {sum, Thrown}
                   /\ SignsAgree(given) => computed.result = sum

\* An int holds it.
HoldsInt(n) == n \in -MaxCInt - 1..MaxCInt

\* Every instant is seconds and a part of one, and they come back.
UnixReturns ==
    Is("from-unix") /\ HoldsInt(computed.given[2]) =>
        LET seconds == computed.given[1]
            part == computed.given[2]
            n == computed.result
        IN  /\ n = IF part \in 0..PerSecond - 1 THEN Exactly(seconds * PerSecond + part) ELSE Thrown
            /\ n # Thrown => <<EpochSeconds(n), NanosecondOf(n)>> = <<seconds, part>>

\* There is such a date and such a time, and an instant for them.
Exists(year, month, day, time) ==
    /\ year \in FirstYear..LastYear /\ month \in 1..12
    /\ day \in 1..LastDay(year, month) /\ time \in 0..PerDay - 1
    /\ DayNumber(year, month, day) * PerDay + time \in MinInt..MaxInt

\* Fields come back as they were, whatever the sign and up to both limits, and are
\* refused only when there is no such date or no such time: those whose month and
\* day a byte holds and whose year and time an int does (InvalidIsLoud has the rest).
FieldsReturn ==
    LET given == computed.given
    IN  Is("from-fields") /\ HoldsInt(given[1]) /\ {given[2], given[3]} \subseteq 0..255
                          /\ HoldsInt(given[4]) =>
            IF Exists(given[1], given[2], given[3], given[4])
            THEN FieldsOf(computed.result) = given
            ELSE computed.result = Thrown

\* Fields that are none are refused, and so is a number of days or nanoseconds that
\* the call has no room for, as docs/dev/features/temporal.md:24 says of invalid
\* fields and of overflow.  Not so: date::month and date::day keep a byte of what
\* they are given, and sol2's cast to int (lua_temporal_core.cpp:211, 260, 268) the
\* lower bits, so that month 257 is January.
InvalidIsLoud ==
    LET given == computed.given
    IN  /\ Is("from-fields") /\ ~ Exists(given[1], given[2], given[3], given[4]) =>
               computed.result = Thrown
        /\ Is("from-unix") /\ ~ HoldsInt(given[2]) => computed.result = Thrown
        /\ Is("add-days") /\ ~ HoldsInt(given[2]) => computed.result = Thrown

\* An instant is refused for where it is, and not for its local time.
InstantsExact ==
    Is("parse") =>
        LET year == computed.given[1]
            month == computed.given[2]
            day == computed.given[3]
        IN  computed.result =
                IF month \in 1..12 /\ day \in 1..LastDay(year, month)
                THEN Exactly(DayNumber(year, month, day) * PerDay + computed.given[4]
                                 - computed.given[5] * PerSecond)
                ELSE Thrown

\* Days and calendar periods keep the time of the day; months keep the day of
\* the month or take the last; and nothing is refused that has a result.  Days are
\* those that an int holds (InvalidIsLoud has the rest).
CalendarExact ==
    LET value == computed.given[1]
        time == value - FloorDay(value) * PerDay
        moved(day) == Exactly(day * PerDay + time)
    IN  /\ Is("add-days") /\ HoldsInt(computed.given[2]) =>
               computed.result = moved(FloorDay(value) + computed.given[2])
        /\ Is("add-calendar") =>
               LET date == DateOf(FloorDay(value))
                   index == date.year * 12 + date.month - 1 + computed.given[2] * 12
                                + computed.given[3]
                   year == index \div 12
                   month == (index % 12) + 1
                   kept == {d \in 1..date.day : d <= LastDay(year, month)}
                   day == CHOOSE d \in kept : \A other \in kept : other <= d
               IN  computed.result =
                       IF /\ \A i \in 2..5 : computed.given[i] \in -MaxField..MaxField
                          /\ SignsAgree(Tail(computed.given))
                          /\ year \in FirstYear..LastYear
                       THEN moved(DayNumber(year, month, day) + 7 * computed.given[4]
                                      + computed.given[5])
                       ELSE Thrown

\* A local time that its zone has comes back from the instant it stands for, by
\* either choice, and the earliest is not after the latest; one that the zone
\* leaves out gets the two ends of what is left out.
ZonesReturn ==
    Is("from-plain") =>
        LET zone == computed.given[1]
            local == computed.given[2]
            choice == computed.given[3]
            n == computed.result
            stands == {i \in {local - offset * PerSecond : offset \in {zone.before, zone.after}} :
                          OffsetAt(zone, i) = (local - i) \div PerSecond}
        IN  /\ n # Thrown /\ stands # {} => n \in stands /\ LocalOf(zone, n) = local
            /\ n # Thrown /\ stands = {} =>
                   n = zone.at * PerSecond - (IF choice = "latest" THEN 1 ELSE 0)
            /\ n # Thrown /\ choice = "earliest" => \A i \in stands : n <= i
            /\ n # Thrown /\ choice = "latest" => \A i \in stands : i <= n
            /\ n = Thrown <=>
                   \/ choice = "reject" /\ Cardinality(stands) # 1
                   \/ Cardinality(stands) = 1 /\ \E i \in stands : Exactly(i) = Thrown

\* A fraction of a second comes back without the zeros that it ends with.
FractionsReturn ==
    Is("fraction") =>
        LET digits == computed.given[1]
            told == FormatFraction(computed.result)
        IN  IF Len(digits) > FractionDigits THEN computed.result = Thrown
            ELSE /\ Len(told) <= Len(digits) /\ ParseFraction(told) = computed.result
                 /\ \A i \in DOMAIN digits : digits[i] = IF i <= Len(told) THEN told[i] ELSE 0
                 /\ told # <<>> => told[Len(told)] # 0

\* Time for scripts is exact at both limits, or refused, and what was put in comes
\* back out (temporal.cpp).
TemporalAgrees ==
    /\ DurationsExact /\ UnixReturns /\ FieldsReturn /\ InstantsExact
    /\ CalendarExact /\ ZonesReturn /\ FractionsReturn
=============================================================================
