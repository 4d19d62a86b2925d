------------------------------ MODULE Schedule ------------------------------
(***************************************************************************)
(* Cron schedules (core/objective/schedule.rs), and which slot a tick of the *)
(* scheduler finds due (objective/scheduler.rs).                            *)
(*                                                                         *)
(* An instant is a number of seconds.  A zone maps instants to their offset  *)
(* from UTC, so that local times may be skipped or come twice.  The length   *)
(* of days, hours and minutes and the calendar are parameters.              *)
(*                                                                         *)
(* A field of an expression is the sequence of its parts, which commas        *)
(* separate: [range, step], where the range is a sequence of none ("*", "?"), *)
(* one or two values, and the step is None without a "/".  A value is        *)
(* <<"number", n>> or <<"name", text>>.                                     *)
(***************************************************************************)
EXTENDS Integers, Sequences, FiniteSetsExt

CONSTANTS
    HoursPerDay, MinutesPerHour, SecondsPerMinute,
    Day,          \* the days of the calendar, numbered from 0
    Month, DayOfMonth, Weekday,    \* of each day
    MaxDayOfMonth, MaxMonth, MaxWeekday,
    WEEKDAY_NAMES, MONTH_NAMES,    \* from names to values
    SEARCH_HORIZON_DAYS,
    None

(***************************************************************************)
(* Parsing.                                                                *)
(***************************************************************************)

(* parse_value *)
ParseValue(raw, names) ==
    CASE raw[1] = "number" -> raw[2]
      [] raw[1] = "name" /\ raw[2] \in DOMAIN names -> names[raw[2]]
      [] OTHER -> None

(* The first and last value of a part; with a step, one value is a start.    *)
FirstOf(part, min, names) ==
    IF part.range = << >> THEN min ELSE ParseValue(part.range[1], names)
LastOf(part, max, names) ==
    CASE part.range = << >> -> max
      [] Len(part.range) = 2 -> ParseValue(part.range[2], names)
      [] part.step # None -> max
      [] OTHER -> ParseValue(part.range[1], names)

PartIsValid(part, min, max, names) ==
    LET first == FirstOf(part, min, names)
        last == LastOf(part, max, names)
    IN  /\ part.step # 0
        /\ first # None /\ last # None
        /\ min <= first /\ first <= last /\ last <= max

PartValues(part, min, max, names) ==
    LET first == FirstOf(part, min, names)
        step == IF part.step = None THEN 1 ELSE part.step
    IN  {value \in first..LastOf(part, max, names) : (value - first) % step = 0}

(* parse_field: None is an error.  Only a bare "*" or "?" leaves a field      *)
(* unrestricted; "*/1" restricts it to everything.                          *)
ParseField(parts, min, max, names) ==
    IF \E i \in DOMAIN parts : ~PartIsValid(parts[i], min, max, names) THEN None
    ELSE [allowed |-> UNION {PartValues(parts[i], min, max, names) : i \in DOMAIN parts},
          restricted |-> parts # <<[range |-> << >>, step |-> None]>>]

(* Sunday is 0 and 7.                                                      *)
WithSunday(field) ==
    IF field = None THEN None
    ELSE [field EXCEPT !.allowed =
            IF MaxWeekday + 1 \in @ THEN (@ \cup {0}) \ {MaxWeekday + 1} ELSE @]

(* expand_alias *)
Any == <<[range |-> << >>, step |-> None]>>
Only(n) == <<[range |-> <<<<"number", n>>>>, step |-> None]>>
ExpandAlias(expression) ==
    CASE expression = "@hourly" -> <<Only(0), Any, Any, Any, Any>>
      [] expression \in {"@daily", "@midnight"} -> <<Only(0), Only(0), Any, Any, Any>>
      [] expression = "@weekly" -> <<Only(0), Only(0), Any, Any, Only(0)>>
      [] expression = "@monthly" -> <<Only(0), Only(0), Only(1), Any, Any>>

(* ObjectiveSchedule::parse, of the fields of an expression.                *)
ParseSchedule(fields) ==
    IF Len(fields) # 5 THEN None
    ELSE LET parsed ==
               [days_of_week  |-> WithSunday(ParseField(fields[5], 0, MaxWeekday + 1, WEEKDAY_NAMES)),
                minutes       |-> ParseField(fields[1], 0, MinutesPerHour - 1, << >>),
                hours         |-> ParseField(fields[2], 0, HoursPerDay - 1, << >>),
                days_of_month |-> ParseField(fields[3], 1, MaxDayOfMonth, << >>),
                months        |-> ParseField(fields[4], 1, MaxMonth, MONTH_NAMES)]
         IN  IF \E f \in DOMAIN parsed : parsed[f] = None THEN None ELSE parsed

(***************************************************************************)
(* Slots.                                                                  *)
(***************************************************************************)

DayLength == HoursPerDay * MinutesPerHour * SecondsPerMinute
LocalTime(date, hour, minute) ==
    ((date * HoursPerDay + hour) * MinutesPerHour + minute) * SecondsPerMinute

(* from_local_datetime: a local time that comes twice is its first, one that *)
(* is skipped is none.                                                     *)
FromLocal(zone, local) ==
    LET instants == {t \in DOMAIN zone : t + zone[t] = local}
    IN  IF instants = {} THEN None ELSE Min(instants)

(* day_matches: either day field suffices when both are restricted.          *)
DayMatches(schedule, date) ==
    LET dom == DayOfMonth[date] \in schedule.days_of_month.allowed
        dow == Weekday[date] \in schedule.days_of_week.allowed
    IN  /\ Month[date] \in schedule.months.allowed
        /\ CASE schedule.days_of_month.restricted /\ schedule.days_of_week.restricted -> dom \/ dow
             [] schedule.days_of_month.restricted /\ ~schedule.days_of_week.restricted -> dom
             [] ~schedule.days_of_month.restricted /\ schedule.days_of_week.restricted -> dow
             [] OTHER -> TRUE

(* The local times of the schedule on the days from "start" to the horizon.  *)
LocalSlots(schedule, start) ==
    {LocalTime(slot[1], slot[2], slot[3]) :
        slot \in {date \in Day : /\ start <= date /\ date < start + SEARCH_HORIZON_DAYS
                                 /\ DayMatches(schedule, date)}
                 \X schedule.hours.allowed \X schedule.minutes.allowed}

(* next_after: the days, hours and minutes are tried in their local order.   *)
NextAfter(schedule, zone, after) ==
    LET start == (after + zone[after]) \div DayLength
        later == {local \in LocalSlots(schedule, start) :
                    LET candidate == FromLocal(zone, local)
                    IN  candidate # None /\ candidate > after}
    IN  IF later = {} THEN None ELSE FromLocal(zone, Min(later))

(* latest_at_or_before: from slot to slot up to now.                        *)
LatestAtOrBefore(schedule, zone, now, notBefore) ==
    LET latest[cursor \in notBefore - 1..now] ==
            LET next == NextAfter(schedule, zone, cursor)
            IN  CASE next = None -> None
                  [] next # None /\ next > now -> None
                  [] OTHER -> IF latest[next] = None THEN next ELSE latest[next]
    IN  latest[notBefore - 1]

(* due_slot: the slot that a tick at "now" runs, after one at "since".       *)
DueSlot(enabled, schedule, zone, since, now) ==
    IF ~enabled THEN None
    ELSE LET next == NextAfter(schedule, zone, since)
         IN  CASE next = None -> None
               [] next # None /\ next > now -> None
               [] OTHER -> LatestAtOrBefore(schedule, zone, now, next)
=============================================================================
