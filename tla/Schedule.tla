------------------------------ MODULE Schedule ------------------------------
(***************************************************************************)
(* The schedule compiler, src-tauri/src/schedule.rs: a schedule that the   *)
(* user chose or wrote as a cron expression becomes ONE trigger of         *)
(* schtasks, or is refused before schtasks is called.                      *)
(*                                                                         *)
(* A field of a cron expression is a token: "*", a number, a step          *)
(* "from/by" ("*" as from is Star), or a list of ranges.  Names of days    *)
(* and months are their numbers (parse_named_value looks them up), times   *)
(* of day are minutes since midnight.  Summaries are left out.             *)
(***************************************************************************)
EXTENDS Integers, FiniteSets

CONSTANTS
    Configs,    \* the schedules given to the compiler
    LastDate    \* the last day of the calendar the triggers are compared on

----------------------------------------------------------------------------
(* Tokens of a cron expression.                                            *)

Star == -1
Any == [is |-> "any"]
Num(n) == [is |-> "num", n |-> n]
Every(from, by) == [is |-> "step", from |-> from, by |-> by]
List(ranges) == [is |-> "list", ranges |-> ranges]

\* What a field can be; split(',') leaves a list at least one part.
Token ==
    {Any} \union [is : {"num"}, n : Nat]
          \union [is : {"step"}, from : Nat \union {Star}, by : Nat]
          \union [is : {"list"}, ranges : (SUBSET (Nat \X Nat)) \ {{}}]

CronExpression == [minute : Token, hour : Token, dom : Token, month : Token, dow : Token]

LastDay == -1

\* Days and months are enumerations, every other number may be out of its limits.
ScheduleConfig ==
    [kind : {"daily"}, at : Int, every : Nat]
    \union [kind : {"weekly"}, at : Int, every : Nat, days : SUBSET (1 .. 7)]
    \union [kind : {"monthly"}, at : Int, day : Nat \union {LastDay}, months : SUBSET (1 .. 12)]
    \union [kind : {"interval"}, unit : {"MINUTE", "HOURLY"}, every : Nat, at : Int]
    \union [kind : {"event"}, sc : {"ONLOGON", "ONSTART"}, delay : Nat]
    \union [kind : {"cron"}, cron : CronExpression]

\* The calendar has a leap year, and no more than the four years MonthStart knows.
ASSUME ScheduleConstants == Configs \subseteq ScheduleConfig /\ LastDate \in 365 .. 1460

VARIABLES
    config,     \* the schedule of the call
    trigger     \* what compile_schedule returned: a trigger, Refused, or Pending

vars == <<config, trigger>>

----------------------------------------------------------------------------
(* Fields of a cron expression.                                            *)

\* parse_exact: a single number, neither list, range, step nor "*".
IsExact(f, lo, hi) == f.is = "num" /\ f.n \in lo .. hi

\* require_wildcards.
AllWild(fields) == \A f \in fields : f = Any

\* parse_named_set: numbers and ascending ranges.
IsSet(f, lo, hi) ==
    \/ IsExact(f, lo, hi)
    \/ /\ f.is = "list"
       /\ \A r \in f.ranges : r[1] \in lo .. hi /\ r[2] \in lo .. hi /\ r[1] <= r[2]

SetOf(f) == IF f.is = "num" THEN {f.n} ELSE UNION {r[1] .. r[2] : r \in f.ranges}

----------------------------------------------------------------------------
(* Triggers.  `every` is /MO, `at` is /ST, `days` is /D of WEEKLY (Monday   *)
(* is 1), `day` is /D of MONTHLY or LastDay, `months` is /M, {} for "*".    *)

Pending == [sc |-> "pending"]
Refused == [sc |-> "refused"]
MaxTriggerDelay == 9999 * 60 + 59

IsTime(t) == t \in 0 .. 1439

\* Mutant of MaximumDay: thirty days in every short month.
MaximumDayRounded(month) == IF month \in {2, 4, 6, 9, 11} THEN 30 ELSE 31

\* Month::maximum_day.
MaximumDay(month) == CASE month = 2 -> 29 [] month \in {4, 6, 9, 11} -> 30 [] OTHER -> 31

CompileDaily(at, every) ==
    IF IsTime(at) /\ every \in 1 .. 365 THEN [sc |-> "DAILY", every |-> every, at |-> at]
    ELSE Refused

CompileWeekly(at, every, days) ==
    IF IsTime(at) /\ every \in 1 .. 52 /\ days # {}
    THEN [sc |-> "WEEKLY", every |-> every, at |-> at, days |-> days]
    ELSE Refused

\* Every listed month must have the day; without a list Windows skips the shorter months.
CompileMonthly(at, day, months) ==
    IF /\ IsTime(at)
       /\ \/ day = LastDay
          \/ day \in 1 .. 31 /\ \A m \in months : day <= MaximumDay(m)
    THEN [sc |-> "MONTHLY", at |-> at, day |-> day, months |-> months]
    ELSE Refused

CompileInterval(unit, every, at) ==
    IF IsTime(at) /\ every \in 1 .. (IF unit = "MINUTE" THEN 1439 ELSE 23)
    THEN [sc |-> unit, every |-> every, at |-> at]
    ELSE Refused

\* compile_event_schedule: /DELAY mmmm:ss, left out for no delay.
CompileEvent(sc, delay) ==
    IF delay > MaxTriggerDelay THEN Refused
    ELSE [sc |-> sc, minutes |-> delay \div 60, seconds |-> delay % 60]

----------------------------------------------------------------------------
(* compile_cron: the five forms that one trigger can express.              *)

IsMinuteStep(e) ==
    /\ e.minute.is = "step" /\ e.minute.from = Star /\ e.minute.by \in 1 .. 59
    /\ AllWild({e.hour, e.dom, e.month, e.dow})

IsHourStep(e) ==
    /\ IsExact(e.minute, 0, 59)
    /\ e.hour.is = "step" /\ e.hour.from \in {Star} \union 0 .. 23 /\ e.hour.by \in 1 .. 23
    /\ AllWild({e.dom, e.month, e.dow})

IsTimeOfDay(e) == IsExact(e.minute, 0, 59) /\ IsExact(e.hour, 0, 23)

IsDaily(e) == IsTimeOfDay(e) /\ AllWild({e.dom, e.month, e.dow})

IsWeekly(e) ==
    /\ IsTimeOfDay(e)
    /\ AllWild({e.dom, e.month}) /\ e.dow # Any /\ IsSet(e.dow, 0, 7)

\* Mutant of IsMonthly: a weekday next to the day is ignored.
IsMonthlyAnyWeekday(e) ==
    /\ IsTimeOfDay(e)
    /\ IsExact(e.dom, 1, 31)
    /\ e.month = Any \/ IsSet(e.month, 1, 12)

IsMonthly(e) ==
    /\ IsTimeOfDay(e)
    /\ e.dow = Any /\ IsExact(e.dom, 1, 31)
    /\ e.month = Any \/ IsSet(e.month, 1, 12)

FirstHour(e) == IF e.hour.from = Star THEN 0 ELSE e.hour.from

\* parse_weekday_set: Sunday is 0 or 7.
Weekdays(f) == {IF n \in {0, 7} THEN 7 ELSE n : n \in SetOf(f)}

CompileCron(e) ==
    CASE IsMinuteStep(e) -> [sc |-> "MINUTE", every |-> e.minute.by, at |-> 0]
      [] IsHourStep(e) ->
            [sc |-> "HOURLY", every |-> e.hour.by, at |-> 60 * FirstHour(e) + e.minute.n]
      [] IsDaily(e) -> CompileDaily(60 * e.hour.n + e.minute.n, 1)
      [] IsWeekly(e) -> CompileWeekly(60 * e.hour.n + e.minute.n, 1, Weekdays(e.dow))
      [] IsMonthly(e) ->
            CompileMonthly(60 * e.hour.n + e.minute.n, e.dom.n,
                           IF e.month = Any THEN {} ELSE SetOf(e.month))
      [] OTHER -> Refused

CompileSchedule(c) ==
    CASE c.kind = "daily" -> CompileDaily(c.at, c.every)
      [] c.kind = "weekly" -> CompileWeekly(c.at, c.every, c.days)
      [] c.kind = "monthly" -> CompileMonthly(c.at, c.day, c.months)
      [] c.kind = "interval" -> CompileInterval(c.unit, c.every, c.at)
      [] c.kind = "event" -> CompileEvent(c.sc, c.delay)
      [] c.kind = "cron" -> CompileCron(c.cron)

----------------------------------------------------------------------------
(* One call of the compiler.                                               *)

Init == config \in Configs /\ trigger = Pending

Compile ==
    /\ trigger = Pending
    /\ trigger' = CompileSchedule(config)
    /\ UNCHANGED config

Next == Compile

Spec == Init /\ [][Next]_vars

----------------------------------------------------------------------------
(* The calendar: day 0 is Monday, 1 January of a leap year, and the task   *)
(* is created on it.                                                       *)

MonthOf(i) == (i % 12) + 1
LengthOf(i) ==
    CASE MonthOf(i) = 2 -> IF i \div 12 % 4 = 0 THEN 29 ELSE 28
      [] MonthOf(i) \in {4, 6, 9, 11} -> 30
      [] OTHER -> 31

MonthStart[i \in 0 .. 48] == IF i = 0 THEN 0 ELSE MonthStart[i - 1] + LengthOf(i - 1)

Calendar ==
    [d \in 0 .. LastDate |->
        LET i == CHOOSE j \in 0 .. 47 : MonthStart[j] <= d /\ d < MonthStart[j + 1]
        IN  [month |-> MonthOf(i), day |-> d - MonthStart[i] + 1,
             last |-> d + 1 = MonthStart[i + 1], weekday |-> (d % 7) + 1]]

\* What Windows does with a trigger: does it fire on day d at minute m?
FiresEvery(minutes, t, d, m) ==
    LET elapsed == 1440 * d + m - t.at IN elapsed >= 0 /\ elapsed % minutes = 0

Fires(t, d, m) ==
    CASE t.sc = "MINUTE" -> FiresEvery(t.every, t, d, m)
      [] t.sc = "HOURLY" -> FiresEvery(60 * t.every, t, d, m)
      [] t.sc = "DAILY" -> m = t.at /\ d % t.every = 0
      [] t.sc = "WEEKLY" ->
            m = t.at /\ Calendar[d].weekday \in t.days /\ (d \div 7) % t.every = 0
      [] t.sc = "MONTHLY" ->
            /\ m = t.at
            /\ t.months = {} \/ Calendar[d].month \in t.months
            /\ IF t.day = LastDay THEN Calendar[d].last ELSE Calendar[d].day = t.day
      [] OTHER -> FALSE

\* What the expression says, field by field, as crontab(5) defines it.
Holds(f, v, lo) ==
    CASE f.is = "any" -> TRUE
      [] f.is = "num" -> v = f.n
      [] f.is = "step" ->
            LET from == IF f.from = Star THEN lo ELSE f.from
            IN  v >= from /\ (v - from) % f.by = 0
      [] f.is = "list" -> \E r \in f.ranges : v \in r[1] .. r[2]

DowHolds(f, weekday) == Holds(f, weekday, 0) \/ (weekday = 7 /\ Holds(f, 0, 0))

CronSays(e, d, m) ==
    LET date == Calendar[d]
        onDay == Holds(e.dom, date.day, 1)
        onWeekday == DowHolds(e.dow, date.weekday)
    IN  /\ Holds(e.minute, m % 60, 0) /\ Holds(e.hour, m \div 60, 0)
        /\ Holds(e.month, date.month, 1)
        /\ IF e.dom # Any /\ e.dow # Any THEN onDay \/ onWeekday ELSE onDay /\ onWeekday

----------------------------------------------------------------------------
(* Properties.                                                             *)

Accepted == trigger \notin {Pending, Refused}

\* A step that starts afresh every hour, or every day, as a repeated trigger does not.
Aligned(e) ==
    /\ IsMinuteStep(e) => 60 % e.minute.by = 0
    /\ IsHourStep(e) => 24 % e.hour.by = 0 /\ FirstHour(e) < e.hour.by

\* Interval triggers are compared minute by minute in the week after the first day, the others
\* day by day over four years.
Days(t) == IF t.sc \in {"MINUTE", "HOURLY"} THEN 1 .. 7 ELSE 0 .. LastDate
Minutes(t) == IF t.sc \in {"MINUTE", "HOURLY"} THEN 0 .. 1439 ELSE {0, t.at, 1439}

SameTimes(e, t) ==
    \A d \in Days(t), m \in Minutes(t) : Fires(t, d, m) <=> CronSays(e, d, m)

(* An accepted cron expression fires at exactly the times it says: a        *)
(* calendar expression always, a step if and only if it divides the hour or *)
(* the day and starts within its first period.  (compile_cron takes other   *)
(* steps too, and Windows repeats them across the end of the hour or day.)  *)
FiresAsWritten ==
    Accepted /\ config.kind = "cron" =>
        (Aligned(config.cron) <=> SameTimes(config.cron, trigger))

(* No accepted schedule is dead: every trigger by the clock fires within    *)
(* four years, in every month it lists, and every delay of a trigger by an  *)
(* event fits the four digits of its minutes.                               *)
NeverDead ==
    Accepted =>
        CASE trigger.sc = "MONTHLY" ->
                \A month \in IF trigger.months = {} THEN {1} ELSE trigger.months :
                    \E d \in 0 .. LastDate :
                        Calendar[d].month = month /\ Fires(trigger, d, trigger.at)
          [] trigger.sc \in {"ONLOGON", "ONSTART"} ->
                trigger.minutes <= 9999 /\ 60 * trigger.minutes + trigger.seconds = config.delay
          [] OTHER -> \E d \in 0 .. LastDate : Fires(trigger, d, trigger.at)
=============================================================================
