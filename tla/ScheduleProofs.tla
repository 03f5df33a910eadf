---------------------------- MODULE ScheduleProofs ----------------------------
(***************************************************************************)
(* Proofs about module Schedule.  A repeated trigger counts minutes from   *)
(* its start, a cron expression counts minutes of the hour and hours of    *)
(* the day: they agree exactly if the period divides the hour or the day,  *)
(* which is a matter of divisibility.  The other triggers agree day by     *)
(* day.  That no trigger is dead needs the calendar: its months start      *)
(* where a closed form says, because that form solves the recursion and    *)
(* the least month at which they differ would follow one where they agree. *)
(***************************************************************************)
EXTENDS Schedule, WellFoundedInduction, TLAPS

-----------------------------------------------------------------------------
(* Divisibility *)

Divides(b, x) == \E q \in Int : x = q * b

LEMMA DividesIsMod ==
    ASSUME NEW b \in Nat \ {0}, NEW x \in Int
    PROVE  x % b = 0 <=> Divides(b, x)
<1>1. x % b = 0 => x = (x \div b) * b /\ x \div b \in Int
  OBVIOUS
<1>2. ASSUME NEW q \in Int, x = q * b
      PROVE  x % b = 0
  BY <1>2
<1> QED
  BY <1>1, <1>2 DEF Divides

LEMMA DividesSum ==
    ASSUME NEW b \in Int, NEW x \in Int, NEW y \in Int, Divides(b, x), Divides(b, y),
           NEW z, z = x + y \/ z = x - y
    PROVE  Divides(b, z)
<1>1. PICK p \in Int : x = p * b
  BY DEF Divides
<1>2. PICK q \in Int : y = q * b
  BY DEF Divides
<1>3. p + q \in Int /\ p - q \in Int
  OBVIOUS
<1>4. x + y = (p + q) * b /\ x - y = (p - q) * b
  BY <1>1, <1>2
<1> QED
  BY <1>3, <1>4 DEF Divides

\* To add or take away a multiple changes nothing.
LEMMA DividesRest ==
    ASSUME NEW b \in Int, NEW x \in Int, NEW y \in Int, Divides(b, x), NEW z, z = x + y
    PROVE  Divides(b, z) <=> Divides(b, y)
<1>1. z \in Int /\ y = z - x
  OBVIOUS
<1> QED
  BY <1>1, DividesSum

LEMMA DividesMultiple ==
    ASSUME NEW b \in Int, NEW x \in Int, NEW k \in Int, Divides(b, x), NEW z, z = k * x
    PROVE  Divides(b, z)
<1>1. PICK p \in Int : x = p * b
  BY DEF Divides
<1>2. k * (p * b) = (k * p) * b
  OBVIOUS
<1> QED
  BY <1>1, <1>2 DEF Divides

\* No multiple but zero is nearer to zero than the number itself.
LEMMA NoSmallMultiple ==
    ASSUME NEW b \in Nat, NEW x \in Int, -b < x, x < b, Divides(b, x)
    PROVE  x = 0
<1>1. PICK q \in Int : x = q * b
  BY DEF Divides
<1>2. q >= 1 => q * b >= b
  OBVIOUS
<1>3. q <= -1 => q * b <= -b
  OBVIOUS
<1> QED
  BY <1>1, <1>2, <1>3

-----------------------------------------------------------------------------
(* The minutes of a day *)

Week == 1 .. 7
DayMinutes == 0 .. 1439

LEMMA MinuteOfDay ==
    ASSUME NEW m \in DayMinutes
    PROVE  /\ m \in Nat /\ m < 1440 /\ m \div 60 \in 0 .. 23 /\ m % 60 \in 0 .. 59
           /\ m = 60 * (m \div 60) + (m % 60)
BY DEF DayMinutes

LEMMA TimeOfDay ==
    ASSUME NEW h \in 0 .. 23, NEW n \in 0 .. 59
    PROVE  /\ 60 * h + n \in DayMinutes
           /\ (60 * h + n) \div 60 = h /\ (60 * h + n) % 60 = n
<1> DEFINE m == 60 * h + n
<1>1. m \in DayMinutes /\ m = 60 * h + n
  BY DEF DayMinutes
<1> HIDE DEF m
<1>2. m = 60 * (m \div 60) + (m % 60) /\ m % 60 \in 0 .. 59 /\ m \div 60 \in 0 .. 23
  BY <1>1, MinuteOfDay
<1>3. m \div 60 = h /\ m % 60 = n
  BY <1>1, <1>2
<1> QED
  BY <1>1, <1>3 DEF m

\* On day d, a trigger repeated every b minutes fires at minute m as a step of b would.
MinutesAgree(b, d, m) == (1440 * d + m) % b = 0 <=> (m % 60) % b = 0

\* A step of minutes keeps its times from hour to hour if and only if it divides the hour.
LEMMA MinuteStep ==
    ASSUME NEW b \in 1 .. 59
    PROVE  60 % b = 0 <=> \A d \in Week, m \in DayMinutes : MinutesAgree(b, d, m)
<1>1. b \in Nat \ {0} /\ b \in Int
  OBVIOUS
<1>2. ASSUME 60 % b = 0, NEW d \in Week, NEW m \in DayMinutes
      PROVE  MinutesAgree(b, d, m)
  <2> DEFINE k == 24 * d + (m \div 60)
             x == k * 60
             y == m % 60
             z == 1440 * d + m
  <2>1. k \in Int /\ x \in Int /\ y \in Int /\ z \in Int /\ x = k * 60 /\ z = x + y
    BY MinuteOfDay DEF Week
  <2> DEFINE hour == 60
  <2>2. hour \in Int /\ Divides(b, hour) /\ x = k * hour
    BY <1>1, <1>2, <2>1, DividesIsMod
  <2> HIDE DEF k, x, y, z, hour
  <2>3. Divides(b, x)
    BY <1>1, <2>1, <2>2, DividesMultiple
  <2>4. Divides(b, z) <=> Divides(b, y)
    BY <1>1, <2>1, <2>3, DividesRest
  <2>5. z % b = 0 <=> y % b = 0
    BY <1>1, <2>1, <2>4, DividesIsMod
  <2> QED
    BY <2>5 DEF y, z, MinutesAgree
<1>3. ASSUME \A d \in Week, m \in DayMinutes : MinutesAgree(b, d, m)
      PROVE  60 % b = 0
  <2>0. 1 \in Week /\ 0 \in DayMinutes /\ 60 \in DayMinutes
    BY DEF Week, DayMinutes
  <2>1. MinutesAgree(b, 1, 0) /\ MinutesAgree(b, 1, 60)
    BY <1>3, <2>0
  <2>2. (1440 * 1 + 0) % b = 0 <=> (0 % 60) % b = 0
    BY <2>1, Zenon DEF MinutesAgree
  <2>3. (1440 * 1 + 60) % b = 0 <=> (60 % 60) % b = 0
    BY <2>1, Zenon DEF MinutesAgree
  <2>4. 0 % b = 0 /\ 0 % 60 = 0 /\ 60 % 60 = 0 /\ 1440 * 1 + 0 = 1440 /\ 1440 * 1 + 60 = 1500
    BY <1>1
  <2>5. 1440 % b = 0 /\ 1500 % b = 0
    BY <2>2, <2>3, <2>4
  <2>6. Divides(b, 1440) /\ Divides(b, 1500)
    BY <1>1, <2>5, DividesIsMod
  <2>7. 60 = 1500 - 1440
    OBVIOUS
  <2>8. Divides(b, 60)
    BY <1>1, <2>6, <2>7, DividesSum
  <2> QED
    BY <1>1, <2>8, DividesIsMod
<1> QED
  BY <1>2, <1>3

\* The minutes from minute n of an hour to minute r of the k-th hour after it.
Elapsed(k, r, n) == 60 * k + (r - n)

\* Whole periods of b hours have passed exactly if the minute is right and the hours are.
WholePeriods(b, k, r, n) == Divides(60 * b, Elapsed(k, r, n)) <=> r = n /\ Divides(b, k)

LEMMA HoursElapsed ==
    ASSUME NEW b \in Nat \ {0}, NEW k \in Int, NEW r \in Int, NEW n \in Int,
           -60 < r - n, r - n < 60
    PROVE  WholePeriods(b, k, r, n)
<1> DEFINE e == Elapsed(k, r, n)
           period == 60 * b
<1>0. e = 60 * k + (r - n)
  BY DEF Elapsed
<1>p. period = 60 * b
  OBVIOUS
<1> HIDE DEF e, period
<1>1. ASSUME Divides(period, e)
      PROVE  r = n /\ Divides(b, k)
  <2>1. PICK q \in Int : e = q * period
    BY <1>1 DEF Divides
  <2> DEFINE p == q * b
  <2>2. p \in Int /\ e = 60 * p
    BY <1>p, <2>1
  <2>3. p = q * b
    OBVIOUS
  <2> HIDE DEF p
  <2>4. r - n = 60 * (p - k)
    BY <1>0, <2>2
  <2>5. p = k
    BY <2>2, <2>4
  <2> QED
    BY <2>3, <2>4, <2>5 DEF Divides
<1>2. ASSUME r = n, Divides(b, k)
      PROVE  Divides(period, e)
  <2>1. PICK q \in Int : k = q * b
    BY <1>2 DEF Divides
  <2>2. e = q * period
    BY <1>0, <1>p, <1>2, <2>1
  <2> QED
    BY <2>2 DEF Divides
<1> QED
  BY <1>1, <1>2 DEF e, period, WholePeriods

\* Hour h of day d: does a trigger repeated every b hours from hour f of day 0 fire, and does a
\* step of b from f say so?
HourFires(b, f, d, h) == Divides(b, 24 * d + h - f)
HourSaid(b, f, h) == h >= f /\ Divides(b, h - f)

LEMMA HourStepAligned ==
    ASSUME NEW b \in 1 .. 23, NEW f \in 0 .. 23, Divides(b, 24), f < b,
           NEW d \in Week, NEW h \in 0 .. 23
    PROVE  HourFires(b, f, d, h) <=> HourSaid(b, f, h)
<1> DEFINE days == 24 * d
           hours == h - f
           whole == 24 * d + h - f
           day == 24
<1>1. /\ b \in Int /\ b \in Nat /\ d \in Int /\ days \in Int /\ hours \in Int /\ day \in Int
      /\ days = d * day /\ whole = days + hours /\ Divides(b, day)
  BY DEF Week
<1>2. -b < hours /\ (hours = 0 => h >= f) /\ (hours < b => h < f \/ (h >= f /\ hours < b))
  OBVIOUS
<1>3. ~(h >= f) => hours < 0 /\ hours < b
  OBVIOUS
<1> HIDE DEF days, hours, whole, day
<1>4. Divides(b, days)
  BY <1>1, DividesMultiple
<1>5. Divides(b, whole) <=> Divides(b, hours)
  BY <1>1, <1>4, DividesRest
<1>6. Divides(b, hours) => h >= f
  <2> SUFFICES ASSUME Divides(b, hours), ~(h >= f)
               PROVE  FALSE
    OBVIOUS
  <2>1. hours = 0
    BY <1>1, <1>2, <1>3, NoSmallMultiple
  <2> QED
    BY <1>2, <2>1
<1> QED
  BY <1>5, <1>6 DEF HourFires, HourSaid, whole, hours

LEMMA HourStepUnaligned ==
    ASSUME NEW b \in 1 .. 23, NEW f \in 0 .. 23,
           \A d \in Week, h \in 0 .. 23 : HourFires(b, f, d, h) <=> HourSaid(b, f, h)
    PROVE  Divides(b, 24) /\ f < b
<1>1. b \in Int /\ 1 \in Week /\ 2 \in Week
  BY DEF Week
<1>2. Divides(b, 0)
  BY DEF Divides
<1>3. Divides(b, 24)
  <2>1. f - f = 0 /\ 24 * 1 + f - f = 24 /\ f >= f
    OBVIOUS
  <2>2. HourSaid(b, f, f)
    BY <1>2, <2>1 DEF HourSaid
  <2>3. HourFires(b, f, 1, f)
    BY <1>1, <2>2
  <2> QED
    BY <2>1, <2>3 DEF HourFires
<1>4. f < b
  <2> SUFFICES ASSUME f >= b
               PROVE  FALSE
    OBVIOUS
  <2> DEFINE h == f - b
  <2>1. h \in 0 .. 23 /\ ~(h >= f) /\ 24 * 1 + h - f = 24 - b
    OBVIOUS
  <2>2. Divides(b, b)
    <3>1. b = 1 * b /\ 1 \in Int
      OBVIOUS
    <3> QED
      BY <3>1 DEF Divides
  <2>3. Divides(b, 24 - b)
    BY <1>1, <1>3, <2>2, DividesSum
  <2>4. HourFires(b, f, 1, h)
    BY <2>1, <2>3 DEF HourFires
  <2>5. ~HourSaid(b, f, h)
    BY <2>1 DEF HourSaid
  <2> HIDE DEF h
  <2> QED
    BY <1>1, <2>1, <2>4, <2>5
<1> QED
  BY <1>3, <1>4

\* On day d, a trigger repeated every b hours from minute 60 * f + n of day 0 fires at minute m
\* as a step of b from hour f would, n minutes past the hour.
HoursAgree(b, f, n, d, m) ==
    LET elapsed == 1440 * d + m - (60 * f + n)
    IN  elapsed >= 0 /\ elapsed % (60 * b) = 0 <=>
          m % 60 = n /\ m \div 60 >= f /\ ((m \div 60) - f) % b = 0

LEMMA HoursAgreeByHour ==
    ASSUME NEW b \in 1 .. 23, NEW f \in 0 .. 23, NEW n \in 0 .. 59,
           NEW d \in Week, NEW m \in DayMinutes
    PROVE  HoursAgree(b, f, n, d, m) <=>
             (m % 60 = n => (HourFires(b, f, d, m \div 60) <=> HourSaid(b, f, m \div 60)))
<1> DEFINE h == m \div 60
           r == m % 60
           e == 1440 * d + m - (60 * f + n)
           k == 24 * d + h - f
           past == h - f
           period == 60 * b
<1>1. h \in 0 .. 23 /\ r \in 0 .. 59 /\ m = 60 * h + r /\ d \in Int /\ d >= 1
  BY MinuteOfDay DEF Week
<1>2. e = Elapsed(k, r, n) /\ k \in Int /\ e \in Int /\ past \in Int
  <2> HIDE DEF h, r
  <2>1. k \in Int /\ e \in Int /\ past \in Int
    BY <1>1
  <2>2. e = 60 * k + (r - n)
    BY <1>1
  <2> QED
    BY <2>1, <2>2 DEF Elapsed
<1>3. e >= 0
  <2>1. m \in Nat /\ d \in Int /\ d >= 1
    BY <1>1
  <2>2. 1440 * d >= 1440 /\ 60 * f + n <= 1439
    BY <2>1
  <2> QED
    BY <2>1, <2>2
<1>4. period \in Nat \ {0} /\ period = 60 * b /\ b \in Nat \ {0}
  OBVIOUS
<1>5. /\ HoursAgree(b, f, n, d, m) <=>
           (e >= 0 /\ e % period = 0 <=> r = n /\ h >= f /\ past % b = 0)
      /\ HourFires(b, f, d, h) <=> Divides(b, k)
      /\ HourSaid(b, f, h) <=> h >= f /\ Divides(b, past)
  BY Zenon DEF HoursAgree, HourFires, HourSaid
<1> HIDE DEF h, r, e, k, past, period
<1>6. e % period = 0 <=> Divides(period, e)
  BY <1>2, <1>4, DividesIsMod
<1>7. Divides(period, e) <=> r = n /\ Divides(b, k)
  <2>1. k \in Int /\ e = Elapsed(k, r, n)
    BY <1>2
  <2>2. r \in Int /\ n \in Int /\ -60 < r - n /\ r - n < 60 /\ b \in Nat \ {0}
    BY <1>1, <1>4
  <2>3. period = 60 * b
    BY <1>4
  <2>4. WholePeriods(b, k, r, n)
    BY <2>1, <2>2, HoursElapsed
  <2> QED
    BY <2>1, <2>3, <2>4 DEF WholePeriods
<1>8. past % b = 0 <=> Divides(b, past)
  BY <1>2, <1>4, DividesIsMod
<1>9. HoursAgree(b, f, n, d, m) <=>
        (r = n => (HourFires(b, f, d, h) <=> HourSaid(b, f, h)))
  BY <1>3, <1>5, <1>6, <1>7, <1>8
<1> QED
  BY <1>9 DEF r, h

\* A step of hours keeps its times from day to day if and only if it divides the day and starts
\* within its first period.
LEMMA HourStep ==
    ASSUME NEW b \in 1 .. 23, NEW f \in 0 .. 23, NEW n \in 0 .. 59
    PROVE  24 % b = 0 /\ f < b <=>
             \A d \in Week, m \in DayMinutes : HoursAgree(b, f, n, d, m)
<1>1. 24 % b = 0 <=> Divides(b, 24)
  <2>1. b \in Nat \ {0} /\ 24 \in Int
    OBVIOUS
  <2> QED
    BY <2>1, DividesIsMod
<1>2. ASSUME Divides(b, 24), f < b, NEW d \in Week, NEW m \in DayMinutes
      PROVE  HoursAgree(b, f, n, d, m)
  <2>1. m \div 60 \in 0 .. 23
    BY MinuteOfDay
  <2>2. HourFires(b, f, d, m \div 60) <=> HourSaid(b, f, m \div 60)
    BY <1>2, <2>1, HourStepAligned
  <2> QED
    BY <2>2, HoursAgreeByHour
<1>3. ASSUME \A d \in Week, m \in DayMinutes : HoursAgree(b, f, n, d, m)
      PROVE  Divides(b, 24) /\ f < b
  <2>1. ASSUME NEW d \in Week, NEW h \in 0 .. 23
        PROVE  HourFires(b, f, d, h) <=> HourSaid(b, f, h)
    <3> DEFINE m == 60 * h + n
    <3>1. m \in DayMinutes /\ m \div 60 = h /\ m % 60 = n
      BY TimeOfDay
    <3> HIDE DEF m
    <3>2. HoursAgree(b, f, n, d, m)
      BY <1>3, <3>1
    <3> QED
      BY <3>1, <3>2, HoursAgreeByHour
  <2> QED
    BY <2>1, HourStepUnaligned
<1> QED
  BY <1>1, <1>2, <1>3

-----------------------------------------------------------------------------
(* What becomes of a cron expression *)

\* A field that is a number, a step or a list has the form of one.
LEMMA TokenForms ==
    ASSUME NEW f \in Token
    PROVE  /\ f.is = "any" => f = Any
           /\ f.is = "num" => f.n \in Nat
           /\ f.is = "step" => f.from \in Nat \union {Star} /\ f.by \in Nat
           /\ f.is = "list" => f.ranges \subseteq Nat \X Nat
           /\ f.is \in {"any", "num", "step", "list"}
BY DEF Token, Any

LEMMA AnyHolds ==
    ASSUME NEW v, NEW lo
    PROVE  Holds(Any, v, lo) /\ DowHolds(Any, v)
BY DEF Holds, DowHolds, Any

LEMMA NumberHolds ==
    ASSUME NEW f, NEW v, NEW lo, f.is = "num"
    PROVE  Holds(f, v, lo) <=> v = f.n
BY DEF Holds

LEMMA StepHolds ==
    ASSUME NEW f, NEW v, NEW lo, f.is = "step", NEW from, from = IF f.from = Star THEN lo ELSE f.from
    PROVE  Holds(f, v, lo) <=> v >= from /\ (v - from) % f.by = 0
BY DEF Holds

\* A field that is a number is not another form of field.
LEMMA NumberIsNoWild == \A f : f.is = "num" \/ f.is = "step" \/ f.is = "list" => f # Any
BY DEF Any

\* The forms exclude each other, so that the order in which they are tried does not matter.
LEMMA OneForm ==
    ASSUME NEW e
    PROVE  /\ IsMinuteStep(e) => ~(IsHourStep(e) \/ IsDaily(e) \/ IsWeekly(e) \/ IsMonthly(e))
           /\ IsHourStep(e) => ~(IsDaily(e) \/ IsWeekly(e) \/ IsMonthly(e))
           /\ IsDaily(e) => ~(IsWeekly(e) \/ IsMonthly(e))
           /\ IsWeekly(e) => ~IsMonthly(e)
<1> USE DEF IsMinuteStep, IsHourStep, IsDaily, IsWeekly, IsMonthly, IsTimeOfDay, IsExact
<1>1. IsMinuteStep(e) => ~(IsHourStep(e) \/ IsDaily(e) \/ IsWeekly(e) \/ IsMonthly(e))
  OBVIOUS
<1>2. IsHourStep(e) => ~(IsDaily(e) \/ IsWeekly(e) \/ IsMonthly(e))
  OBVIOUS
<1>3. IsDaily(e) => ~(IsWeekly(e) \/ IsMonthly(e))
  BY DEF AllWild, Any
<1>4. IsWeekly(e) => ~IsMonthly(e)
  OBVIOUS
<1> QED
  BY <1>1, <1>2, <1>3, <1>4

LEMMA MinuteStepAsWritten ==
    ASSUME NEW e \in CronExpression, IsMinuteStep(e)
    PROVE  /\ CompileCron(e) = [sc |-> "MINUTE", every |-> e.minute.by, at |-> 0]
           /\ Aligned(e) <=> SameTimes(e, CompileCron(e))
<1> DEFINE b == e.minute.by
           t == [sc |-> "MINUTE", every |-> b, at |-> 0]
<1>1. ~IsHourStep(e) /\ ~IsDaily(e) /\ ~IsWeekly(e) /\ ~IsMonthly(e)
  BY OneForm
<1>2. CompileCron(e) = t
  BY <1>1 DEF CompileCron
<1>3. /\ e.minute.is = "step" /\ e.minute.from = Star /\ b \in 1 .. 59
      /\ e.hour = Any /\ e.dom = Any /\ e.month = Any /\ e.dow = Any
  BY DEF IsMinuteStep, AllWild
<1>4. ASSUME NEW d \in Week, NEW m \in DayMinutes
      PROVE  (Fires(t, d, m) <=> CronSays(e, d, m)) <=> MinutesAgree(b, d, m)
  <2> DEFINE elapsed == 1440 * d + m
             r == m % 60
  <2>1. m \in Nat /\ d \in Nat /\ r \in Nat /\ elapsed \in Nat
    BY MinuteOfDay DEF Week
  <2>2. t.sc = "MINUTE" /\ t.every = b /\ t.at = 0
    OBVIOUS
  <2>3. Fires(t, d, m) <=> FiresEvery(t.every, t, d, m)
    BY <2>2 DEF Fires
  <2>4. FiresEvery(t.every, t, d, m) <=> elapsed - 0 >= 0 /\ (elapsed - 0) % b = 0
    <3> HIDE DEF t, b
    <3>1. FiresEvery(t.every, t, d, m) <=>
            1440 * d + m - t.at >= 0 /\ (1440 * d + m - t.at) % t.every = 0
      BY DEF FiresEvery
    <3>2. b \in Nat
      BY <1>3 DEF b
    <3> QED
      BY <2>1, <2>2, <3>1, <3>2
  <2>5. CronSays(e, d, m) <=> Holds(e.minute, r, 0)
    BY <1>3, AnyHolds DEF CronSays
  <2>6. Holds(e.minute, r, 0) <=> r >= 0 /\ (r - 0) % b = 0
    BY <1>3, StepHolds
  <2>7. MinutesAgree(b, d, m) <=> (elapsed % b = 0 <=> r % b = 0)
    BY DEF MinutesAgree
  <2> HIDE DEF elapsed, r, t, b
  <2>8. elapsed - 0 = elapsed /\ r - 0 = r /\ elapsed >= 0 /\ r >= 0
    BY <2>1
  <2> QED
    BY <2>3, <2>4, <2>5, <2>6, <2>7, <2>8
<1>5. SameTimes(e, t) <=>
        \A d \in Week, m \in DayMinutes : Fires(t, d, m) <=> CronSays(e, d, m)
  <2>1. Days(t) = Week /\ Minutes(t) = DayMinutes
    BY DEF Days, Minutes, Week, DayMinutes
  <2> QED
    BY <2>1, Zenon DEF SameTimes
<1> HIDE DEF t
<1>6. SameTimes(e, t) <=> \A d \in Week, m \in DayMinutes : MinutesAgree(b, d, m)
  BY <1>4, <1>5
<1>7. Aligned(e) <=> 60 % b = 0
  BY <1>1 DEF Aligned
<1>8. 60 % b = 0 <=> \A d \in Week, m \in DayMinutes : MinutesAgree(b, d, m)
  BY <1>3, MinuteStep
<1>9. Aligned(e) <=> SameTimes(e, t)
  BY <1>6, <1>7, <1>8
<1> QED
  BY <1>2, <1>9 DEF t

LEMMA HourStepAsWritten ==
    ASSUME NEW e \in CronExpression, IsHourStep(e)
    PROVE  /\ CompileCron(e) =
                [sc |-> "HOURLY", every |-> e.hour.by, at |-> 60 * FirstHour(e) + e.minute.n]
           /\ Aligned(e) <=> SameTimes(e, CompileCron(e))
<1> DEFINE b == e.hour.by
           f == FirstHour(e)
           n == e.minute.n
           t == [sc |-> "HOURLY", every |-> b, at |-> 60 * f + n]
<1>1. ~IsMinuteStep(e) /\ ~IsDaily(e) /\ ~IsWeekly(e) /\ ~IsMonthly(e)
  BY OneForm
<1>2. CompileCron(e) = t
  BY <1>1 DEF CompileCron
<1>3. /\ e.minute.is = "num" /\ n \in 0 .. 59
      /\ e.hour.is = "step" /\ e.hour.from \in {Star} \union 0 .. 23 /\ b \in 1 .. 23
      /\ e.dom = Any /\ e.month = Any /\ e.dow = Any
  BY DEF IsHourStep, AllWild, IsExact
<1>a. f \in 0 .. 23 /\ f = IF e.hour.from = Star THEN 0 ELSE e.hour.from
  BY <1>3 DEF FirstHour, Star
<1>4. ASSUME NEW d \in Week, NEW m \in DayMinutes
      PROVE  (Fires(t, d, m) <=> CronSays(e, d, m)) <=> HoursAgree(b, f, n, d, m)
  <2> DEFINE elapsed == 1440 * d + m - (60 * f + n)
             h == m \div 60
             r == m % 60
  <2>1. m \in Nat /\ d \in Nat
    BY MinuteOfDay DEF Week
  <2>2. t.sc = "HOURLY" /\ t.every = b /\ t.at = 60 * f + n
    OBVIOUS
  <2>3. Fires(t, d, m) <=> FiresEvery(60 * t.every, t, d, m)
    BY <2>2 DEF Fires
  <2>4. FiresEvery(60 * t.every, t, d, m) <=> elapsed >= 0 /\ elapsed % (60 * b) = 0
    <3> HIDE DEF t, b, f, n
    <3>1. FiresEvery(60 * t.every, t, d, m) <=>
            1440 * d + m - t.at >= 0 /\ (1440 * d + m - t.at) % (60 * t.every) = 0
      BY DEF FiresEvery
    <3>2. b \in Nat /\ f \in Nat /\ n \in Nat
      BY <1>3, <1>a DEF b, f, n
    <3> QED
      BY <2>1, <2>2, <3>1, <3>2
  <2>5. CronSays(e, d, m) <=> Holds(e.minute, r, 0) /\ Holds(e.hour, h, 0)
    BY <1>3, AnyHolds DEF CronSays
  <2>6. Holds(e.minute, r, 0) <=> r = n
    BY <1>3, NumberHolds
  <2>7. Holds(e.hour, h, 0) <=> h >= f /\ (h - f) % b = 0
    BY <1>3, <1>a, StepHolds
  <2>8. HoursAgree(b, f, n, d, m) <=>
          (elapsed >= 0 /\ elapsed % (60 * b) = 0 <=> r = n /\ h >= f /\ (h - f) % b = 0)
    BY Zenon DEF HoursAgree
  <2> HIDE DEF elapsed, r, h, t, b, f, n
  <2> QED
    BY <2>3, <2>4, <2>5, <2>6, <2>7, <2>8
<1>5. SameTimes(e, t) <=>
        \A d \in Week, m \in DayMinutes : Fires(t, d, m) <=> CronSays(e, d, m)
  <2>1. Days(t) = Week /\ Minutes(t) = DayMinutes
    BY DEF Days, Minutes, Week, DayMinutes
  <2> QED
    BY <2>1, Zenon DEF SameTimes
<1> HIDE DEF t
<1>6. SameTimes(e, t) <=> \A d \in Week, m \in DayMinutes : HoursAgree(b, f, n, d, m)
  BY <1>4, <1>5
<1>7. Aligned(e) <=> 24 % b = 0 /\ f < b
  BY <1>1 DEF Aligned
<1>8. 24 % b = 0 /\ f < b <=> \A d \in Week, m \in DayMinutes : HoursAgree(b, f, n, d, m)
  <2> HIDE DEF b, f, n
  <2> QED
    BY <1>3, <1>a, HourStep
<1>9. Aligned(e) <=> SameTimes(e, t)
  BY <1>6, <1>7, <1>8
<1> QED
  BY <1>2, <1>9 DEF t

\* The minute and the hour of an expression are one minute of the day.
LEMMA TimeSaid ==
    ASSUME NEW e \in CronExpression, IsTimeOfDay(e), NEW m \in DayMinutes
    PROVE  /\ 60 * e.hour.n + e.minute.n \in DayMinutes
           /\ Holds(e.minute, m % 60, 0) /\ Holds(e.hour, m \div 60, 0) <=>
                m = 60 * e.hour.n + e.minute.n
<1> DEFINE h == e.hour.n
           n == e.minute.n
<1>1. e.minute.is = "num" /\ n \in 0 .. 59 /\ e.hour.is = "num" /\ h \in 0 .. 23
  BY DEF IsTimeOfDay, IsExact
<1>2. /\ Holds(e.minute, m % 60, 0) <=> m % 60 = n
      /\ Holds(e.hour, m \div 60, 0) <=> m \div 60 = h
  BY <1>1, NumberHolds
<1> HIDE DEF h, n
<1>3. 60 * h + n \in DayMinutes /\ (60 * h + n) \div 60 = h /\ (60 * h + n) % 60 = n
  BY <1>1, TimeOfDay
<1>4. m = 60 * (m \div 60) + (m % 60)
  BY MinuteOfDay
<1>5. m % 60 = n /\ m \div 60 = h <=> m = 60 * h + n
  BY <1>3, <1>4
<1> QED
  BY <1>2, <1>3, <1>5 DEF h, n

\* A set of numbers holds for its members.
LEMMA SetHolds ==
    ASSUME NEW f, NEW lo, NEW hi, IsSet(f, lo, hi), NEW v, NEW from
    PROVE  Holds(f, v, from) <=> v \in SetOf(f)
<1>1. CASE f.is = "num"
  BY <1>1 DEF Holds, SetOf
<1>2. CASE f.is = "list"
  BY <1>2 DEF Holds, SetOf
<1> QED
  BY <1>1, <1>2 DEF IsSet, IsExact

\* Day d of the calendar as a day of the week.
LEMMA WeekdayOf ==
    ASSUME NEW d \in 0 .. LastDate
    PROVE  Calendar[d].weekday = (d % 7) + 1 /\ Calendar[d].weekday \in 1 .. 7
<1>1. Calendar[d].weekday = (d % 7) + 1
  BY DEF Calendar
<1>2. d \in Nat
  BY ScheduleConstants
<1> QED
  BY <1>1, <1>2

\* An expression without a step is aligned, and its trigger is compared day by day.
LEMMA DayByDay ==
    ASSUME NEW e, NEW t, IsTimeOfDay(e), t.sc \notin {"MINUTE", "HOURLY"}, t.at \in DayMinutes,
           \A d \in 0 .. LastDate : \A m \in DayMinutes : Fires(t, d, m) <=> CronSays(e, d, m)
    PROVE  Aligned(e) /\ SameTimes(e, t)
<1>1. Aligned(e)
  BY DEF Aligned, IsMinuteStep, IsHourStep, IsTimeOfDay, IsExact
<1>2. Days(t) = 0 .. LastDate /\ Minutes(t) = {0, t.at, 1439}
  BY DEF Days, Minutes
<1>3. {0, t.at, 1439} \subseteq DayMinutes
  BY DEF DayMinutes
<1>4. ASSUME NEW d \in Days(t), NEW m \in Minutes(t)
      PROVE  Fires(t, d, m) <=> CronSays(e, d, m)
  BY <1>2, <1>3, <1>4
<1> QED
  BY <1>1, <1>4 DEF SameTimes

LEMMA DailyAsWritten ==
    ASSUME NEW e \in CronExpression, IsDaily(e)
    PROVE  /\ CompileCron(e) = [sc |-> "DAILY", every |-> 1, at |-> 60 * e.hour.n + e.minute.n]
           /\ 60 * e.hour.n + e.minute.n \in DayMinutes
           /\ Aligned(e) <=> SameTimes(e, CompileCron(e))
<1> DEFINE at == 60 * e.hour.n + e.minute.n
           t == [sc |-> "DAILY", every |-> 1, at |-> at]
<1>1. /\ ~IsMinuteStep(e) /\ ~IsHourStep(e) /\ ~IsWeekly(e) /\ ~IsMonthly(e)
      /\ IsTimeOfDay(e)
  BY OneForm DEF IsDaily
<1>2. at \in DayMinutes
  <2>1. 0 \in DayMinutes
    BY DEF DayMinutes
  <2> QED
    BY <1>1, <2>1, TimeSaid
<1>3. CompileCron(e) = t
  <2>1. CompileCron(e) = CompileDaily(at, 1)
    BY <1>1 DEF CompileCron
  <2>2. IsTime(at)
    BY <1>2, ZenonT(30) DEF IsTime, DayMinutes
  <2> QED
    BY <2>1, <2>2 DEF CompileDaily
<1>4. e.dom = Any /\ e.month = Any /\ e.dow = Any
  BY DEF IsDaily, AllWild
<1>5. ASSUME NEW d \in 0 .. LastDate, NEW m \in DayMinutes
      PROVE  Fires(t, d, m) <=> CronSays(e, d, m)
  <2>1. CronSays(e, d, m) <=> Holds(e.minute, m % 60, 0) /\ Holds(e.hour, m \div 60, 0)
    BY <1>4, AnyHolds DEF CronSays
  <2>2. CronSays(e, d, m) <=> m = at
    BY <1>1, <2>1, TimeSaid
  <2>3. d % 1 = 0
    BY ScheduleConstants
  <2>4. Fires(t, d, m) <=> m = at
    BY <2>3 DEF Fires
  <2> QED
    BY <2>2, <2>4
<1>6. t.sc \notin {"MINUTE", "HOURLY"} /\ t.at \in DayMinutes
  BY <1>2
<1> HIDE DEF t
<1>7. Aligned(e) /\ SameTimes(e, t)
  BY <1>1, <1>5, <1>6, DayByDay
<1> QED
  BY <1>2, <1>3, <1>7 DEF t

\* A day of the week is in a set of weekdays if the field says it, 0 or 7 for Sunday.
LEMMA WeekdaySaid ==
    ASSUME NEW f, IsSet(f, 0, 7), NEW w \in 1 .. 7
    PROVE  DowHolds(f, w) <=> w \in Weekdays(f)
<1>1. DowHolds(f, w) <=> w \in SetOf(f) \/ (w = 7 /\ 0 \in SetOf(f))
  <2>1. Holds(f, w, 0) <=> w \in SetOf(f)
    BY SetHolds
  <2>2. Holds(f, 0, 0) <=> 0 \in SetOf(f)
    BY SetHolds
  <2> QED
    BY <2>1, <2>2 DEF DowHolds
<1>2. w \in Weekdays(f) <=> w \in SetOf(f) \/ (w = 7 /\ 0 \in SetOf(f))
  BY DEF Weekdays
<1> QED
  BY <1>1, <1>2

LEMMA SetOfNumbers ==
    ASSUME NEW f \in Token, NEW lo \in Nat, NEW hi \in Nat, IsSet(f, lo, hi)
    PROVE  SetOf(f) \subseteq lo .. hi /\ SetOf(f) # {}
<1>1. CASE f.is = "num"
  BY <1>1 DEF IsSet, IsExact, SetOf
<1>2. CASE f.is = "list"
  <2>1. f.ranges # {} /\ f.ranges \subseteq Nat \X Nat
    BY <1>2 DEF Token, Any
  <2>2. \A r \in f.ranges : r[1] \in lo .. hi /\ r[2] \in lo .. hi /\ r[1] <= r[2]
    BY <1>2 DEF IsSet, IsExact
  <2>3. SetOf(f) = UNION {r[1] .. r[2] : r \in f.ranges}
    BY <1>2 DEF SetOf
  <2>4. ASSUME NEW v \in SetOf(f)
        PROVE  v \in lo .. hi
    <3>1. PICK r \in f.ranges : v \in r[1] .. r[2]
      BY <2>3
    <3>2. r[1] \in lo .. hi /\ r[2] \in lo .. hi
      BY <2>2
    <3> QED
      BY <3>1, <3>2
  <2>5. PICK r \in f.ranges : TRUE
    BY <2>1
  <2>6. r[1] \in lo .. hi /\ r[2] \in lo .. hi /\ r[1] <= r[2]
    BY <2>2
  <2>7. r[1] \in r[1] .. r[2]
    BY <2>6
  <2>8. r[1] \in SetOf(f)
    BY <2>3, <2>7
  <2> QED
    BY <2>4, <2>8
<1> QED
  BY <1>1, <1>2 DEF IsSet, IsExact

LEMMA WeekdaysOfWeek ==
    ASSUME NEW f \in Token, IsSet(f, 0, 7)
    PROVE  Weekdays(f) \subseteq 1 .. 7 /\ Weekdays(f) # {}
<1>1. SetOf(f) \subseteq 0 .. 7 /\ SetOf(f) # {}
  BY SetOfNumbers
<1>2. \A n \in 0 .. 7 : (IF n \in {0, 7} THEN 7 ELSE n) \in 1 .. 7
  OBVIOUS
<1> QED
  BY <1>1, <1>2 DEF Weekdays

LEMMA WeeklyAsWritten ==
    ASSUME NEW e \in CronExpression, IsWeekly(e)
    PROVE  /\ CompileCron(e) = [sc |-> "WEEKLY", every |-> 1, at |-> 60 * e.hour.n + e.minute.n,
                                days |-> Weekdays(e.dow)]
           /\ 60 * e.hour.n + e.minute.n \in DayMinutes
           /\ Weekdays(e.dow) \subseteq 1 .. 7 /\ Weekdays(e.dow) # {}
           /\ Aligned(e) <=> SameTimes(e, CompileCron(e))
<1> DEFINE at == 60 * e.hour.n + e.minute.n
           days == Weekdays(e.dow)
           t == [sc |-> "WEEKLY", every |-> 1, at |-> at, days |-> days]
<1>1. /\ ~IsMinuteStep(e) /\ ~IsHourStep(e) /\ ~IsDaily(e) /\ ~IsMonthly(e) /\ IsTimeOfDay(e)
      /\ e.dom = Any /\ e.month = Any /\ e.dow # Any /\ IsSet(e.dow, 0, 7) /\ e.dow \in Token
  BY OneForm DEF IsWeekly, AllWild, CronExpression
<1>2. at \in DayMinutes /\ days \subseteq 1 .. 7 /\ days # {}
  <2>1. 0 \in DayMinutes
    BY DEF DayMinutes
  <2>2. at \in DayMinutes
    BY <1>1, <2>1, TimeSaid
  <2> QED
    BY <1>1, <2>2, WeekdaysOfWeek
<1>3. CompileCron(e) = t
  <2>1. CompileCron(e) = CompileWeekly(at, 1, days)
    BY <1>1 DEF CompileCron
  <2>2. IsTime(at)
    BY <1>2 DEF IsTime, DayMinutes
  <2> QED
    BY <1>2, <2>1, <2>2 DEF CompileWeekly
<1>5. ASSUME NEW d \in 0 .. LastDate, NEW m \in DayMinutes
      PROVE  Fires(t, d, m) <=> CronSays(e, d, m)
  <2> DEFINE w == Calendar[d].weekday
  <2>1. CronSays(e, d, m) <=>
          Holds(e.minute, m % 60, 0) /\ Holds(e.hour, m \div 60, 0) /\ DowHolds(e.dow, w)
    BY <1>1, AnyHolds DEF CronSays
  <2>2. DowHolds(e.dow, w) <=> w \in days
    BY <1>1, WeekdayOf, WeekdaySaid
  <2>3. CronSays(e, d, m) <=> m = at /\ w \in days
    BY <1>1, <2>1, <2>2, TimeSaid
  <2>4. (d \div 7) % 1 = 0
    BY ScheduleConstants
  <2>5. Fires(t, d, m) <=> m = at /\ w \in days
    BY <2>4 DEF Fires
  <2> QED
    BY <2>3, <2>5
<1>6. t.sc \notin {"MINUTE", "HOURLY"} /\ t.at \in DayMinutes
  BY <1>2
<1> HIDE DEF t
<1>7. Aligned(e) /\ SameTimes(e, t)
  BY <1>1, <1>5, <1>6, DayByDay
<1> QED
  BY <1>2, <1>3, <1>7 DEF t

\* The months an expression lists, none for "*".
MonthsOf(e) == IF e.month = Any THEN {} ELSE SetOf(e.month)

LEMMA MonthlyAsWritten ==
    ASSUME NEW e \in CronExpression, IsMonthly(e), ~IsDaily(e), CompileCron(e) # Refused
    PROVE  /\ CompileCron(e) = CompileMonthly(60 * e.hour.n + e.minute.n, e.dom.n, MonthsOf(e))
           /\ CompileCron(e) = [sc |-> "MONTHLY", at |-> 60 * e.hour.n + e.minute.n,
                                day |-> e.dom.n, months |-> MonthsOf(e)]
           /\ 60 * e.hour.n + e.minute.n \in DayMinutes
           /\ e.dom.n \in 1 .. 31 /\ MonthsOf(e) \subseteq 1 .. 12
           /\ Aligned(e) <=> SameTimes(e, CompileCron(e))
<1> DEFINE at == 60 * e.hour.n + e.minute.n
           day == e.dom.n
           months == MonthsOf(e)
           t == [sc |-> "MONTHLY", at |-> at, day |-> day, months |-> months]
<1>1. /\ ~IsMinuteStep(e) /\ ~IsHourStep(e) /\ ~IsWeekly(e) /\ IsTimeOfDay(e)
      /\ e.dow = Any /\ e.dom.is = "num" /\ day \in 1 .. 31 /\ e.month \in Token
      /\ e.month = Any \/ IsSet(e.month, 1, 12)
  BY OneForm DEF IsMonthly, IsExact, CronExpression
<1>2. at \in DayMinutes
  <2>1. 0 \in DayMinutes
    BY DEF DayMinutes
  <2> QED
    BY <1>1, <2>1, TimeSaid
<1>3. /\ months \subseteq 1 .. 12
      /\ e.month = Any => months = {}
      /\ e.month # Any => IsSet(e.month, 1, 12) /\ months = SetOf(e.month) /\ months # {}
  BY <1>1, SetOfNumbers DEF MonthsOf
<1>4. CompileCron(e) = CompileMonthly(at, day, months)
  BY <1>1 DEF CompileCron, MonthsOf
<1>5. CompileCron(e) = t
  BY <1>4 DEF CompileMonthly
<1>6. ASSUME NEW d \in 0 .. LastDate, NEW m \in DayMinutes
      PROVE  Fires(t, d, m) <=> CronSays(e, d, m)
  <2> DEFINE date == Calendar[d]
  <2>1. CronSays(e, d, m) <=>
          /\ Holds(e.minute, m % 60, 0) /\ Holds(e.hour, m \div 60, 0)
          /\ Holds(e.month, date.month, 1) /\ Holds(e.dom, date.day, 1)
    BY <1>1, AnyHolds DEF CronSays
  <2>2. Holds(e.dom, date.day, 1) <=> date.day = day
    BY <1>1, NumberHolds
  <2>3. Holds(e.month, date.month, 1) <=> months = {} \/ date.month \in months
    <3>1. CASE e.month = Any
      BY <1>3, <3>1, AnyHolds
    <3>2. CASE e.month # Any
      BY <1>3, <3>2, SetHolds
    <3> QED
      BY <3>1, <3>2
  <2>4. Holds(e.minute, m % 60, 0) /\ Holds(e.hour, m \div 60, 0) <=> m = at
    BY <1>1, TimeSaid
  <2>5. day # LastDay
    BY <1>1 DEF LastDay
  <2>6. Fires(t, d, m) <=>
          m = at /\ (months = {} \/ date.month \in months) /\ date.day = day
    <3> HIDE DEF at, day, months, date
    <3>1. Fires(t, d, m) <=>
            /\ m = t.at
            /\ t.months = {} \/ Calendar[d].month \in t.months
            /\ IF t.day = LastDay THEN Calendar[d].last ELSE Calendar[d].day = t.day
      BY DEF Fires
    <3> QED
      BY <2>5, <3>1 DEF date
  <2> QED
    BY <2>1, <2>2, <2>3, <2>4, <2>6
<1>7. t.sc \notin {"MINUTE", "HOURLY"} /\ t.at \in DayMinutes
  BY <1>2
<1> HIDE DEF t
<1>8. Aligned(e) /\ SameTimes(e, t)
  BY <1>1, <1>6, <1>7, DayByDay
<1>9. at \in DayMinutes /\ day \in 1 .. 31 /\ months \subseteq 1 .. 12
  BY <1>1, <1>2, <1>3
<1> QED
  BY <1>4, <1>5, <1>8, <1>9 DEF t

LEMMA CronAsWritten ==
    ASSUME NEW e \in CronExpression, CompileCron(e) # Refused
    PROVE  Aligned(e) <=> SameTimes(e, CompileCron(e))
<1>1. IsMinuteStep(e) \/ IsHourStep(e) \/ IsDaily(e) \/ IsWeekly(e) \/ IsMonthly(e)
  BY DEF CompileCron
<1> QED
  BY <1>1, MinuteStepAsWritten, HourStepAsWritten, DailyAsWritten, WeeklyAsWritten,
     MonthlyAsWritten

-----------------------------------------------------------------------------
(* The compiler *)

\* The trigger is the one of the schedule, and the schedule is one the caller can name.
Typed == config \in ScheduleConfig /\ trigger \in {Pending, CompileSchedule(config)}

LEMMA TypedHolds == Spec => []Typed
<1>1. Init => Typed
  BY ScheduleConstants DEF Init, Typed
<1>2. Typed /\ [Next]_vars => Typed'
  BY DEF Typed, Next, Compile, vars
<1> QED
  BY <1>1, <1>2, PTL DEF Spec

\* What the compiler answers to a cron expression is compile_cron's answer.
LEMMA CronConfig ==
    ASSUME Typed, Accepted, config.kind = "cron"
    PROVE  /\ config.cron \in CronExpression
           /\ trigger = CompileCron(config.cron) /\ CompileCron(config.cron) # Refused
<1>1. config.cron \in CronExpression
  BY DEF Typed, ScheduleConfig
<1>2. trigger = CompileSchedule(config) /\ trigger # Refused
  BY DEF Typed, Accepted
<1>3. CompileSchedule(config) = CompileCron(config.cron)
  BY DEF CompileSchedule
<1> QED
  BY <1>1, <1>2, <1>3

(* compile_cron takes an expression only as a trigger that fires when the expression says: a      *)
(* calendar expression at exactly its times, for every set of days and months, and a step at      *)
(* exactly its times if and only if it divides the hour or the day and starts within its first    *)
(* period -- whatever the step, the start and the minute.                                         *)
THEOREM FiresAsItSays == Spec => []FiresAsWritten
<1>1. Typed => FiresAsWritten
  BY CronConfig, CronAsWritten DEF FiresAsWritten
<1> QED
  BY <1>1, TypedHolds, PTL

-----------------------------------------------------------------------------
(* The calendar *)

\* The first day of the k-th month of a year that has no 29 February.
DaysBefore(k) ==
    CASE k = 0 -> 0 [] k = 1 -> 31 [] k = 2 -> 59 [] k = 3 -> 90 [] k = 4 -> 120 [] k = 5 -> 151
      [] k = 6 -> 181 [] k = 7 -> 212 [] k = 8 -> 243 [] k = 9 -> 273 [] k = 10 -> 304
      [] OTHER -> 334

\* The first day of the k-th month of year y, of the four years of which the first is a leap year.
StartOf(y, k) == 365 * y + DaysBefore(k) + (IF y = 0 /\ k < 2 THEN 0 ELSE 1)

StartOfMonth(i) == StartOf(i \div 12, i % 12)

LEMMA YearAndMonth ==
    ASSUME NEW i \in 0 .. 48
    PROVE  /\ i \in Nat /\ i \div 12 \in 0 .. 4 /\ i % 12 \in 0 .. 11
           /\ i = 12 * (i \div 12) + (i % 12) /\ (i \div 12 = 4 => i % 12 = 0)
OBVIOUS

LEMMA NextMonth ==
    ASSUME NEW i \in 0 .. 47
    PROVE  /\ i + 1 \in 1 .. 48
           /\ i % 12 < 11 => (i + 1) \div 12 = i \div 12 /\ (i + 1) % 12 = (i % 12) + 1
           /\ i % 12 = 11 => (i + 1) \div 12 = i \div 12 + 1 /\ (i + 1) % 12 = 0
OBVIOUS

LEMMA StartOfNextMonth ==
    ASSUME NEW i \in 0 .. 47
    PROVE  StartOfMonth(i + 1) = StartOfMonth(i) + LengthOf(i)
<1> DEFINE y == i \div 12
           k == i % 12
           y1 == (i + 1) \div 12
           k1 == (i + 1) % 12
<1>1. y \in 0 .. 3 /\ k \in 0 .. 11
  BY YearAndMonth
<1>2. k < 11 => y1 = y /\ k1 = k + 1
  BY NextMonth
<1>3. k = 11 => y1 = y + 1 /\ k1 = 0
  BY NextMonth
<1>4. LengthOf(i) = CASE k + 1 = 2 -> IF y % 4 = 0 THEN 29 ELSE 28
                      [] k + 1 \in {4, 6, 9, 11} -> 30
                      [] OTHER -> 31
  BY Zenon DEF LengthOf, MonthOf
<1>5. StartOfMonth(i + 1) = StartOf(y1, k1) /\ StartOfMonth(i) = StartOf(y, k)
  BY Zenon DEF StartOfMonth
<1> HIDE DEF y, k, y1, k1
<1>6. y % 4 = 0 <=> y = 0
  BY <1>1
<1>7. StartOf(y1, k1) = StartOf(y, k) + LengthOf(i)
  <2>1. CASE k = 11
    BY <1>1, <1>3, <1>4, <1>6, <2>1 DEF StartOf, DaysBefore
  <2>2. CASE k < 11
    <3>1. y1 = y /\ k1 = k + 1
      BY <1>2, <2>2
    <3> QED
      BY <1>1, <1>4, <1>6, <2>2, <3>1 DEF StartOf, DaysBefore
  <2> QED
    BY <1>1, <2>1, <2>2
<1> QED
  BY <1>5, <1>7

LEMMA StartIsNat ==
    ASSUME NEW i \in 0 .. 48
    PROVE  StartOfMonth(i) \in Nat
<1> DEFINE y == i \div 12
           k == i % 12
<1>1. y \in 0 .. 4 /\ k \in 0 .. 11
  BY YearAndMonth
<1>2. StartOfMonth(i) = StartOf(y, k)
  BY DEF StartOfMonth
<1> HIDE DEF y, k
<1> QED
  BY <1>1, <1>2 DEF StartOf, DaysBefore

\* The months of the first year.
LEMMA FirstYear ==
    ASSUME NEW i \in 0 .. 12
    PROVE  StartOfMonth(i) =
             CASE i = 0 -> 0 [] i = 1 -> 31 [] i = 2 -> 60 [] i = 3 -> 91 [] i = 4 -> 121
               [] i = 5 -> 152 [] i = 6 -> 182 [] i = 7 -> 213 [] i = 8 -> 244 [] i = 9 -> 274
               [] i = 10 -> 305 [] i = 11 -> 335 [] OTHER -> 366
<1>1. CASE i = 12
  <2>1. i \div 12 = 1 /\ i % 12 = 0
    BY <1>1
  <2> QED
    BY <1>1, <2>1 DEF StartOfMonth, StartOf, DaysBefore
<1>2. CASE i \in 0 .. 11
  <2>1. i \div 12 = 0 /\ i % 12 = i
    BY <1>2
  <2>2. StartOfMonth(i) = StartOf(0, i)
    BY <2>1 DEF StartOfMonth
  <2> QED
    BY <1>2, <2>2 DEF StartOf, DaysBefore
<1> QED
  BY <1>1, <1>2

\* No month starts within a month of the first year.
LEMMA MonthsApart ==
    ASSUME NEW i \in 0 .. 11, NEW j \in 0 .. 48
    PROVE  /\ j <= i => StartOfMonth(j) <= StartOfMonth(i)
           /\ i + 1 <= j => StartOfMonth(i + 1) <= StartOfMonth(j)
<1>1. CASE j \in 0 .. 12
  <2>1. i \in 0 .. 12 /\ i + 1 \in 0 .. 12
    OBVIOUS
  <2> QED
    BY <1>1, <2>1, FirstYear
<1>2. CASE j \in 13 .. 48
  <2> DEFINE y == j \div 12
             k == j % 12
  <2>1. y \in 1 .. 4 /\ k \in 0 .. 11
    BY <1>2
  <2>2. StartOfMonth(j) = StartOf(y, k)
    BY DEF StartOfMonth
  <2> HIDE DEF y, k
  <2>3. StartOfMonth(j) >= 366
    BY <2>1, <2>2 DEF StartOf, DaysBefore
  <2>4. StartOfMonth(i + 1) <= 366 /\ StartOfMonth(i + 1) \in Nat /\ StartOfMonth(j) \in Nat
    <3>1. i + 1 \in 0 .. 12 /\ i + 1 \in 0 .. 48
      OBVIOUS
    <3>2. StartOfMonth(i + 1) \in Nat /\ StartOfMonth(j) \in Nat
      BY <3>1, StartIsNat
    <3>3. StartOfMonth(i + 1) <= 366
      BY <3>1, FirstYear
    <3> QED
      BY <3>2, <3>3
  <2> QED
    BY <1>2, <2>3, <2>4
<1> QED
  BY <1>1, <1>2

\* A set of natural numbers with a member has a least one.
LEMMA LeastNumber ==
    ASSUME NEW T, T \subseteq Nat, T # {}
    PROVE  \E x \in T : \A y \in T : x <= y
<1> DEFINE R == OpToRel(<, Nat)
<1>1. PICK x \in T : \A y \in T : ~ (<<y, x>> \in R)
  BY NatLessThanWellFounded, WFMin
<1>2. R = {ss \in Nat \X Nat : ss[1] < ss[2]}
  BY DEF OpToRel
<1> HIDE DEF R
<1>3. \A y \in T : ~(y < x)
  BY <1>1, <1>2
<1> QED
  BY <1>1, <1>3

\* The months start where the recursion of the calendar says.
LEMMA MonthStarts == \A i \in 0 .. 48 : MonthStart[i] = StartOfMonth(i)
<1> DEFINE Next1(f) == [i \in 0 .. 48 |-> IF i = 0 THEN 0 ELSE f[i - 1] + LengthOf(i - 1)]
           S == [i \in 0 .. 48 |-> StartOfMonth(i)]
<1>1. StartOfMonth(0) = 0
  BY FirstYear
<1>2. ASSUME NEW i \in 0 .. 48, i # 0
      PROVE  StartOfMonth(i) = StartOfMonth(i - 1) + LengthOf(i - 1)
  <2>1. i - 1 \in 0 .. 47 /\ (i - 1) + 1 = i
    BY <1>2
  <2>2. StartOfMonth((i - 1) + 1) = StartOfMonth(i - 1) + LengthOf(i - 1)
    BY <2>1, StartOfNextMonth
  <2> QED
    BY <2>1, <2>2
<1>3. S = Next1(S)
  <2>1. ASSUME NEW i \in 0 .. 48
        PROVE  S[i] = IF i = 0 THEN 0 ELSE S[i - 1] + LengthOf(i - 1)
    <3>1. CASE i = 0
      BY <1>1, <3>1
    <3>2. CASE i # 0
      <4>1. i - 1 \in 0 .. 48
        BY <3>2
      <4>2. S[i] = StartOfMonth(i) /\ S[i - 1] = StartOfMonth(i - 1)
        BY <4>1
      <4> HIDE DEF S
      <4> QED
        BY <1>2, <3>2, <4>2
    <3> QED
      BY <3>1, <3>2
  <2>2. S = [i \in 0 .. 48 |-> S[i]]
    OBVIOUS
  <2> HIDE DEF S
  <2> QED
    BY <2>1, <2>2
<1>4. MonthStart = CHOOSE f : f = Next1(f)
  BY DEF MonthStart
<1>5. MonthStart = Next1(MonthStart)
  <2> HIDE DEF S, Next1
  <2> QED
    BY <1>3, <1>4
<1>6. /\ MonthStart[0] = 0
      /\ \A i \in 0 .. 48 : i # 0 => MonthStart[i] = MonthStart[i - 1] + LengthOf(i - 1)
  <2>1. \A i \in 0 .. 48 : Next1(MonthStart)[i] =
          IF i = 0 THEN 0 ELSE MonthStart[i - 1] + LengthOf(i - 1)
    OBVIOUS
  <2> HIDE DEF Next1
  <2> QED
    BY <1>5, <2>1
<1> DEFINE T == {i \in 0 .. 48 : MonthStart[i] # StartOfMonth(i)}
<1>7. SUFFICES ASSUME T # {} PROVE FALSE
  BY DEF T
<1>8. PICK i \in T : \A j \in T : i <= j
  <2>1. T \subseteq Nat
    OBVIOUS
  <2> HIDE DEF T
  <2> QED
    BY <1>7, <2>1, LeastNumber
<1>9. i \in 0 .. 48 /\ i # 0 /\ i - 1 \in 0 .. 48 /\ ~(i <= i - 1)
  <2>1. i \in 0 .. 48 /\ i # 0
    BY <1>1, <1>6
  <2> QED
    BY <2>1
<1>10. MonthStart[i - 1] = StartOfMonth(i - 1)
  BY <1>8, <1>9
<1>11. MonthStart[i] = StartOfMonth(i)
  BY <1>2, <1>6, <1>9, <1>10
<1> QED
  BY <1>11

\* Day number `day` of the i-th month of the first year is where the calendar has it.
LEMMA DayOfFirstYear ==
    ASSUME NEW i \in 0 .. 11, NEW day \in 1 .. LengthOf(i)
    PROVE  LET d == StartOfMonth(i) + day - 1
           IN  /\ d \in 0 .. LastDate
               /\ Calendar[d].month = i + 1 /\ Calendar[d].day = day
               /\ day = LengthOf(i) => Calendar[d].last
<1> DEFINE d == StartOfMonth(i) + day - 1
           This(j) == MonthStart[j] <= d /\ d < MonthStart[j + 1]
           c == CHOOSE j \in 0 .. 47 : This(j)
<1>1. /\ StartOfMonth(i) \in Nat /\ StartOfMonth(i + 1) \in Nat /\ LengthOf(i) \in Nat
      /\ StartOfMonth(i + 1) = StartOfMonth(i) + LengthOf(i) /\ StartOfMonth(i + 1) <= 366
      /\ MonthStart[i] = StartOfMonth(i) /\ MonthStart[i + 1] = StartOfMonth(i + 1)
  <2>1. i \in 0 .. 47 /\ i \in 0 .. 48 /\ i + 1 \in 0 .. 48 /\ i + 1 \in 0 .. 12
    OBVIOUS
  <2>2. StartOfMonth(i) \in Nat /\ StartOfMonth(i + 1) \in Nat
    BY <2>1, StartIsNat
  <2>3. StartOfMonth(i + 1) = StartOfMonth(i) + LengthOf(i)
    BY <2>1, StartOfNextMonth
  <2>4. MonthStart[i] = StartOfMonth(i) /\ MonthStart[i + 1] = StartOfMonth(i + 1)
    BY <2>1, MonthStarts
  <2>5. StartOfMonth(i + 1) <= 366
    BY <2>1, FirstYear
  <2>6. LengthOf(i) \in Nat
    BY DEF LengthOf
  <2> QED
    BY <2>2, <2>3, <2>4, <2>5, <2>6
<1>2. d \in Nat /\ StartOfMonth(i) <= d /\ d < StartOfMonth(i + 1) /\ d = StartOfMonth(i) + day - 1
  BY <1>1
<1>3. d \in 0 .. LastDate
  <2>1. LastDate \in Nat /\ LastDate >= 365
    BY ScheduleConstants
  <2> HIDE DEF d
  <2> QED
    BY <1>1, <1>2, <2>1
<1> HIDE DEF d
<1>4. This(i) /\ i \in 0 .. 47
  BY <1>1, <1>2
<1>5. ASSUME NEW j \in 0 .. 47, This(j)
      PROVE  j = i
  <2>1. j \in 0 .. 48 /\ j + 1 \in 0 .. 48
    OBVIOUS
  <2>2. /\ MonthStart[j] = StartOfMonth(j) /\ MonthStart[j + 1] = StartOfMonth(j + 1)
        /\ StartOfMonth(j) \in Nat /\ StartOfMonth(j + 1) \in Nat
    BY <2>1, MonthStarts, StartIsNat
  <2>3. ~(i + 1 <= j)
    BY <1>1, <1>2, <1>5, <2>1, <2>2, MonthsApart
  <2>4. ~(j + 1 <= i)
    BY <1>1, <1>2, <1>5, <2>1, <2>2, MonthsApart
  <2> QED
    BY <2>3, <2>4
<1>6. c = i
  <2> HIDE DEF This
  <2>1. c \in 0 .. 47 /\ This(c)
    BY <1>4
  <2> HIDE DEF c
  <2> QED
    BY <1>5, <2>1
<1>7. Calendar[d] = [month |-> MonthOf(c), day |-> d - MonthStart[c] + 1,
                     last |-> d + 1 = MonthStart[c + 1], weekday |-> (d % 7) + 1]
  BY <1>3, Zenon DEF Calendar
<1>8. /\ Calendar[d].month = MonthOf(i) /\ Calendar[d].day = d - MonthStart[i] + 1
      /\ Calendar[d].last <=> d + 1 = MonthStart[i + 1]
  <2> DEFINE date == Calendar[d]
  <2>1. date = [month |-> MonthOf(c), day |-> d - MonthStart[c] + 1,
                last |-> d + 1 = MonthStart[c + 1], weekday |-> (d % 7) + 1]
    BY <1>7
  <2> HIDE DEF c, date
  <2>2. date.last <=> d + 1 = MonthStart[c + 1]
    BY <2>1
  <2>3. date.month = MonthOf(c) /\ date.day = d - MonthStart[c] + 1
    BY <2>1
  <2> QED
    BY <1>6, <2>2, <2>3 DEF date
<1>9. MonthOf(i) = i + 1
  BY DEF MonthOf
<1>10. Calendar[d].month = i + 1 /\ Calendar[d].day = day
  BY <1>1, <1>2, <1>8, <1>9
<1>11. day = LengthOf(i) => Calendar[d].last
  <2>1. day = LengthOf(i) => d + 1 = MonthStart[i + 1]
    BY <1>1, <1>2
  <2> QED
    BY <1>8, <2>1
<1> QED
  BY <1>3, <1>10, <1>11 DEF d

\* In the first year no month is shorter than Month::maximum_day says.
LEMMA LengthIsMaximum ==
    ASSUME NEW month \in 1 .. 12
    PROVE  month - 1 \in 0 .. 11 /\ LengthOf(month - 1) = MaximumDay(month)
<1> DEFINE i == month - 1
<1>1. i \in 0 .. 11 /\ i % 12 = i /\ i \div 12 = 0 /\ i + 1 = month
  OBVIOUS
<1> HIDE DEF i
<1>2. MonthOf(i) = month /\ i \div 12 % 4 = 0
  BY <1>1 DEF MonthOf
<1>3. LengthOf(i) = MaximumDay(month)
  BY <1>2 DEF LengthOf, MaximumDay
<1> QED
  BY <1>1, <1>3 DEF i

\* Day d is that day of the month, or its last.
IsDate(d, month, day) ==
    /\ Calendar[d].month = month
    /\ IF day = LastDay THEN Calendar[d].last ELSE Calendar[d].day = day

\* Every day a month can have, and its last day, is in the calendar.
LEMMA DayExists ==
    ASSUME NEW month \in 1 .. 12, NEW day \in 1 .. 31 \union {LastDay},
           day # LastDay => day <= MaximumDay(month)
    PROVE  \E d \in 0 .. LastDate : IsDate(d, month, day)
<1> DEFINE i == month - 1
           n == IF day = LastDay THEN MaximumDay(month) ELSE day
           d == StartOfMonth(i) + n - 1
<1>1. i \in 0 .. 11 /\ LengthOf(i) = MaximumDay(month) /\ i + 1 = month
  BY LengthIsMaximum
<1>2. MaximumDay(month) \in Nat /\ MaximumDay(month) >= 1
  BY DEF MaximumDay
<1>3. n \in 1 .. LengthOf(i)
  BY <1>1, <1>2
<1> HIDE DEF i, n
<1>4. /\ d \in 0 .. LastDate /\ Calendar[d].month = month /\ Calendar[d].day = n
      /\ n = LengthOf(i) => Calendar[d].last
  BY <1>1, <1>3, DayOfFirstYear
<1> HIDE DEF d
<1> QED
  BY <1>1, <1>4 DEF n, IsDate

-----------------------------------------------------------------------------
(* The triggers the compiler makes *)

DailyTrigger(t) == t.sc = "DAILY" /\ t.every \in Nat \ {0}

WeeklyTrigger(t) ==
    t.sc = "WEEKLY" /\ t.every \in Nat \ {0} /\ t.days \subseteq 1 .. 7 /\ t.days # {}

\* Every month it lists has its day.
MonthlyTrigger(t) ==
    /\ t.sc = "MONTHLY" /\ t.day \in 1 .. 31 \union {LastDay} /\ t.months \subseteq 1 .. 12
    /\ t.day # LastDay => \A m \in t.months : t.day <= MaximumDay(m)

IntervalTrigger(t) ==
    t.sc \in {"MINUTE", "HOURLY"} /\ t.every \in Nat \ {0} /\ t.at \in DayMinutes

\* Its minutes have four digits, and with the seconds they are the delay.
EventTrigger(t, delay) ==
    /\ t.sc \in {"ONLOGON", "ONSTART"}
    /\ t.minutes <= 9999 /\ 60 * t.minutes + t.seconds = delay

ClockTrigger(t) ==
    DailyTrigger(t) \/ WeeklyTrigger(t) \/ MonthlyTrigger(t) \/ IntervalTrigger(t)

LEMMA DailyForm ==
    ASSUME NEW at, NEW every, CompileDaily(at, every) # Refused
    PROVE  DailyTrigger(CompileDaily(at, every))
BY DEF CompileDaily, DailyTrigger

LEMMA WeeklyForm ==
    ASSUME NEW at, NEW every, NEW days, days \subseteq 1 .. 7,
           CompileWeekly(at, every, days) # Refused
    PROVE  WeeklyTrigger(CompileWeekly(at, every, days))
<1> DEFINE t == [sc |-> "WEEKLY", every |-> every, at |-> at, days |-> days]
<1>1. CompileWeekly(at, every, days) = t /\ every \in Nat \ {0} /\ days # {}
  BY DEF CompileWeekly
<1>2. t.sc = "WEEKLY" /\ t.every = every /\ t.days = days
  OBVIOUS
<1> HIDE DEF t
<1> QED
  BY <1>1, <1>2 DEF WeeklyTrigger

LEMMA MonthlyForm ==
    ASSUME NEW at, NEW day \in Int, NEW months, months \subseteq 1 .. 12,
           CompileMonthly(at, day, months) # Refused
    PROVE  MonthlyTrigger(CompileMonthly(at, day, months))
<1> DEFINE t == [sc |-> "MONTHLY", at |-> at, day |-> day, months |-> months]
<1>1. /\ CompileMonthly(at, day, months) = t
      /\ day = LastDay \/ (day \in 1 .. 31 /\ \A m \in months : day <= MaximumDay(m))
  BY DEF CompileMonthly
<1>2. t.sc = "MONTHLY" /\ t.day = day /\ t.months = months
  OBVIOUS
<1> HIDE DEF t
<1>3. t.day \in 1 .. 31 \union {LastDay} /\ t.months \subseteq 1 .. 12
  BY <1>1, <1>2
<1>4. t.day # LastDay => \A m \in t.months : t.day <= MaximumDay(m)
  BY <1>1, <1>2
<1> QED
  BY <1>1, <1>2, <1>3, <1>4 DEF MonthlyTrigger

LEMMA IntervalForm ==
    ASSUME NEW unit \in {"MINUTE", "HOURLY"}, NEW every, NEW at,
           CompileInterval(unit, every, at) # Refused
    PROVE  IntervalTrigger(CompileInterval(unit, every, at))
<1> DEFINE t == [sc |-> unit, every |-> every, at |-> at]
<1>1. CompileInterval(unit, every, at) = t /\ at \in DayMinutes /\ every \in Nat \ {0}
  BY DEF CompileInterval, IsTime, DayMinutes
<1>2. t.sc = unit /\ t.every = every /\ t.at = at
  OBVIOUS
<1> HIDE DEF t
<1> QED
  BY <1>1, <1>2 DEF IntervalTrigger

LEMMA EventForm ==
    ASSUME NEW sc \in {"ONLOGON", "ONSTART"}, NEW delay \in Nat,
           CompileEvent(sc, delay) # Refused
    PROVE  EventTrigger(CompileEvent(sc, delay), delay)
<1> DEFINE t == [sc |-> sc, minutes |-> delay \div 60, seconds |-> delay % 60]
<1>1. CompileEvent(sc, delay) = t /\ ~(delay > MaxTriggerDelay)
  BY DEF CompileEvent
<1>2. t.sc = sc /\ t.minutes = delay \div 60 /\ t.seconds = delay % 60
  OBVIOUS
<1> HIDE DEF t
<1>3. delay \div 60 <= 9999 /\ 60 * (delay \div 60) + (delay % 60) = delay
  BY <1>1 DEF MaxTriggerDelay
<1> QED
  BY <1>1, <1>2, <1>3 DEF EventTrigger

LEMMA CronForm ==
    ASSUME NEW e \in CronExpression, CompileCron(e) # Refused
    PROVE  ClockTrigger(CompileCron(e))
<1>1. CASE IsMinuteStep(e)
  <2> DEFINE t == [sc |-> "MINUTE", every |-> e.minute.by, at |-> 0]
  <2>1. CompileCron(e) = t
    BY <1>1, MinuteStepAsWritten
  <2>2. t.sc = "MINUTE" /\ t.every \in Nat \ {0} /\ t.at \in DayMinutes
    BY <1>1 DEF IsMinuteStep, DayMinutes
  <2> HIDE DEF t
  <2> QED
    BY <2>1, <2>2 DEF ClockTrigger, IntervalTrigger
<1>2. CASE IsHourStep(e)
  <2> DEFINE t == [sc |-> "HOURLY", every |-> e.hour.by, at |-> 60 * FirstHour(e) + e.minute.n]
  <2>1. CompileCron(e) = t
    BY <1>2, HourStepAsWritten
  <2>2. FirstHour(e) \in 0 .. 23 /\ e.minute.n \in 0 .. 59 /\ e.hour.by \in Nat \ {0}
    BY <1>2 DEF IsHourStep, IsExact, FirstHour, Star
  <2>3. t.sc = "HOURLY" /\ t.every \in Nat \ {0} /\ t.at \in DayMinutes
    BY <2>2 DEF DayMinutes
  <2> HIDE DEF t
  <2> QED
    BY <2>1, <2>3 DEF ClockTrigger, IntervalTrigger
<1>3. CASE IsDaily(e)
  <2> DEFINE t == [sc |-> "DAILY", every |-> 1, at |-> 60 * e.hour.n + e.minute.n]
  <2>1. CompileCron(e) = t
    BY <1>3, DailyAsWritten
  <2>2. t.sc = "DAILY" /\ t.every = 1
    OBVIOUS
  <2> HIDE DEF t
  <2> QED
    BY <2>1, <2>2 DEF ClockTrigger, DailyTrigger
<1>4. CASE IsWeekly(e)
  <2> DEFINE t == [sc |-> "WEEKLY", every |-> 1, at |-> 60 * e.hour.n + e.minute.n,
                   days |-> Weekdays(e.dow)]
  <2>1. CompileCron(e) = t /\ Weekdays(e.dow) \subseteq 1 .. 7 /\ Weekdays(e.dow) # {}
    BY <1>4, WeeklyAsWritten
  <2>2. t.sc = "WEEKLY" /\ t.every = 1 /\ t.days = Weekdays(e.dow)
    OBVIOUS
  <2> HIDE DEF t
  <2> QED
    BY <2>1, <2>2 DEF ClockTrigger, WeeklyTrigger
<1>5. CASE IsMonthly(e) /\ ~IsDaily(e)
  <2>1. /\ CompileCron(e) = CompileMonthly(60 * e.hour.n + e.minute.n, e.dom.n, MonthsOf(e))
        /\ e.dom.n \in 1 .. 31 /\ MonthsOf(e) \subseteq 1 .. 12
    BY <1>5, MonthlyAsWritten
  <2> QED
    BY <2>1, MonthlyForm DEF ClockTrigger
<1> QED
  BY <1>1, <1>2, <1>3, <1>4, <1>5 DEF CompileCron

LEMMA TriggerForm ==
    ASSUME Typed, Accepted
    PROVE  ClockTrigger(trigger) \/ EventTrigger(trigger, config.delay)
<1> DEFINE c == config
<1>1. trigger = CompileSchedule(c) /\ trigger # Refused /\ c \in ScheduleConfig
  BY DEF Typed, Accepted
<1> HIDE DEF c
<1>2. CASE c.kind = "daily"
  BY <1>1, <1>2, DailyForm DEF CompileSchedule, ClockTrigger
<1>3. CASE c.kind = "weekly"
  <2>1. c.days \subseteq 1 .. 7
    BY <1>1, <1>3 DEF ScheduleConfig
  <2>2. trigger = CompileWeekly(c.at, c.every, c.days)
    BY <1>1, <1>3 DEF CompileSchedule
  <2> QED
    BY <1>1, <2>1, <2>2, WeeklyForm DEF ClockTrigger
<1>4. CASE c.kind = "monthly"
  <2>1. c.months \subseteq 1 .. 12 /\ c.day \in Int
    BY <1>1, <1>4 DEF ScheduleConfig, LastDay
  <2>2. trigger = CompileMonthly(c.at, c.day, c.months)
    BY <1>1, <1>4 DEF CompileSchedule
  <2> QED
    BY <1>1, <2>1, <2>2, MonthlyForm DEF ClockTrigger
<1>5. CASE c.kind = "interval"
  <2>1. c.unit \in {"MINUTE", "HOURLY"}
    BY <1>1, <1>5 DEF ScheduleConfig
  <2>2. trigger = CompileInterval(c.unit, c.every, c.at)
    BY <1>1, <1>5 DEF CompileSchedule
  <2> QED
    BY <1>1, <2>1, <2>2, IntervalForm DEF ClockTrigger
<1>6. CASE c.kind = "event"
  <2>1. c.sc \in {"ONLOGON", "ONSTART"} /\ c.delay \in Nat
    BY <1>1, <1>6 DEF ScheduleConfig
  <2>2. trigger = CompileEvent(c.sc, c.delay)
    BY <1>1, <1>6 DEF CompileSchedule
  <2> QED
    BY <1>1, <2>1, <2>2, EventForm DEF c
<1>7. CASE c.kind = "cron"
  <2>1. c.cron \in CronExpression
    BY <1>1, <1>7 DEF ScheduleConfig
  <2>2. trigger = CompileCron(c.cron)
    BY <1>1, <1>7 DEF CompileSchedule
  <2> QED
    BY <1>1, <2>1, <2>2, CronForm
<1>8. c.kind \in {"daily", "weekly", "monthly", "interval", "event", "cron"}
  BY <1>1 DEF ScheduleConfig
<1> QED
  BY <1>2, <1>3, <1>4, <1>5, <1>6, <1>7, <1>8

-----------------------------------------------------------------------------
(* No trigger is dead *)

LEMMA DayZero == 0 \in 0 .. LastDate /\ \A d \in 0 .. 6 : d \in 0 .. LastDate
BY ScheduleConstants

LEMMA DailyFires ==
    ASSUME NEW t, DailyTrigger(t)
    PROVE  \E d \in 0 .. LastDate : Fires(t, d, t.at)
<1>1. 0 % t.every = 0
  BY DEF DailyTrigger
<1>2. Fires(t, 0, t.at)
  BY <1>1 DEF Fires, DailyTrigger
<1> QED
  BY <1>2, DayZero

LEMMA IntervalFires ==
    ASSUME NEW t, IntervalTrigger(t)
    PROVE  \E d \in 0 .. LastDate : Fires(t, d, t.at)
<1>1. ASSUME NEW minutes \in Nat \ {0}
      PROVE  FiresEvery(minutes, t, 0, t.at)
  <2>1. t.at \in Int
    BY SMTT(30) DEF IntervalTrigger, DayMinutes
  <2>2. 1440 * 0 + t.at - t.at = 0 /\ 0 % minutes = 0
    BY <2>1
  <2> QED
    BY <2>2 DEF FiresEvery
<1>2. t.every \in Nat \ {0} /\ 60 * t.every \in Nat \ {0}
  BY DEF IntervalTrigger
<1>3. Fires(t, 0, t.at)
  BY <1>1, <1>2 DEF Fires, IntervalTrigger
<1> QED
  BY <1>3, DayZero

LEMMA WeeklyFires ==
    ASSUME NEW t, WeeklyTrigger(t)
    PROVE  \E d \in 0 .. LastDate : Fires(t, d, t.at)
<1>1. PICK w \in t.days : w \in 1 .. 7
  BY DEF WeeklyTrigger
<1> DEFINE d == w - 1
<1>2. d \in 0 .. 6 /\ (d % 7) + 1 = w /\ d \div 7 = 0
  BY <1>1
<1> HIDE DEF d
<1>3. d \in 0 .. LastDate
  BY <1>2, DayZero
<1>4. Calendar[d].weekday = w
  BY <1>2, <1>3, WeekdayOf
<1>5. (d \div 7) % t.every = 0
  BY <1>2 DEF WeeklyTrigger
<1>6. Fires(t, d, t.at)
  BY <1>1, <1>4, <1>5 DEF Fires, WeeklyTrigger
<1> QED
  BY <1>3, <1>6

LEMMA MonthlyFires ==
    ASSUME NEW t, MonthlyTrigger(t),
           NEW month \in IF t.months = {} THEN {1} ELSE t.months
    PROVE  \E d \in 0 .. LastDate : Calendar[d].month = month /\ Fires(t, d, t.at)
<1>1. /\ t.sc = "MONTHLY" /\ t.day \in 1 .. 31 \union {LastDay} /\ month \in 1 .. 12
      /\ t.day # LastDay => t.day <= MaximumDay(month)
  <2>1. MaximumDay(1) = 31
    BY DEF MaximumDay
  <2> QED
    BY <2>1 DEF MonthlyTrigger
<1>2. PICK d \in 0 .. LastDate : IsDate(d, month, t.day)
  <2> DEFINE day == t.day
  <2>1. day \in 1 .. 31 \union {LastDay} /\ (day # LastDay => day <= MaximumDay(month))
    BY <1>1
  <2> HIDE DEF day
  <2>2. \E d \in 0 .. LastDate : IsDate(d, month, day)
    BY <1>1, <2>1, DayExists
  <2> QED
    BY <2>2 DEF day
<1>3. \/ t.months = {}
      \/ month \in t.months
  OBVIOUS
<1>4. Fires(t, d, t.at)
  BY <1>1, <1>2, <1>3 DEF Fires, IsDate
<1> QED
  BY <1>2, <1>4 DEF IsDate

(* No schedule the compiler accepts is dead: its trigger fires at its time on some day of four    *)
(* years, if it lists months in each of them -- also on the 31st, the 29 February and the last     *)
(* day of a month -- and the delay of an event is what its minutes and seconds say.                *)
THEOREM NoDeadSchedule == Spec => []NeverDead
<1>1. ASSUME Typed, Accepted
      PROVE  CASE trigger.sc = "MONTHLY" ->
                    \A month \in IF trigger.months = {} THEN {1} ELSE trigger.months :
                        \E d \in 0 .. LastDate :
                            Calendar[d].month = month /\ Fires(trigger, d, trigger.at)
               [] trigger.sc \in {"ONLOGON", "ONSTART"} ->
                    trigger.minutes <= 9999
                      /\ 60 * trigger.minutes + trigger.seconds = config.delay
               [] OTHER -> \E d \in 0 .. LastDate : Fires(trigger, d, trigger.at)
  <2>1. CASE DailyTrigger(trigger) \/ WeeklyTrigger(trigger) \/ IntervalTrigger(trigger)
    <3>1. trigger.sc \notin {"MONTHLY", "ONLOGON", "ONSTART"}
      BY <2>1 DEF DailyTrigger, WeeklyTrigger, IntervalTrigger
    <3>2. \E d \in 0 .. LastDate : Fires(trigger, d, trigger.at)
      BY <2>1, DailyFires, WeeklyFires, IntervalFires
    <3> QED
      BY <3>1, <3>2
  <2>2. CASE MonthlyTrigger(trigger)
    <3>1. trigger.sc = "MONTHLY"
      BY <2>2 DEF MonthlyTrigger
    <3>2. \A month \in IF trigger.months = {} THEN {1} ELSE trigger.months :
            \E d \in 0 .. LastDate :
                Calendar[d].month = month /\ Fires(trigger, d, trigger.at)
      BY <2>2, MonthlyFires
    <3> QED
      BY <3>1, <3>2
  <2>3. CASE EventTrigger(trigger, config.delay)
    BY <2>3 DEF EventTrigger
  <2> QED
    BY <1>1, <2>1, <2>2, <2>3, TriggerForm DEF ClockTrigger
<1>2. Typed => NeverDead
  BY <1>1 DEF NeverDead
<1> QED
  BY <1>2, TypedHolds, PTL
=============================================================================
