-------------------------- MODULE SchedulerProofs --------------------------
(***************************************************************************)
(* Proofs about Scheduler, for any schedules, plans, holidays, windows,    *)
(* lengths of days and weeks, and any number of edits, restarts and failed *)
(* statements.  Typed, copies and freshness are inductive for all          *)
(* settings; the bound on reminders needs settings that share a zone; that *)
(* no lecture is forgotten and the countdown is true holds until the first *)
(* edit, and needs the arithmetic of dates, clocks and weeks.              *)
(***************************************************************************)
EXTENDS Scheduler, TLAPS

-----------------------------------------------------------------------------
(* Division.                                                               *)

\* A number is quotient and remainder.
LEMMA Division ==
  ASSUME NEW n \in Nat \ {0}, NEW a \in Int
  PROVE  a = n * (a \div n) + (a % n) /\ a % n \in 0..n - 1 /\ a \div n \in Int
OBVIOUS

\* A larger factor makes a larger product, by a multiple of the other one.
LEMMA Times ==
  ASSUME NEW n \in Nat \ {0}, NEW a \in Int, NEW b \in Int, a < b
  PROVE  n * a + n <= n * b
<1>1. PICK k \in Nat : b = a + 1 + k
  <2>1. b - a - 1 \in Nat /\ b = a + 1 + (b - a - 1)
    OBVIOUS
  <2> QED
    BY <2>1
<1>2. n * b = n * a + n + n * k /\ n * k >= 0
  BY <1>1
<1> QED
  BY <1>2

\* Quotient and remainder are unique.
LEMMA Unique ==
  ASSUME NEW n \in Nat \ {0}, NEW q \in Int, NEW p \in Int, NEW r \in 0..n - 1, NEW t \in 0..n - 1,
         n * q + r = n * p + t
  PROVE  q = p /\ r = t
<1>1. CASE q < p
  <2>1. n * q + n <= n * p
    BY <1>1, Times
  <2>2. PICK x \in Int, y \in Int : x = n * q /\ y = n * p
    OBVIOUS
  <2> QED
    BY <2>1, <2>2
<1>2. CASE p < q
  <2>1. n * p + n <= n * q
    BY <1>2, Times
  <2>2. PICK x \in Int, y \in Int : x = n * q /\ y = n * p
    OBVIOUS
  <2> QED
    BY <2>1, <2>2
<1>3. CASE p = q
  <2>2. PICK x \in Int : x = n * q /\ x = n * p
    BY <1>3
  <2> QED
    BY <1>3, <2>2
<1> QED
  BY <1>1, <1>2, <1>3

\* q and r are quotient and remainder of a, but for the bound on r.
Splits(a, n, q, r) == a = n * q + r

LEMMA Quotient ==
  ASSUME NEW n \in Nat \ {0}, NEW a \in Int, NEW q \in Int, NEW r \in 0..n - 1, Splits(a, n, q, r)
  PROVE  a \div n = q /\ a % n = r
<1>1. a = n * (a \div n) + (a % n) /\ a % n \in 0..n - 1 /\ a \div n \in Int
  BY Division
<1> QED
  BY <1>1, Unique DEF Splits

\* Min is the least element, where there is one.
LEMMA Smallest ==
  ASSUME NEW S \in SUBSET Int, NEW m \in S, \A y \in S : m <= y
  PROVE  Min(S) = m
<1>1. PICK x : x = Min(S)
  OBVIOUS
<1>2. x \in S /\ \A y \in S : x <= y
  BY <1>1 DEF Min
<1>3. x <= m /\ m <= x /\ x \in Int /\ m \in Int
  BY <1>2
<1> QED
  BY <1>1, <1>3

-----------------------------------------------------------------------------
(* Dates and clocks.                                                       *)

\* An instant is its date and its clock reading, in any zone.
LEMMA Dating ==
  ASSUME NEW w \in Configs, NEW i \in Int
  PROVE  /\ Today(w, i) \in Int /\ Clock(w, i) \in 0..DayLength - 1
         /\ i = Instant(w, Today(w, i), Clock(w, i))
<1>1. w.zone \in Nat /\ DayLength \in Nat \ {0}
  BY SchedulerAssumption
<1>2. PICK a \in Int : a = i + w.zone
  BY <1>1
<1>3. a = DayLength * (a \div DayLength) + (a % DayLength) /\ a % DayLength \in 0..DayLength - 1
      /\ a \div DayLength \in Int
  BY <1>1, <1>2, Division
<1>4. PICK q \in Int, r \in 0..DayLength - 1 : q = a \div DayLength /\ r = a % DayLength /\ a = DayLength * q + r
  BY <1>3
<1>5. Today(w, i) = q /\ Clock(w, i) = r
  BY <1>2, <1>4 DEF Today, Clock
<1>6. PICK x \in Int : x = DayLength * q /\ x = q * DayLength
  BY <1>1
<1>7. i = x + r - w.zone
  <2>1. a = x + r
    BY <1>4, <1>6
  <2> QED
    BY <1>1, <1>2, <1>6, <2>1
<1>8. Instant(w, q, r) = i
  BY <1>6, <1>7 DEF Instant
<1> QED
  BY <1>5, <1>8

\* A date and a clock reading are those of their instant.
LEMMA Timing ==
  ASSUME NEW w \in Configs, NEW d \in Int, NEW c \in 0..DayLength - 1
  PROVE  /\ Instant(w, d, c) \in Int
         /\ Today(w, Instant(w, d, c)) = d /\ Clock(w, Instant(w, d, c)) = c
<1>1. w.zone \in Nat /\ DayLength \in Nat \ {0}
  BY SchedulerAssumption
<1>2. PICK x \in Int : x = DayLength * d /\ x = d * DayLength
  BY <1>1
<1>3. PICK a \in Int : a = x + c
  BY <1>1, <1>2
<1>4. Instant(w, d, c) \in Int /\ Instant(w, d, c) + w.zone = a
  BY <1>1, <1>2, <1>3 DEF Instant
<1>5. Splits(a, DayLength, d, c)
  BY <1>2, <1>3 DEF Splits
<1>6. a \div DayLength = d /\ a % DayLength = c
  BY <1>1, <1>5, Quotient
<1> QED
  BY <1>4, <1>6 DEF Today, Clock

\* Instants are ordered by date, then by clock.
LEMMA Ordering ==
  ASSUME NEW w \in Configs, NEW d \in Int, NEW e \in Int,
         NEW b \in 0..DayLength - 1, NEW c \in 0..DayLength - 1
  PROVE  Instant(w, d, b) <= Instant(w, e, c) <=> (d < e \/ (d = e /\ b <= c))
<1>1. w.zone \in Nat /\ DayLength \in Nat \ {0}
  BY SchedulerAssumption
<1>2. PICK x \in Int, y \in Int : x = DayLength * d /\ y = DayLength * e /\ x = d * DayLength /\ y = e * DayLength
  BY <1>1
<1>3. Instant(w, d, b) = x + b - w.zone /\ Instant(w, e, c) = y + c - w.zone
  BY <1>1, <1>2 DEF Instant
<1>4. (d < e => x + DayLength <= y) /\ (e < d => y + DayLength <= x) /\ (d = e => x = y)
  BY <1>1, <1>2, Times
<1>5. b < DayLength /\ c < DayLength /\ b >= 0 /\ c >= 0 /\ b \in Int /\ c \in Int
  BY <1>1
<1>6. CASE d < e
  BY <1>1, <1>3, <1>4, <1>5, <1>6
<1>7. CASE d = e
  BY <1>1, <1>3, <1>4, <1>5, <1>7
<1>8. CASE e < d
  BY <1>1, <1>3, <1>4, <1>5, <1>8
<1> QED
  BY <1>6, <1>7, <1>8

-----------------------------------------------------------------------------
(* Weeks.                                                                  *)

\* The day of the week on which the reminder of p goes out.
FireDay(p) == IF p.mode = "H-1" THEN (p.day - 1 + WeekLength) % WeekLength ELSE p.day

\* The reminder goes out on a day of the week that is the lecture's, or the one before.
LEMMA FireDays ==
  ASSUME NEW p \in Plans, NEW d \in Int
  PROVE  /\ FireDay(p) \in 0..WeekLength - 1
         /\ LectureDate(p, d) \in Int
         /\ Weekday(LectureDate(p, d)) = p.day <=> d % WeekLength = FireDay(p)
<1>1. WeekLength \in Nat \ {0} /\ p.day \in 0..WeekLength - 1
  BY SchedulerAssumption
<1>2. PICK q \in Int, r \in 0..WeekLength - 1 : d = WeekLength * q + r
  BY <1>1, Division
<1>3. d % WeekLength = r
  BY <1>1, <1>2, Quotient DEF Splits
<1>4. CASE p.mode # "H-1"
  BY <1>1, <1>4 DEF FireDay, LectureDate, Weekday
<1>5. CASE p.mode = "H-1"
  <2>1. (d + 1) % WeekLength = IF r = WeekLength - 1 THEN 0 ELSE r + 1
    <3>1. CASE r = WeekLength - 1
      <4>1. PICK a \in Int, u \in Int : a = d + 1 /\ u = q + 1 /\ Splits(a, WeekLength, u, 0)
        BY <1>1, <1>2, <3>1 DEF Splits
      <4>2. 0 \in 0..WeekLength - 1
        BY <1>1
      <4>3. a % WeekLength = 0
        BY <1>1, <4>1, <4>2, Quotient
      <4> QED
        BY <3>1, <4>1, <4>3
    <3>2. CASE r # WeekLength - 1
      <4>1. PICK a \in Int, u \in 0..WeekLength - 1 : a = d + 1 /\ u = r + 1 /\ Splits(a, WeekLength, q, u)
        BY <1>1, <1>2, <3>2 DEF Splits
      <4> QED
        BY <1>1, <3>2, <4>1, Quotient
    <3> QED
      BY <3>1, <3>2
  <2>2. FireDay(p) = IF p.day = 0 THEN WeekLength - 1 ELSE p.day - 1
    <3>1. CASE p.day = 0
      <4>1. PICK a \in Int, z \in Int, u \in 0..WeekLength - 1 :
              a = p.day - 1 + WeekLength /\ z = 0 /\ u = WeekLength - 1 /\ Splits(a, WeekLength, z, u)
        BY <1>1, <3>1 DEF Splits
      <4>2. a % WeekLength = u
        BY <1>1, <4>1, Quotient
      <4> QED
        BY <1>5, <3>1, <4>1, <4>2 DEF FireDay
    <3>2. CASE p.day # 0
      <4>1. PICK a \in Int, u \in 0..WeekLength - 1 :
              a = p.day - 1 + WeekLength /\ u = p.day - 1 /\ Splits(a, WeekLength, 1, u)
        BY <1>1, <3>2 DEF Splits
      <4>2. a % WeekLength = u
        BY <1>1, <4>1, Quotient
      <4> QED
        BY <1>5, <3>2, <4>1, <4>2 DEF FireDay
    <3> QED
      BY <3>1, <3>2
  <2>3. LectureDate(p, d) = d + 1
    BY <1>5 DEF LectureDate
  <2> QED
    BY <1>1, <1>3, <2>1, <2>2, <2>3 DEF Weekday
<1> QED
  BY <1>4, <1>5

\* The first day from t on that falls on day f of the week, and those after it.
LEMMA Weeks ==
  ASSUME NEW f \in 0..WeekLength - 1, NEW t \in Int
  PROVE  \E first \in Int :
           /\ first = t + ((f - Weekday(t) + WeekLength) % WeekLength)
           /\ t <= first /\ first <= t + WeekLength - 1
           /\ \A m \in Int : (first + WeekLength * m) % WeekLength = f
           /\ \A d \in Int : t <= d /\ d % WeekLength = f => \E m \in Nat : d = first + WeekLength * m
<1>1. WeekLength \in Nat \ {0}
  BY SchedulerAssumption
<1>2. PICK q \in Int, r \in 0..WeekLength - 1 : t = WeekLength * q + r
  BY <1>1, Division
<1>3. Weekday(t) = r
  BY <1>1, <1>2, Quotient DEF Weekday, Splits
<1>4. PICK u \in Int : /\ t + ((f - Weekday(t) + WeekLength) % WeekLength) = WeekLength * u + f
                       /\ t <= WeekLength * u + f /\ WeekLength * u + f <= t + WeekLength - 1
  <2>1. CASE r <= f
    <3>1. PICK a \in Int, z \in Int, v \in 0..WeekLength - 1 :
            a = f - Weekday(t) + WeekLength /\ z = 1 /\ v = f - r /\ Splits(a, WeekLength, z, v)
      BY <1>1, <1>3, <2>1 DEF Splits
    <3>2. a % WeekLength = v
      BY <1>1, <3>1, Quotient
    <3>3. PICK x \in Int : x = WeekLength * q
      BY <1>1
    <3>4. t + (f - r) = x + f /\ t <= x + f /\ x + f <= t + WeekLength - 1
      BY <1>1, <1>2, <2>1, <3>3
    <3> QED
      BY <3>1, <3>2, <3>3, <3>4
  <2>2. CASE f < r
    <3>1. PICK a \in Int, z \in Int, v \in 0..WeekLength - 1 :
            a = f - Weekday(t) + WeekLength /\ z = 0 /\ v = f - r + WeekLength /\ Splits(a, WeekLength, z, v)
      BY <1>1, <1>3, <2>2 DEF Splits
    <3>2. a % WeekLength = v
      BY <1>1, <3>1, Quotient
    <3>3. PICK x \in Int : x = WeekLength * q
      BY <1>1
    <3>4. WeekLength * (q + 1) = x + WeekLength /\ q + 1 \in Int
      BY <1>1, <3>3
    <3>5. /\ t + (f - r + WeekLength) = x + WeekLength + f /\ t <= x + WeekLength + f
          /\ x + WeekLength + f <= t + WeekLength - 1
      BY <1>1, <1>2, <2>2, <3>3
    <3> QED
      BY <3>1, <3>2, <3>4, <3>5
  <2> QED
    BY <1>1, <2>1, <2>2
<1>5. PICK first \in Int : first = WeekLength * u + f
  BY <1>1
<1>6. ASSUME NEW m \in Int PROVE (first + WeekLength * m) % WeekLength = f
  <2>1. Splits(first + WeekLength * m, WeekLength, u + m, f) /\ u + m \in Int
        /\ first + WeekLength * m \in Int
    BY <1>1, <1>5 DEF Splits
  <2> QED
    BY <1>1, <2>1, Quotient
<1>7. ASSUME NEW d \in Int, t <= d, d % WeekLength = f PROVE \E m \in Nat : d = first + WeekLength * m
  <2>1. PICK v \in Int : d = WeekLength * v + f
    BY <1>1, <1>7, Division
  <2>2. CASE v < u
    <3>1. WeekLength * v + WeekLength <= WeekLength * u
      BY <1>1, <2>2, Times
    <3>2. PICK x \in Int, y \in Int : x = WeekLength * v /\ y = WeekLength * u
      BY <1>1
    <3> QED
      BY <1>1, <1>4, <1>7, <2>1, <3>1, <3>2
  <2>3. CASE u <= v
    <3>1. v - u \in Nat /\ WeekLength * v = WeekLength * u + WeekLength * (v - u)
      BY <1>1, <2>3
    <3>2. d = first + WeekLength * (v - u)
      BY <1>1, <1>5, <2>1, <3>1
    <3> QED
      BY <3>1, <3>2
  <2> QED
    BY <2>2, <2>3
<1> QED
  BY <1>4, <1>5, <1>6, <1>7

\* The steps of calculateNextFireTime before it looks at marks and holidays.
FirstDay(p, w, i) ==
  Today(w, i) + ((FireDay(p) - Weekday(Today(w, i)) + WeekLength) % WeekLength)

ComingDay(p, w, i) ==
  IF Instant(w, FirstDay(p, w, i), p.sendAt) <= i THEN FirstDay(p, w, i) + WeekLength ELSE FirstDay(p, w, i)

\* The first fire day whose send time is ahead, and those before and after it.
LEMMA ComingDays ==
  ASSUME NEW p \in Plans, NEW w \in Configs, NEW i \in Int
  PROVE  \E coming \in Int :
           /\ coming = ComingDay(p, w, i) /\ i < Instant(w, coming, p.sendAt)
           /\ Today(w, i) <= coming /\ coming <= Today(w, i) + 2 * WeekLength
           /\ \A m \in Int : (coming + WeekLength * m) % WeekLength = FireDay(p)
           /\ \A d \in Int : Today(w, i) <= d /\ d % WeekLength = FireDay(p) =>
                \/ d = Today(w, i) /\ p.sendAt <= Clock(w, i)
                \/ \E m \in Nat : d = coming + WeekLength * m
<1>1. WeekLength \in Nat \ {0} /\ p.sendAt \in 0..DayLength - 1
  BY SchedulerAssumption
<1>2. PICK t \in Int, c \in 0..DayLength - 1 : t = Today(w, i) /\ c = Clock(w, i) /\ i = Instant(w, t, c)
  BY Dating
<1>3. PICK f \in 0..WeekLength - 1 : f = FireDay(p)
  BY FireDays
<1>4. PICK first \in Int :
           /\ first = t + ((f - Weekday(t) + WeekLength) % WeekLength)
           /\ t <= first /\ first <= t + WeekLength - 1
           /\ \A m \in Int : (first + WeekLength * m) % WeekLength = f
           /\ \A d \in Int : t <= d /\ d % WeekLength = f => \E m \in Nat : d = first + WeekLength * m
  BY Weeks
<1>5. first = FirstDay(p, w, i)
  BY <1>2, <1>3, <1>4 DEF FirstDay
<1>6. PICK x \in Int : x = Instant(w, first, p.sendAt)
  BY <1>1, Timing
<1>7. CASE x <= i
  <2>1. first = t /\ p.sendAt <= c
    <3>1. first < t \/ (first = t /\ p.sendAt <= c)
      BY <1>1, <1>2, <1>6, <1>7, Ordering
    <3> QED
      BY <1>4, <3>1
  <2>2. PICK coming \in Int : coming = first + WeekLength
    BY <1>1
  <2>3. coming = ComingDay(p, w, i)
    BY <1>5, <1>6, <1>7, <2>2 DEF ComingDay
  <2>4. i < Instant(w, coming, p.sendAt)
    <3>1. ~(coming < t \/ (coming = t /\ p.sendAt <= c))
      BY <1>1, <2>1, <2>2
    <3>2. ~(Instant(w, coming, p.sendAt) <= Instant(w, t, c))
      BY <1>1, <3>1, Ordering
    <3>3. Instant(w, coming, p.sendAt) \in Int
      BY <1>1, Timing
    <3> QED
      BY <1>2, <3>2, <3>3
  <2>5. t <= coming /\ coming <= t + 2 * WeekLength
    BY <1>1, <2>1, <2>2
  <2>6. ASSUME NEW m \in Int PROVE (coming + WeekLength * m) % WeekLength = f
    <3>1. coming + WeekLength * m = first + WeekLength * (m + 1) /\ m + 1 \in Int
      BY <1>1, <2>2
    <3> QED
      BY <1>4, <3>1
  <2>7. ASSUME NEW d \in Int, t <= d, d % WeekLength = f
        PROVE  (d = t /\ p.sendAt <= c) \/ \E m \in Nat : d = coming + WeekLength * m
    <3>1. PICK n \in Nat : d = first + WeekLength * n
      BY <1>4, <2>7
    <3>2. CASE n = 0
      BY <1>1, <2>1, <3>1, <3>2
    <3>3. CASE n # 0
      <4>1. n - 1 \in Nat /\ WeekLength * n = WeekLength + WeekLength * (n - 1)
        BY <1>1, <3>3
      <4>2. d = coming + WeekLength * (n - 1)
        BY <1>1, <2>2, <3>1, <4>1
      <4> QED
        BY <4>1, <4>2
    <3> QED
      BY <3>2, <3>3
  <2> QED
    BY <1>2, <1>3, <2>3, <2>4, <2>5, <2>6, <2>7
<1>8. CASE ~(x <= i)
  <2>1. first = ComingDay(p, w, i) /\ i < Instant(w, first, p.sendAt)
    BY <1>5, <1>6, <1>8 DEF ComingDay
  <2>2. first <= t + 2 * WeekLength
    BY <1>1, <1>4
  <2> QED
    BY <1>2, <1>3, <1>4, <2>1, <2>2
<1> QED
  BY <1>7, <1>8

\* No lecture falls on a holiday five times running.
FewHolidays == \A d \in Int : \E k \in 0..MaxHolidayShifts : ~IsHoliday(d + WeekLength * k)

\* The loop over holidays ends at the first week without one.
LEMMA Shifts ==
  ASSUME FewHolidays, NEW p \in Plans, NEW d \in Int
  PROVE  \E k \in 0..MaxHolidayShifts :
           /\ PastHolidays(p, d) = d + WeekLength * k
           /\ ~LectureIsHoliday(p, d + WeekLength * k)
           /\ \A j \in 0..MaxHolidayShifts : j < k => LectureIsHoliday(p, d + WeekLength * j)
<1> DEFINE H(k) == LectureIsHoliday(p, d + k * WeekLength)
           S == {k \in 0..MaxHolidayShifts : k = MaxHolidayShifts \/ ~H(k)}
<1>1. WeekLength \in Nat \ {0} /\ MaxHolidayShifts = 4
  BY SchedulerAssumption DEF MaxHolidayShifts
<1>2. PICK k \in 0..MaxHolidayShifts : ~H(k)
  <2>1. PICK e \in Int : \A k \in Int : LectureDate(p, d + k * WeekLength) = e + WeekLength * k
    BY <1>1 DEF LectureDate
  <2>2. PICK k \in 0..MaxHolidayShifts : ~IsHoliday(e + WeekLength * k)
    BY DEF FewHolidays
  <2>3. LectureDate(p, d + k * WeekLength) = e + WeekLength * k
    BY <1>1, <2>1
  <2>4. ~IsHoliday(LectureDate(p, d + k * WeekLength))
    BY <2>2, <2>3
  <2> QED
    BY <2>4 DEF LectureIsHoliday
<1> HIDE DEF H
<1>3. PICK m \in S : \A y \in S : m <= y
  <2>1. 4 \in S /\ S \subseteq 0..4
    BY <1>1
  <2> HIDE DEF S
  <2>2. CASE 0 \in S
    BY <2>1, <2>2
  <2>3. CASE 0 \notin S /\ 1 \in S
    BY <2>1, <2>3
  <2>4. CASE 0 \notin S /\ 1 \notin S /\ 2 \in S
    BY <2>1, <2>4
  <2>5. CASE 0 \notin S /\ 1 \notin S /\ 2 \notin S /\ 3 \in S
    BY <2>1, <2>5
  <2>6. CASE 0 \notin S /\ 1 \notin S /\ 2 \notin S /\ 3 \notin S
    BY <2>1, <2>6
  <2> QED
    BY <2>2, <2>3, <2>4, <2>5, <2>6
<1>4. Min(S) = m
  BY <1>1, <1>3, Smallest
<1>5. PastHolidays(p, d) = d + WeekLength * m
  BY <1>4 DEF PastHolidays, H
<1>6. m \in 0..MaxHolidayShifts /\ ~H(m) /\ \A j \in 0..MaxHolidayShifts : j < m => H(j)
  <2>1. m <= k /\ m \in 0..4 /\ k \in 0..4
    BY <1>1, <1>2, <1>3
  <2>2. CASE m = 4
    BY <1>1, <1>2, <2>1, <2>2, <1>3
  <2>3. CASE m # 4
    BY <1>1, <2>1, <2>3, <1>3
  <2> QED
    BY <2>2, <2>3
<1>7. \A j \in 0..MaxHolidayShifts : H(j) <=> LectureIsHoliday(p, d + WeekLength * j)
  <2> SUFFICES ASSUME NEW j \in 0..MaxHolidayShifts PROVE H(j) <=> LectureIsHoliday(p, d + WeekLength * j)
    OBVIOUS
  <2>1. j * WeekLength = WeekLength * j
    BY <1>1
  <2> QED
    BY <2>1 DEF H
<1> QED
  BY <1>5, <1>6, <1>7

\* A mark is no later than now, and no earlier in its day than the send time.
SentLate(p, last, w, i) == last # Never => last \in Int /\ last <= i /\ p.sendAt <= Clock(w, last)

\* The countdown does not depend on a mark that was set on time.
LEMMA NextFires ==
  ASSUME NEW p \in Plans, NEW w \in Configs, NEW i \in Int, NEW last, SentLate(p, last, w, i)
  PROVE  /\ NextFire(p, last, w, i) = Instant(w, PastHolidays(p, ComingDay(p, w, i)), p.sendAt)
         /\ \A d \in Int : i < Instant(w, d, p.sendAt) => ~(last # Never /\ Today(w, last) = d)
<1>1. p.sendAt \in 0..DayLength - 1
  BY SchedulerAssumption
<1>2. ASSUME NEW d \in Int, i < Instant(w, d, p.sendAt), last # Never, Today(w, last) = d PROVE FALSE
  <2>1. last \in Int /\ last <= i /\ p.sendAt <= Clock(w, last)
    BY <1>2 DEF SentLate
  <2>2. PICK c \in 0..DayLength - 1 : c = Clock(w, last) /\ last = Instant(w, d, c)
    BY <1>2, <2>1, Dating
  <2>3. Instant(w, d, p.sendAt) <= Instant(w, d, c)
    BY <1>1, <2>1, <2>2, Ordering
  <2>4. Instant(w, d, p.sendAt) \in Int
    BY <1>1, Timing
  <2> QED
    BY <1>2, <2>1, <2>2, <2>3, <2>4
<1>3. PICK coming \in Int : coming = ComingDay(p, w, i) /\ i < Instant(w, coming, p.sendAt)
  BY ComingDays
<1>4. ~(last # Never /\ Today(w, last) = coming)
  BY <1>2, <1>3
<1>5. NextFire(p, last, w, i) = Instant(w, PastHolidays(p, coming), p.sendAt)
  BY <1>3, <1>4 DEF NextFire, ComingDay, FirstDay, FireDay
<1> QED
  BY <1>2, <1>3, <1>5

\* The bound within which FirstFire looks.
LEMMA WithinWeeks ==
  ASSUME NEW w \in Configs, NEW i \in Int, NEW d \in Int, NEW k \in 0..MaxHolidayShifts,
         NEW c \in 0..DayLength - 1, d <= Today(w, i) + 2 * WeekLength
  PROVE  Instant(w, d + WeekLength * k, c) <= i + (MaxHolidayShifts + 3) * WeekLength * DayLength
<1>1. WeekLength \in Nat \ {0} /\ DayLength \in Nat \ {0} /\ MaxHolidayShifts = 4 /\ w.zone \in Nat
  BY SchedulerAssumption DEF MaxHolidayShifts
<1>2. PICK t \in Int, b \in 0..DayLength - 1 : t = Today(w, i) /\ b = Clock(w, i) /\ i = Instant(w, t, b)
  BY Dating
<1>3. WeekLength * k <= 4 * WeekLength /\ WeekLength * k \in Int
  <2>1. CASE k = 0
    BY <1>1, <2>1
  <2>2. CASE k = 1
    BY <1>1, <2>2
  <2>3. CASE k = 2
    BY <1>1, <2>3
  <2>4. CASE k = 3
    BY <1>1, <2>4
  <2>5. CASE k = 4
    BY <1>1, <2>5
  <2> QED
    BY <1>1, <2>1, <2>2, <2>3, <2>4, <2>5
<1>4. PICK e \in Int : e = d + WeekLength * k
  BY <1>1, <1>3
<1>5. e < t + 7 * WeekLength
  BY <1>1, <1>2, <1>3, <1>4
<1>6. Instant(w, e, c) <= Instant(w, t + 7 * WeekLength, b)
  BY <1>1, <1>5, Ordering
<1>7. PICK u \in Int : u = (MaxHolidayShifts + 3) * WeekLength * DayLength
  BY <1>1
<1>8. Instant(w, t + 7 * WeekLength, b) = i + u
  <2>1. PICK x \in Int : x = t * DayLength
    BY <1>1
  <2>2. (t + 7 * WeekLength) * DayLength = x + u
    BY <1>1, <1>7, <2>1
  <2>3. i = x + b - w.zone
    BY <1>2, <2>1 DEF Instant
  <2>4. Instant(w, t + 7 * WeekLength, b) = (x + u) + b - w.zone
    BY <2>2 DEF Instant
  <2> QED
    BY <1>1, <1>7, <2>1, <2>3, <2>4
<1> QED
  BY <1>4, <1>6, <1>7, <1>8

\* The minute the countdown runs to is the first that fires.
LEMMA FirstFires ==
  ASSUME TypeOK, FewHolidays, NEW s \in Active, SendableOnTime(s), ~Fires(s, settings, now),
         SentLate(plan[s], lastSent[s], settings, now)
  PROVE  FirstFire(s) = NextFire(plan[s], lastSent[s], settings, now)
<1> DEFINE T == {i \in (now + 1)..(now + (MaxHolidayShifts + 3) * WeekLength * DayLength) :
                   Fires(s, settings, i)}
<1>1. /\ WeekLength \in Nat \ {0} /\ DayLength \in Nat \ {0} /\ MaxHolidayShifts = 4
      /\ settings \in Configs /\ now \in Int /\ s \in Schedules /\ plan[s] \in Plans
  BY SchedulerAssumption DEF MaxHolidayShifts, TypeOK, Active
<1>2. PICK p \in Plans : p = plan[s]
  BY <1>1
<1>3. PICK w \in Configs : w = settings
  BY <1>1
<1>4. /\ p.sendAt \in 0..DayLength - 1 /\ p.start \in Int
      /\ w.from \in Int /\ w.to \in Int
  BY SchedulerAssumption
<1>5. w.from <= p.sendAt /\ p.sendAt <= w.to /\ (p.mode = "H-0" => p.sendAt <= p.start)
  BY <1>2, <1>3 DEF SendableOnTime, Announces
<1>6. PICK coming \in Int :
           /\ coming = ComingDay(p, w, now) /\ now < Instant(w, coming, p.sendAt)
           /\ Today(w, now) <= coming /\ coming <= Today(w, now) + 2 * WeekLength
           /\ \A m \in Int : (coming + WeekLength * m) % WeekLength = FireDay(p)
           /\ \A d \in Int : Today(w, now) <= d /\ d % WeekLength = FireDay(p) =>
                \/ d = Today(w, now) /\ p.sendAt <= Clock(w, now)
                \/ \E m \in Nat : d = coming + WeekLength * m
  BY <1>1, ComingDays
<1>7. PICK k \in 0..MaxHolidayShifts :
           /\ PastHolidays(p, coming) = coming + WeekLength * k
           /\ ~LectureIsHoliday(p, coming + WeekLength * k)
           /\ \A j \in 0..MaxHolidayShifts : j < k => LectureIsHoliday(p, coming + WeekLength * j)
  BY Shifts
<1>8. PICK day \in Int : day = coming + WeekLength * k
  BY <1>1
<1>9. PICK target \in Int : /\ target = Instant(w, day, p.sendAt)
                            /\ Today(w, target) = day /\ Clock(w, target) = p.sendAt
  BY <1>4, Timing
<1>10. /\ NextFire(p, lastSent[s], w, now) = target
       /\ \A d \in Int : now < Instant(w, d, p.sendAt) => ~(lastSent[s] # Never /\ Today(w, lastSent[s]) = d)
  <2>1. SentLate(p, lastSent[s], w, now)
    BY <1>2, <1>3
  <2>2. /\ NextFire(p, lastSent[s], w, now) = Instant(w, PastHolidays(p, ComingDay(p, w, now)), p.sendAt)
        /\ \A d \in Int : now < Instant(w, d, p.sendAt) => ~(lastSent[s] # Never /\ Today(w, lastSent[s]) = d)
    BY <1>1, <2>1, NextFires
  <2>3. PastHolidays(p, ComingDay(p, w, now)) = day
    BY <1>6, <1>7, <1>8
  <2> QED
    BY <1>9, <2>2, <2>3
<1>11. now < target
  <2>1. coming <= day
    BY <1>1, <1>8
  <2>2. Instant(w, coming, p.sendAt) <= target
    <3>1. coming < day \/ (coming = day /\ p.sendAt <= p.sendAt)
      BY <1>4, <2>1
    <3> QED
      BY <1>4, <1>9, <3>1, Ordering
  <2>3. Instant(w, coming, p.sendAt) \in Int
    BY <1>4, Timing
  <2> QED
    BY <1>1, <1>6, <1>9, <2>2, <2>3
<1>12. target <= now + (MaxHolidayShifts + 3) * WeekLength * DayLength
  <2>1. Instant(w, coming + WeekLength * k, p.sendAt) <= now + (MaxHolidayShifts + 3) * WeekLength * DayLength
    BY <1>1, <1>4, <1>6, WithinWeeks
  <2> QED
    BY <1>8, <1>9, <2>1
<1>13. Fires(s, w, target)
  <2>1. InWindow(w, target) /\ Reached(p, Clock(w, target))
    BY <1>4, <1>5, <1>9 DEF InWindow, Reached
  <2>2. ~SentToday(lastSent[s], w, target)
    BY <1>9, <1>10, <1>11 DEF SentToday
  <2>3. Weekday(LectureDate(p, day)) = p.day
    BY <1>6, <1>8, FireDays
  <2>4. ~IsHoliday(LectureDate(p, day))
    BY <1>7, <1>8 DEF LectureIsHoliday
  <2> QED
    BY <1>2, <1>5, <1>9, <2>1, <2>2, <2>3, <2>4 DEF Fires, Due
<1>14. ASSUME NEW i \in Int, now < i, Fires(s, w, i) PROVE target <= i
  <2>1. PICK d \in Int, c \in 0..DayLength - 1 : d = Today(w, i) /\ c = Clock(w, i) /\ i = Instant(w, d, c)
    BY Dating
  <2>2. PICK t \in Int, b \in 0..DayLength - 1 : t = Today(w, now) /\ b = Clock(w, now) /\ now = Instant(w, t, b)
    BY <1>1, Dating
  <2>3. t < d \/ (t = d /\ b <= c)
    <3>1. Instant(w, t, b) <= Instant(w, d, c)
      BY <1>1, <1>14, <2>1, <2>2
    <3> QED
      BY <3>1, Ordering
  <2>4. /\ InWindow(w, i) /\ p.sendAt <= c /\ ~SentToday(lastSent[s], w, i)
        /\ (p.mode = "H-0" => c <= p.start)
        /\ d % WeekLength = FireDay(p) /\ ~IsHoliday(LectureDate(p, d))
    BY <1>2, <1>14, <2>1, FireDays DEF Fires, Due, Reached
  <2>5. \/ d = t /\ p.sendAt <= b
        \/ \E m \in Nat : d = coming + WeekLength * m
    BY <1>6, <2>2, <2>3, <2>4
  <2>6. CASE d = t /\ p.sendAt <= b
    <3>1. w.from <= b /\ b <= w.to /\ (p.mode = "H-0" => b <= p.start) /\ b <= c
      BY <1>4, <1>5, <2>1, <2>3, <2>4, <2>6 DEF InWindow
    <3>2. ~SentToday(lastSent[s], w, now)
      BY <2>1, <2>2, <2>4, <2>6 DEF SentToday
    <3>3. Weekday(LectureDate(p, t)) = p.day
      BY <2>4, <2>6, FireDays
    <3>4. Fires(s, w, now)
      BY <1>2, <2>2, <2>4, <2>6, <3>1, <3>2, <3>3 DEF Fires, Due, Reached, InWindow
    <3> QED
      BY <1>3, <3>4
  <2>7. CASE \E m \in Nat : d = coming + WeekLength * m
    <3>1. PICK m \in Nat : d = coming + WeekLength * m
      BY <2>7
    <3>2. ~(m < k)
      <4>1. SUFFICES ASSUME m < k PROVE FALSE
        OBVIOUS
      <4>2. m \in 0..MaxHolidayShifts
        BY <1>1, <4>1
      <4> QED
        BY <1>7, <2>4, <3>1, <4>1, <4>2 DEF LectureIsHoliday
    <3>3. day <= d
      <4>1. k = m \/ k < m
        BY <1>1, <3>2
      <4>2. CASE k = m
        BY <1>8, <3>1, <4>2
      <4>3. CASE k < m
        <5>1. WeekLength * k + WeekLength <= WeekLength * m
          BY <1>1, <4>3, Times
        <5>2. PICK x \in Int, y \in Int : x = WeekLength * k /\ y = WeekLength * m
          BY <1>1
        <5> QED
          BY <1>1, <1>8, <3>1, <5>1, <5>2
      <4> QED
        BY <4>1, <4>2, <4>3
    <3>4. day < d \/ (day = d /\ p.sendAt <= c)
      BY <2>4, <3>3
    <3> QED
      BY <1>4, <1>9, <2>1, <3>4, Ordering
  <2> QED
    BY <2>5, <2>6, <2>7
<1>15. T \in SUBSET Int /\ target \in T /\ \A y \in T : target <= y
  <2>1. PICK u \in Int : u = now + (MaxHolidayShifts + 3) * WeekLength * DayLength
    BY <1>1
  <2> QED
    BY <1>1, <1>3, <1>11, <1>12, <1>13, <1>14, <2>1
<1> HIDE DEF T
<1>16. Min(T) = target /\ T # {}
  BY <1>15, Smallest
<1>17. FirstFire(s) = target
  BY <1>16 DEF FirstFire, T
<1> QED
  BY <1>2, <1>3, <1>10, <1>17

-----------------------------------------------------------------------------
(* Types.                                                                  *)

USE SchedulerAssumption DEF Never

\* Dates are integers and clock readings stay within the day.
LEMMA Clocks ==
  ASSUME NEW w \in Configs, NEW i \in Int
  PROVE  Today(w, i) \in Int /\ Clock(w, i) \in 0..(DayLength - 1)
<1>1. w.zone \in Nat
  OBVIOUS
<1>2. i + w.zone \in Int
  BY <1>1
<1>3. QED
  BY <1>2 DEF Today, Clock

\* Counting a reminder gives a history entry again.
LEMMA RemindedType ==
  ASSUME NEW h \in [date : Int, sent : Nat, lost : Nat], NEW d \in Int
  PROVE  Reminded(h, d) \in [date : Int, sent : Nat, lost : Nat]
BY DEF Reminded

\* Losing a mark keeps the types of the history.
LEMMA LoseMarkType ==
  ASSUME TypeOK, LoseMark
  PROVE  history' \in [Schedules -> [date : Int, sent : Nat, lost : Nat]]
<1>1. CASE pc = "mark"
  <2>1. cur.id \in Schedules
    BY <1>1 DEF TypeOK, Copy
  <2>2. history[cur.id] \in [date : Int, sent : Nat, lost : Nat]
    BY <2>1 DEF TypeOK
  <2>3. Unmarked(history[cur.id]) \in [date : Int, sent : Nat, lost : Nat]
    BY <2>2 DEF Unmarked
  <2>4. QED
    BY <1>1, <2>1, <2>3 DEF TypeOK, LoseMark
<1>2. CASE pc # "mark"
  BY <1>2 DEF TypeOK, LoseMark
<1>3. QED
  BY <1>1, <1>2

\* The initial states have the declared types.
LEMMA TypeInit == Init => TypeOK
BY DEF Init, TypeOK, PC, NothingShown

\* Every step keeps the types.
LEMMA TypeNext == TypeOK /\ [Next]_vars => TypeOK'
<1> SUFFICES ASSUME TypeOK, [Next]_vars PROVE TypeOK'
  OBVIOUS
<1> USE DEF TypeOK, tables, goroutine, bounds, PC
<1>1. CASE StartTick
  BY <1>1 DEF StartTick
<1>2. CASE ListActiveSchedules
  BY <1>2 DEF ListActiveSchedules, Copy
<1>3. CASE Fire
  <2>1. cur.id \in Schedules /\ pc = "fire" /\ at \in Int
    BY <1>3 DEF Fire, Copy
  <2>2. Reminded(history[cur.id], Today(cfg, at)) \in [date : Int, sent : Nat, lost : Nat]
    BY <2>1, Clocks, RemindedType
  <2>3. history' \in [Schedules -> [date : Int, sent : Nat, lost : Nat]]
    BY <1>3, <2>1, <2>2 DEF Fire
  <2>4. QED
    BY <1>3, <2>3 DEF Fire, NextSchedule
<1>4. CASE Mark
  BY <1>4 DEF Mark, MarkAt, NextSchedule, Copy
<1>5. CASE EvaluationDone
  <2>1. at \in Int
    OBVIOUS
  <2>2. Clock(settings, at) \in 0..(DayLength - 1)
    BY <2>1, Clocks
  <2>3. QED
    BY <1>5, <2>2 DEF EvaluationDone
<1>6. ASSUME NEW c \in todo, Consider(c) PROVE TypeOK'
  BY <1>6 DEF Consider
<1>7. CASE UpdateCountdown
  BY <1>7 DEF UpdateCountdown
<1>8. CASE CountdownError
  BY <1>8 DEF CountdownError, NothingShown
<1>9. CASE Minute
  BY <1>9 DEF Minute
<1>10. ASSUME NEW s \in Schedules, NEW p \in Plans, NEW v \in {"on", "off"}, SaveSchedule(s, p, v)
       PROVE  TypeOK'
  BY <1>10 DEF SaveSchedule, Edit
<1>11. ASSUME NEW s \in Schedules, NEW v \in {"on", "off"}, ToggleSchedule(s, v) PROVE TypeOK'
  BY <1>11 DEF ToggleSchedule, Edit
<1>12. ASSUME NEW s \in Schedules, DeleteSchedule(s) PROVE TypeOK'
  BY <1>12 DEF DeleteSchedule, Edit
<1>13. ASSUME NEW s \in Schedules, EditContacts(s) PROVE TypeOK'
  BY <1>13 DEF EditContacts, Edit
<1>14. ASSUME NEW d \in HolidayDates, CreateHoliday(d) PROVE TypeOK'
  BY <1>14 DEF CreateHoliday, Edit
<1>15. ASSUME NEW d \in HolidayDates, DeleteHoliday(d) PROVE TypeOK'
  BY <1>15 DEF DeleteHoliday, Edit
<1>16. ASSUME NEW w \in Configs, SaveSettings(w) PROVE TypeOK'
  BY <1>16 DEF SaveSettings, Edit
<1>17. CASE StoreError
  <2>1. history' \in [Schedules -> [date : Int, sent : Nat, lost : Nat]]
    BY <1>17, LoseMarkType DEF StoreError
  <2>2. QED
    BY <1>17, <2>1 DEF StoreError, Fault, NextSchedule
<1>18. CASE Restart
  BY <1>18, LoseMarkType DEF Restart, Fault, NothingShown
<1>19. CASE UNCHANGED vars
  BY <1>19 DEF vars
<1>20. QED
  BY <1>1, <1>2, <1>3, <1>4, <1>5, <1>6, <1>7, <1>8, <1>9, <1>10, <1>11, <1>12, <1>13, <1>14,
     <1>15, <1>16, <1>17, <1>18, <1>19 DEF Next, Evaluate

\* The variables of Scheduler always have their types.
THEOREM TypeCorrect == Spec => []TypeOK
BY TypeInit, TypeNext, PTL DEF Spec

-----------------------------------------------------------------------------
(* Copies of schedules within an evaluation.                               *)

\* Outside the steps of an evaluation and of its faults, what the copies are
\* compared with does not change.
Quiet == UNCHANGED <<pc, at, cfg, todo, cur, lastSent, history>>

\* The passing of time and the edits of users are quiet.
LEMMA QuietSteps ==
  [Next]_vars =>
    \/ StartTick \/ ListActiveSchedules \/ Fire \/ Mark \/ EvaluationDone
    \/ \E c \in todo : Consider(c)
    \/ UpdateCountdown \/ CountdownError \/ StoreError \/ Restart
    \/ Quiet
<1> USE DEF Quiet, goroutine
<1>1. Minute => Quiet
  BY DEF Minute, tables
<1>2. \A s \in Schedules, p \in Plans, v \in {"on", "off"} : SaveSchedule(s, p, v) => Quiet
  BY DEF SaveSchedule
<1>3. \A s \in Schedules, v \in {"on", "off"} : ToggleSchedule(s, v) => Quiet
  BY DEF ToggleSchedule
<1>4. \A s \in Schedules : DeleteSchedule(s) \/ EditContacts(s) => Quiet
  BY DEF DeleteSchedule, EditContacts
<1>5. \A d \in HolidayDates : CreateHoliday(d) \/ DeleteHoliday(d) => Quiet
  BY DEF CreateHoliday, DeleteHoliday
<1>6. \A w \in Configs : SaveSettings(w) => Quiet
  BY DEF SaveSettings
<1>7. UNCHANGED vars => Quiet
  BY DEF vars, tables
<1>8. QED
  BY <1>1, <1>2, <1>3, <1>4, <1>5, <1>6, <1>7 DEF Next, Evaluate

\* No copies before the first evaluation.
LEMMA CopiesInit == Init => CopiesCurrent
BY DEF Init, CopiesCurrent, Waiting

\* One copy of each schedule is listed, with the mark of that moment, and the
\* mark is written only for a schedule that has no copy waiting any more.
LEMMA CopiesNext == TypeOK /\ CopiesCurrent /\ [Next]_vars => CopiesCurrent'
<1> SUFFICES ASSUME TypeOK, CopiesCurrent, [Next]_vars PROVE CopiesCurrent'
  OBVIOUS
<1> USE DEF CopiesCurrent, Waiting, tables, goroutine, bounds
<1>1. CASE StartTick
  BY <1>1 DEF StartTick
<1>2. CASE ListActiveSchedules
  <2>1. /\ pc' = "consider" /\ lastSent' = lastSent
        /\ \A c \in todo' : \E s \in Schedules : c = [id |-> s, plan |-> plan[s], lastSent |-> lastSent[s]]
    BY <1>2 DEF ListActiveSchedules
  <2>2. \A c \in todo' : c.lastSent = lastSent[c.id] /\ c = [id |-> c.id, plan |-> plan[c.id], lastSent |-> lastSent[c.id]]
    BY <2>1
  <2>3. Waiting' = todo'
    BY <2>1
  <2>4. \A c, e \in Waiting' : c.id = e.id => c = e
    BY <2>2, <2>3
  <2>5. QED
    BY <2>1, <2>2, <2>3, <2>4
<1>3. CASE Fire
  BY <1>3 DEF Fire, NextSchedule
<1>4. CASE Mark
  <2>1. \A c \in todo : c.id # cur.id /\ c.id \in Schedules
    BY <1>4 DEF Mark, MarkAt, TypeOK, Copy
  <2>2. Waiting' = todo /\ cur.id \in Schedules /\ todo' = todo
    BY <1>4 DEF Mark, MarkAt, NextSchedule, TypeOK, Copy
  <2>3. \A c \in todo : lastSent'[c.id] = lastSent[c.id]
    BY <1>4, <2>1, <2>2 DEF Mark, MarkAt, TypeOK
  <2>4. QED
    BY <1>4, <2>2, <2>3 DEF Mark, MarkAt, NextSchedule
<1>5. CASE EvaluationDone
  BY <1>5 DEF EvaluationDone
<1>6. ASSUME NEW c \in todo, Consider(c) PROVE CopiesCurrent'
  BY <1>6 DEF Consider
<1>7. CASE UpdateCountdown \/ CountdownError
  BY <1>7 DEF UpdateCountdown, CountdownError
<1>8. CASE StoreError
  BY <1>8 DEF StoreError, NextSchedule
<1>9. CASE Restart
  BY <1>9 DEF Restart
<1>10. CASE Quiet
  BY <1>10 DEF Quiet
<1>11. QED
  BY <1>1, <1>2, <1>3, <1>4, <1>5, <1>6, <1>7, <1>8, <1>9, <1>10, QuietSteps

-----------------------------------------------------------------------------
(* Facts a reminder goes out on.                                           *)

\* Ids of waiting copies are ids of schedules, and the evaluation began in the past.
LEMMA WaitingType ==
  ASSUME TypeOK
  PROVE  /\ \A c \in Waiting : c.id \in Schedules
         /\ now \in Int /\ at \in Int /\ at <= now /\ Today(cfg, at) \in Int
<1>1. now \in Int /\ at \in Int /\ at <= now /\ cfg \in Configs
  BY DEF TypeOK
<1>2. \A c \in Waiting : c.id \in Schedules
  BY DEF TypeOK, Waiting, Copy
<1>3. QED
  BY <1>1, <1>2, Clocks

\* Nothing waits and no minute has begun.
LEMMA FreshInit == Init => CopiesFresh
BY DEF Init, CopiesFresh, Waiting

\* A schedule switched off or deleted, and a holiday added, after the evaluation
\* began carry a later instant; before it, they are seen.
LEMMA FreshNext ==
  TypeOK /\ CopiesCurrent /\ CopiesFresh /\ [Next]_vars => CopiesFresh'
<1> SUFFICES ASSUME TypeOK, CopiesCurrent, CopiesFresh, [Next]_vars PROVE CopiesFresh'
  OBVIOUS
<1> DEFINE day == LectureDate(cur.plan, Today(cfg, at))
<1> USE WaitingType DEF CopiesFresh, tables, goroutine, bounds
<1>1. CASE StartTick
  BY <1>1 DEF StartTick, Waiting, CopiesCurrent
<1>2. CASE ListActiveSchedules
  <2>1. \A c \in Waiting' : state[c.id] = "on"
    BY <1>2 DEF ListActiveSchedules, Waiting
  <2>2. QED
    BY <1>2, <2>1 DEF ListActiveSchedules
<1>3. CASE Fire \/ Mark \/ EvaluationDone
  <2>1. Waiting' \subseteq Waiting /\ pc' # "fire"
    BY <1>3 DEF Fire, Mark, MarkAt, EvaluationDone, NextSchedule, Waiting
  <2>2. UNCHANGED <<now, at, state, since>>
    BY <1>3 DEF Fire, Mark, MarkAt, EvaluationDone
  <2>3. QED
    BY <2>1, <2>2
<1>4. ASSUME NEW c \in todo, Consider(c) PROVE CopiesFresh'
  <2>1. Waiting' \subseteq Waiting
    BY <1>4 DEF Consider, Waiting
  <2>2. UNCHANGED <<now, at, cfg, state, since, holiday, faults>>
    BY <1>4 DEF Consider
  <2>3. pc' = "fire" => ~IsHoliday(LectureDate(cur'.plan, Today(cfg, at)))
    BY <1>4 DEF Consider, LectureIsHoliday
  <2>4. QED
    BY <2>1, <2>2, <2>3 DEF IsHoliday, Today
<1>5. CASE UpdateCountdown \/ CountdownError
  BY <1>5 DEF UpdateCountdown, CountdownError, Waiting, TypeOK, CopiesCurrent
<1>6. CASE StoreError
  <2>1. Waiting' \subseteq Waiting
    BY <1>6 DEF StoreError, Waiting, NextSchedule
  <2>2. faults' > 0
    BY <1>6 DEF StoreError, Fault, TypeOK
  <2>3. UNCHANGED <<now, at, state, since>>
    BY <1>6 DEF StoreError
  <2>4. QED
    BY <2>1, <2>2, <2>3
<1>7. CASE Restart
  BY <1>7 DEF Restart, Waiting, TypeOK
<1>8. CASE Minute
  <2>1. Waiting' = Waiting /\ now' = now + 1
    BY <1>8 DEF Minute, Waiting
  <2>2. UNCHANGED <<pc, at, cfg, cur, state, since, holiday, faults>>
    BY <1>8 DEF Minute
  <2>3. QED
    BY <2>1, <2>2 DEF IsHoliday, Today
<1>9. ASSUME NEW s \in Schedules, NEW v \in {"on", "off"},
             (\E p \in Plans : SaveSchedule(s, p, v)) \/ ToggleSchedule(s, v)
      PROVE  CopiesFresh'
  <2>1. /\ since' = [since EXCEPT ![s] = now]
        /\ \A t \in Schedules \ {s} : state'[t] = state[t]
    BY <1>9 DEF SaveSchedule, ToggleSchedule, TypeOK
  <2>2. UNCHANGED <<now, pc, at, cfg, cur, todo, holiday, faults>>
    BY <1>9 DEF SaveSchedule, ToggleSchedule
  <2>3. Waiting' = Waiting
    BY <2>2 DEF Waiting
  <2>4. \A c \in Waiting : state'[c.id] = "on" \/ since'[c.id] >= at
    BY <2>1 DEF TypeOK
  <2>5. QED
    BY <2>2, <2>3, <2>4 DEF IsHoliday, Today
<1>10. ASSUME NEW s \in Schedules, DeleteSchedule(s) \/ EditContacts(s) PROVE CopiesFresh'
  <2>1. \A c \in Waiting : state'[c.id] = "on" \/ since'[c.id] >= at
    BY <1>10 DEF DeleteSchedule, EditContacts, TypeOK
  <2>2. UNCHANGED <<now, pc, at, cfg, cur, todo, holiday, faults>>
    BY <1>10 DEF DeleteSchedule, EditContacts
  <2>3. Waiting' = Waiting
    BY <2>2 DEF Waiting
  <2>4. QED
    BY <2>1, <2>2, <2>3 DEF IsHoliday, Today
<1>11. ASSUME NEW d \in HolidayDates, CreateHoliday(d) \/ DeleteHoliday(d) PROVE CopiesFresh'
  <2>1. UNCHANGED <<now, pc, at, cfg, cur, todo, state, since, faults>>
    BY <1>11 DEF CreateHoliday, DeleteHoliday
  <2>2. Waiting' = Waiting
    BY <2>1 DEF Waiting
  <2>3. \A e \in HolidayDates : holiday'[e] \in {holiday[e], now, Never}
    BY <1>11 DEF CreateHoliday, DeleteHoliday, TypeOK
  <2>4. \A e : ~IsHoliday(e) \/ holiday[e] >= at => ~IsHoliday(e)' \/ holiday'[e] >= at
    BY <2>3 DEF IsHoliday
  <2>5. day' = day
    BY <2>1 DEF Today
  <2>6. QED
    BY <2>1, <2>2, <2>4, <2>5 DEF Today
<1>12. ASSUME NEW w \in Configs, SaveSettings(w) PROVE CopiesFresh'
  BY <1>12 DEF SaveSettings, Waiting, IsHoliday, Today
<1>13. CASE UNCHANGED vars
  BY <1>13 DEF vars, Waiting, IsHoliday, Today
<1> HIDE DEF CopiesFresh, day
<1>14. QED
  BY <1>1, <1>2, <1>3, <1>4, <1>5, <1>6, <1>7, <1>8, <1>9, <1>10, <1>11, <1>12, <1>13
     DEF Next, Evaluate

-----------------------------------------------------------------------------
(* Reminders and marks.                                                    *)

\* Settings of one zone agree about dates.
LEMMA SameDates ==
  ASSUME OneZone, NEW v \in Configs, NEW w \in Configs, NEW i
  PROVE  Today(v, i) = Today(w, i)
BY DEF OneZone, Today

\* A schedule that is gone does not come back: its id is never used again.
LEMMA DeletedStays ==
  ASSUME TypeOK, [Next]_vars, NEW s \in Schedules, state[s] = "deleted"
  PROVE  state'[s] = "deleted"
<1>1. CASE state' = state
  BY <1>1
<1>2. ASSUME NEW t \in Schedules, NEW p \in Plans, NEW v \in {"on", "off"}, SaveSchedule(t, p, v)
      PROVE  state'[s] = "deleted"
  BY <1>2 DEF SaveSchedule, TypeOK
<1>3. ASSUME NEW t \in Schedules, NEW v \in {"on", "off"}, ToggleSchedule(t, v)
      PROVE  state'[s] = "deleted"
  BY <1>3 DEF ToggleSchedule, TypeOK
<1>4. ASSUME NEW t \in Schedules, DeleteSchedule(t) PROVE state'[s] = "deleted"
  BY <1>4 DEF DeleteSchedule, TypeOK
<1>5. state' = state \/ (\E t \in Schedules, p \in Plans, v \in {"on", "off"} : SaveSchedule(t, p, v))
        \/ (\E t \in Schedules, v \in {"on", "off"} : ToggleSchedule(t, v))
        \/ \E t \in Schedules : DeleteSchedule(t)
  BY DEF Next, Evaluate, vars, tables, StartTick, ListActiveSchedules, Fire, Mark, MarkAt, EvaluationDone,
         Consider, UpdateCountdown, CountdownError, Minute, EditContacts, CreateHoliday,
         DeleteHoliday, SaveSettings, StoreError, Restart
<1>6. QED
  BY <1>1, <1>2, <1>3, <1>4, <1>5

\* A step that leaves a schedule's mark and history alone leaves it marked.
LEMMA MarkedStays ==
  ASSUME OneZone, TypeOK, TypeOK', [Next]_vars, NEW s \in Schedules,
         lastSent'[s] = lastSent[s], history'[s].date = history[s].date, Marked(s)
  PROVE  Marked(s)'
<1>1. settings \in Configs /\ settings' \in Configs
  BY DEF TypeOK
<1>2. Today(settings, lastSent[s]) = Today(settings', lastSent[s])
  BY <1>1, SameDates
<1>3. CASE state[s] = "deleted"
  BY <1>3, DeletedStays DEF Marked
<1>4. CASE state[s] # "deleted"
  BY <1>2, <1>4 DEF Marked, Today
<1>5. QED
  BY <1>3, <1>4

\* The part of MarksKept about one schedule.
MarkKept(s) == history[s].sent <= history[s].lost \/ Marked(s) \/ MarkPending(s)

\* It survives a step that leaves the mark, the history and a pending mark alone.
LEMMA MarkKeptStays ==
  ASSUME OneZone, TypeOK, TypeOK', [Next]_vars, NEW s \in Schedules, MarkKept(s),
         lastSent'[s] = lastSent[s], history'[s] = history[s],
         MarkPending(s) => MarkPending(s)'
  PROVE  MarkKept(s)'
BY MarkedStays DEF MarkKept

\* Nothing has been sent.
LEMMA MarksInit == Init => MarksKept /\ OncePerDay
BY DEF Init, MarksKept, OncePerDay

\* A second reminder on one day needs a lost mark.
LEMMA MarksNext ==
  ASSUME OneZone, TypeOK, TypeOK', CopiesCurrent, MarksKept, OncePerDay, [Next]_vars
  PROVE  (MarksKept /\ OncePerDay)'
<1>0. /\ \A s \in Schedules : history[s].sent \in Nat /\ history[s].lost \in Nat
      /\ \A s \in Schedules : MarkKept(s)
      /\ pc \in {"fire", "mark"} => cur.id \in Schedules
      /\ settings \in Configs /\ cfg \in Configs
  BY DEF TypeOK, MarksKept, MarkKept, Copy
<1>1. CASE pc' # "mark" /\ pc # "mark" /\ UNCHANGED <<lastSent, history>>
           /\ (pc' = "fire" => ~SentToday(cur.lastSent, cfg, at)')
  <2>1. \A s \in Schedules : MarkKept(s)'
    BY <1>0, <1>1, MarkKeptStays DEF MarkPending
  <2>2. QED
    BY <1>1, <2>1 DEF MarksKept, MarkKept, OncePerDay
<1>2. CASE StartTick \/ ListActiveSchedules \/ EvaluationDone
  BY <1>1, <1>2 DEF StartTick, ListActiveSchedules, EvaluationDone, tables
<1>3. ASSUME NEW c \in todo, Consider(c) PROVE (MarksKept /\ OncePerDay)'
  <2>1. pc' = "fire" => cur' = c /\ ~SentToday(c.lastSent, cfg, at)
    BY <1>3 DEF Consider, Due
  <2>2. pc = "consider" /\ pc' \in {"consider", "fire"} /\ UNCHANGED <<cfg, at, lastSent, history>>
    BY <1>3 DEF Consider, tables
  <2>3. QED
    BY <1>1, <2>1, <2>2 DEF SentToday, Today
<1>4. CASE Fire
  <2> DEFINE h == history[cur.id]
             new == Reminded(h, Today(cfg, at))
  <2>1. pc = "fire" /\ cur.id \in Schedules /\ UNCHANGED <<tables, at, cfg>>
    BY <1>0, <1>4 DEF Fire
  <2>2. CASE history' = history /\ pc' = "consider"
    BY <1>1, <2>1, <2>2 DEF tables
  <2>3. CASE /\ state[cur.id] # "deleted" /\ pc' = "mark" /\ cur' = cur
             /\ history' = [history EXCEPT ![cur.id] = new]
    <3>1. cur.lastSent = lastSent[cur.id]
      BY <2>1 DEF CopiesCurrent, Waiting
    <3>2. h.date = Today(cfg, at) => ~Marked(cur.id)
      BY <1>0, <2>1, <2>3, <3>1, SameDates DEF Marked, MarksKept, SentToday
    <3>3. h.date = Today(cfg, at) => h.sent <= h.lost
      BY <1>0, <2>1, <3>2 DEF MarkKept, MarkPending
    <3>4. new.date = Today(cfg, at) /\ new.sent <= new.lost + 1
      <4>1. h \in [date : Int, sent : Nat, lost : Nat]
        BY <2>1 DEF TypeOK
      <4>2. QED
        BY <1>0, <2>1, <3>3, <4>1 DEF Reminded
    <3>5. history'[cur.id] = new /\ \A s \in Schedules \ {cur.id} : history'[s] = history[s]
      BY <2>1, <2>3 DEF TypeOK
    <3>6. \A s \in Schedules \ {cur.id} : MarkKept(s)'
      BY <1>0, <2>1, <2>3, <3>5, MarkKeptStays DEF MarkPending, tables
    <3>7. MarkKept(cur.id)'
      BY <2>3 DEF MarkKept, MarkPending
    <3>8. \A s \in Schedules : MarkKept(s)'
      BY <2>3, <3>6, <3>7
    <3>9. history'[cur'.id].date = Today(cfg, at)'
      BY <2>1, <2>3, <3>4, <3>5 DEF Today
    <3>10. \A s \in Schedules : history'[s].sent <= history'[s].lost + 1
      BY <3>4, <3>5 DEF OncePerDay
    <3>11. QED
      BY <2>3, <3>8, <3>9, <3>10 DEF MarksKept, MarkKept, OncePerDay
  <2>4. QED
    BY <1>4, <2>2, <2>3 DEF Fire, NextSchedule
<1>5. CASE Mark
  <2>1. pc = "mark" /\ pc' = "consider" /\ cur.id \in Schedules /\ history' = history /\ state' = state
    BY <1>0, <1>5 DEF Mark, MarkAt, NextSchedule
  <2>2. lastSent' = [lastSent EXCEPT ![cur.id] = IF state[cur.id] = "deleted" THEN @ ELSE at]
    BY <1>5 DEF Mark, MarkAt
  <2>. PICK m \in Schedules : m = cur.id
    BY <2>1
  <2>3. Marked(m)'
    <3>1. CASE state[m] = "deleted"
      BY <2>1, <3>1 DEF Marked
    <3>2. CASE state[m] # "deleted"
      <4>1. lastSent'[m] = at /\ at # Never
        BY <2>1, <2>2, <3>2 DEF TypeOK
      <4>2. history'[m].date = Today(cfg, at)
        BY <2>1 DEF MarksKept
      <4>3. settings' = settings /\ Today(settings, at) = Today(cfg, at)
        BY <1>0, <1>5, SameDates DEF Mark, MarkAt
      <4>4. QED
        BY <4>1, <4>2, <4>3, <2>1 DEF Marked, Today
    <3>3. QED
      BY <3>1, <3>2
  <2>4. \A s \in Schedules \ {m} : MarkKept(s)'
    BY <1>0, <2>1, <2>2, MarkKeptStays DEF MarkPending, TypeOK
  <2>5. \A s \in Schedules : MarkKept(s)'
    BY <2>3, <2>4 DEF MarkKept
  <2>6. QED
    BY <2>1, <2>5 DEF MarksKept, MarkKept, OncePerDay
<1>6. CASE LoseMark /\ pc' # "mark" /\ UNCHANGED lastSent /\ pc' # "fire"
  <2>1. CASE pc # "mark"
    BY <1>1, <1>6, <2>1 DEF LoseMark
  <2>2. CASE pc = "mark"
    <3>1. /\ history'[cur.id] = Unmarked(history[cur.id])
          /\ \A s \in Schedules \ {cur.id} : history'[s] = history[s]
      BY <1>0, <1>6, <2>2 DEF LoseMark, TypeOK
    <3>2. history[cur.id] \in [date : Int, sent : Nat, lost : Nat]
      BY <1>0, <2>2 DEF TypeOK
    <3>3. history'[cur.id].sent <= history'[cur.id].lost
      BY <1>0, <2>2, <3>1, <3>2 DEF Unmarked, OncePerDay
    <3>4. \A s \in Schedules \ {cur.id} : MarkKept(s)'
      BY <1>0, <1>6, <2>2, <3>1, MarkKeptStays DEF MarkPending
    <3>5. \A s \in Schedules : MarkKept(s)'
      BY <3>3, <3>4 DEF MarkKept
    <3>6. history'[cur.id].lost \in Nat /\ history'[cur.id].sent \in Nat
      BY <1>0, <2>2 DEF TypeOK
    <3>7. \A s \in Schedules : history'[s].sent <= history'[s].lost + 1
      BY <3>1, <3>3, <3>6 DEF OncePerDay
    <3>8. QED
      BY <1>6, <3>5, <3>7 DEF MarksKept, MarkKept, OncePerDay
  <2>3. QED
    BY <2>1, <2>2
<1>7. CASE StoreError
  <2>1. CASE pc = "list" /\ pc' = "countdown" /\ UNCHANGED history
    BY <1>1, <1>7, <2>1 DEF StoreError, tables
  <2>2. CASE pc = "consider" /\ UNCHANGED history /\ pc' = "fire"
             /\ \E c \in todo : Due(c.plan, c.lastSent, cfg, at) /\ cur' = c
    <3>1. UNCHANGED <<cfg, at, lastSent>>
      BY <1>7 DEF StoreError, tables
    <3>2. ~SentToday(cur'.lastSent, cfg, at)
      BY <2>2 DEF Due
    <3>3. QED
      BY <1>1, <2>2, <3>1, <3>2 DEF SentToday, Today
  <2>3. CASE LoseMark /\ NextSchedule
    BY <1>6, <1>7, <2>3 DEF StoreError, NextSchedule, tables
  <2>4. QED
    BY <1>7, <2>1, <2>2, <2>3 DEF StoreError
<1>8. CASE Restart
  BY <1>6, <1>8 DEF Restart, tables
<1>9. CASE UpdateCountdown \/ CountdownError
  BY <1>1, <1>9 DEF UpdateCountdown, CountdownError, tables
<1>10. CASE Quiet
  <2>1. \A s \in Schedules : MarkKept(s)'
    BY <1>0, <1>10, MarkKeptStays DEF Quiet, MarkPending
  <2>2. QED
    BY <1>10, <2>1 DEF Quiet, MarksKept, MarkKept, OncePerDay, SentToday, Today
<1>11. QED
  BY <1>2, <1>3, <1>4, <1>5, <1>7, <1>8, <1>9, <1>10, QuietSteps

-----------------------------------------------------------------------------
(* The tables as long as nobody edits them.                                *)

\* The evaluation works with the tables as they have always been.
AsAtStart ==
  /\ cfg = settings
  /\ \A s \in Schedules : ready[s] /\ state[s] \in {"absent", "on"}
  /\ \A c \in Waiting : c.plan = plan[c.id] /\ state[c.id] = "on"

\* No mark is set, and nobody is reminded, earlier in the day than planned.
OnTime ==
  /\ \A s \in Schedules : SentLate(plan[s], lastSent[s], settings, now)
  /\ pc \in {"fire", "mark"} => cur.plan.sendAt <= Clock(settings, at)

\* What the countdown shows when it is computed, whatever the marks.
Upcoming == Min({NextFire(plan[s], Never, settings, now) : s \in Active})

CountsDown ==
  /\ shown.asOf <= now
  /\ shown.asOf = now /\ Active # {} => shown.until = Upcoming

Unedited == AsAtStart /\ OnTime /\ CountsDown

\* Nothing has been edited, marked or shown.
LEMMA UneditedInit == Init => Unedited
BY DEF Init, Unedited, AsAtStart, Waiting, OnTime, SentLate, CountsDown, NothingShown

\* Edits are never taken back.
LEMMA UneditedSteps ==
  ASSUME TypeOK, [Next]_vars, edits' = 0
  PROVE  /\ edits = 0
         /\ UNCHANGED <<state, plan, settings, holiday, ready>>
         /\ \/ StartTick \/ ListActiveSchedules \/ Fire \/ Mark \/ EvaluationDone
            \/ \E c \in todo : Consider(c)
            \/ UpdateCountdown \/ CountdownError \/ Minute \/ StoreError \/ Restart \/ UNCHANGED vars
<1>1. ~Edit /\ edits \in Nat
  BY DEF TypeOK, Edit
<1>2. \/ StartTick \/ ListActiveSchedules \/ Fire \/ Mark \/ EvaluationDone
      \/ \E c \in todo : Consider(c)
      \/ UpdateCountdown \/ CountdownError \/ Minute \/ StoreError \/ Restart \/ UNCHANGED vars
  BY <1>1 DEF Next, Evaluate, SaveSchedule, ToggleSchedule, DeleteSchedule, EditContacts,
              CreateHoliday, DeleteHoliday, SaveSettings
<1>3. UNCHANGED <<state, plan, settings, holiday, ready, edits>>
  BY <1>2 DEF StartTick, ListActiveSchedules, Fire, Mark, MarkAt, EvaluationDone, Consider,
              UpdateCountdown, CountdownError, Minute, StoreError, Restart, vars, tables, bounds
<1> QED
  BY <1>2, <1>3

\* Copies come from the list, and faults only drop them.
LEMMA AsAtStartNext ==
  ASSUME TypeOK, AsAtStart, [Next]_vars, edits' = 0
  PROVE  AsAtStart'
<1>1. /\ UNCHANGED <<state, plan, settings, holiday, ready>>
      /\ \/ StartTick \/ ListActiveSchedules \/ Fire \/ Mark \/ EvaluationDone
         \/ \E c \in todo : Consider(c)
         \/ UpdateCountdown \/ CountdownError \/ Minute \/ StoreError \/ Restart \/ UNCHANGED vars
  BY UneditedSteps
<1>2. ASSUME cfg' = settings, Waiting' \subseteq Waiting PROVE AsAtStart'
  BY <1>1, <1>2 DEF AsAtStart
<1>3. CASE StartTick
  BY <1>1, <1>2, <1>3 DEF StartTick, Waiting
<1>4. CASE ListActiveSchedules
  BY <1>1, <1>4 DEF ListActiveSchedules, AsAtStart, Waiting
<1>5. CASE Fire
  BY <1>2, <1>5 DEF Fire, NextSchedule, Waiting, AsAtStart
<1>6. CASE Mark
  BY <1>2, <1>6 DEF Mark, MarkAt, NextSchedule, Waiting, AsAtStart
<1>7. CASE EvaluationDone \/ UpdateCountdown \/ CountdownError
  BY <1>2, <1>7 DEF EvaluationDone, UpdateCountdown, CountdownError, Waiting, AsAtStart
<1>8. CASE \E c \in todo : Consider(c)
  BY <1>2, <1>8 DEF Consider, Waiting, AsAtStart
<1>9. CASE StoreError
  BY <1>2, <1>9 DEF StoreError, NextSchedule, Waiting, AsAtStart
<1>10. CASE Restart
  BY <1>2, <1>10 DEF Restart, Waiting, AsAtStart
<1>11. CASE Minute \/ UNCHANGED vars
  BY <1>2, <1>11 DEF Minute, vars, goroutine, Waiting, AsAtStart
<1> QED
  BY <1>1, <1>3, <1>4, <1>5, <1>6, <1>7, <1>8, <1>9, <1>10, <1>11

\* A mark is the minute of the evaluation that has found the schedule due.
LEMMA OnTimeNext ==
  ASSUME TypeOK, TypeOK', AsAtStart, OnTime, [Next]_vars, edits' = 0
  PROVE  OnTime'
<1>1. /\ UNCHANGED <<state, plan, settings, holiday, ready>>
      /\ \/ StartTick \/ ListActiveSchedules \/ Fire \/ Mark \/ EvaluationDone
         \/ \E c \in todo : Consider(c)
         \/ UpdateCountdown \/ CountdownError \/ Minute \/ StoreError \/ Restart \/ UNCHANGED vars
  BY UneditedSteps
<1>2. \A s \in Schedules : lastSent'[s] \in Int /\ lastSent'[s] <= now'
  BY DEF TypeOK
<1>3. ASSUME lastSent' = lastSent PROVE \A s \in Schedules : SentLate(plan[s], lastSent[s], settings, now)'
  BY <1>1, <1>2, <1>3 DEF OnTime, SentLate, Clock
<1>4. \A i : Clock(settings, i)' = Clock(settings, i')
  BY <1>1 DEF Clock
<1>5. CASE pc' \notin {"fire", "mark"} /\ lastSent' = lastSent
  BY <1>3, <1>5 DEF OnTime
<1>6. CASE Fire /\ pc' = "mark"
  BY <1>1, <1>3, <1>6 DEF Fire, NextSchedule, OnTime, tables, Clock
<1>7. CASE Mark
  <2>1. /\ pc = "mark" /\ pc' = "consider" /\ cur \in Waiting /\ cur.id \in Schedules
        /\ cur.plan = plan[cur.id] /\ state[cur.id] = "on"
    BY <1>7 DEF Mark, MarkAt, NextSchedule, Waiting, AsAtStart, TypeOK, Copy
  <2>2. lastSent' = [lastSent EXCEPT ![cur.id] = at]
    BY <1>7, <2>1 DEF Mark, MarkAt
  <2>3. plan[cur.id].sendAt <= Clock(settings, at)
    BY <2>1 DEF OnTime
  <2>4. ASSUME NEW s \in Schedules PROVE SentLate(plan[s], lastSent[s], settings, now)'
    <3>1. CASE s = cur.id
      <4>1. lastSent'[s] = at
        BY <2>2, <3>1 DEF TypeOK
      <4> QED
        BY <1>1, <1>2, <2>3, <3>1, <4>1 DEF SentLate, Clock
    <3>2. CASE s # cur.id
      <4>1. lastSent'[s] = lastSent[s]
        BY <2>2, <3>2 DEF TypeOK
      <4> QED
        BY <1>1, <1>2, <4>1 DEF OnTime, SentLate, Clock
    <3> QED
      BY <3>1, <3>2
  <2> QED
    BY <2>1, <2>4 DEF OnTime
<1>8. CASE (\E c \in todo : Consider(c) /\ cur' = c) /\ pc' = "fire"
  <2>1. PICK c \in todo : Consider(c) /\ cur' = c
    BY <1>8
  <2>2. /\ Due(c.plan, c.lastSent, cfg, at) \/ (pc' = pc /\ pc = "consider")
        /\ UNCHANGED <<tables, at, cfg>>
    BY <2>1 DEF Consider
  <2>3. c.plan.sendAt <= Clock(settings, at) /\ cfg = settings
    BY <1>8, <2>2 DEF Due, Reached, AsAtStart
  <2> QED
    BY <1>1, <1>3, <2>1, <2>2, <2>3 DEF OnTime, tables, Clock
<1>9. CASE StoreError /\ pc' = "fire"
  <2>1. PICK c \in todo : Due(c.plan, c.lastSent, cfg, at) /\ cur' = c
    BY <1>9 DEF StoreError, NextSchedule
  <2>2. UNCHANGED <<tables, at, cfg>>
    BY <1>9 DEF StoreError
  <2>3. c.plan.sendAt <= Clock(settings, at) /\ cfg = settings
    BY <2>1 DEF Due, Reached, AsAtStart
  <2> QED
    BY <1>1, <1>3, <2>1, <2>2, <2>3 DEF OnTime, tables, Clock
<1>10. CASE UNCHANGED <<pc, cur, at, lastSent>>
  BY <1>1, <1>3, <1>10 DEF OnTime, Clock
<1>11. \/ Mark \/ UNCHANGED <<pc, cur, at, lastSent>>
       \/ pc' \notin {"fire", "mark"} /\ lastSent' = lastSent
       \/ Fire /\ pc' = "mark"
       \/ (\E c \in todo : Consider(c) /\ cur' = c) /\ pc' = "fire"
       \/ StoreError /\ pc' = "fire"
  BY <1>1 DEF StartTick, ListActiveSchedules, Fire, EvaluationDone, Consider, NextSchedule,
              UpdateCountdown, CountdownError, Minute, StoreError, Restart, vars, goroutine, tables
<1> QED
  BY <1>5, <1>6, <1>7, <1>8, <1>9, <1>10, <1>11

\* It depends on what users edit and on the time.
LEMMA UpcomingStays ==
  ASSUME UNCHANGED <<state, plan, settings, holiday, now>>
  PROVE  Upcoming' = Upcoming /\ Active' = Active
<1>1. \A p, d : LectureIsHoliday(p, d)' <=> LectureIsHoliday(p, d)
  BY DEF LectureIsHoliday, IsHoliday, LectureDate
<1>2. \A p, d : PastHolidays(p, d)' = PastHolidays(p, d)
  BY <1>1 DEF PastHolidays
<1>3. \A p, l, w, i : NextFire(p, l, w, i)' = NextFire(p, l, w, i)
  BY <1>2 DEF NextFire
<1>4. Active' = Active
  BY DEF Active
<1>5. \A s \in Schedules : NextFire(plan[s], Never, settings, now)' = NextFire(plan[s], Never, settings, now)
  BY <1>3
<1> QED
  BY <1>4, <1>5 DEF Upcoming, Active

\* What is shown for this minute has been computed in it.
LEMMA CountsDownNext ==
  ASSUME TypeOK, OnTime, CountsDown, [Next]_vars, edits' = 0
  PROVE  CountsDown'
<1>1. /\ UNCHANGED <<state, plan, settings, holiday, ready>>
      /\ \/ StartTick \/ ListActiveSchedules \/ Fire \/ Mark \/ EvaluationDone
         \/ \E c \in todo : Consider(c)
         \/ UpdateCountdown \/ CountdownError \/ Minute \/ StoreError \/ Restart \/ UNCHANGED vars
  BY UneditedSteps
<1>2. now \in Nat /\ now \in Int /\ shown.asOf \in Int
  BY DEF TypeOK
<1>3. CASE UNCHANGED <<shown, now>>
  BY <1>1, <1>3, UpcomingStays DEF CountsDown
<1>4. CASE shown' = NothingShown /\ now' = now
  BY <1>2, <1>4 DEF CountsDown, NothingShown
<1>5. CASE Minute
  BY <1>2, <1>5 DEF Minute, CountsDown
<1>6. CASE UpdateCountdown
  <2>1. /\ now' = now
        /\ shown' = [until |-> IF Active = {} THEN Never
                               ELSE Min({NextFire(plan[s], lastSent[s], settings, now) : s \in Active}),
                     asOf |-> now]
    BY <1>6 DEF UpdateCountdown
  <2>2. ASSUME NEW s \in Active
        PROVE  NextFire(plan[s], lastSent[s], settings, now) = NextFire(plan[s], Never, settings, now)
    <3>1. plan[s] \in Plans /\ settings \in Configs /\ SentLate(plan[s], lastSent[s], settings, now)
      BY DEF Active, OnTime, TypeOK
    <3>2. SentLate(plan[s], Never, settings, now)
      BY DEF SentLate
    <3> QED
      BY <1>2, <3>1, <3>2, NextFires
  <2>3. {NextFire(plan[s], lastSent[s], settings, now) : s \in Active}
          = {NextFire(plan[s], Never, settings, now) : s \in Active}
    BY <2>2
  <2>4. Active # {} => shown'.until = Upcoming
    BY <2>1, <2>3 DEF Upcoming
  <2> QED
    BY <1>1, <1>2, <2>1, <2>4, UpcomingStays DEF CountsDown
<1> QED
  BY <1>1, <1>3, <1>4, <1>5, <1>6
     DEF StartTick, ListActiveSchedules, Fire, Mark, MarkAt, EvaluationDone, Consider,
         CountdownError, StoreError, Restart, vars

\* All of it is kept until the first edit.
LEMMA UneditedNext ==
  ASSUME TypeOK, TypeOK', Unedited, [Next]_vars, edits' = 0
  PROVE  Unedited'
BY AsAtStartNext, OnTimeNext, CountsDownNext DEF Unedited

-----------------------------------------------------------------------------
(* No lecture is forgotten while nobody edits and nothing fails.           *)

Undisturbed == edits = 0 /\ faults = 0

\* The mark of a schedule is the date of its last reminder, or is about to be.
MarkTells ==
  \A s \in Schedules :
    /\ history[s].lost = 0
    /\ \/ history[s].sent = 0 /\ lastSent[s] = Never /\ ~MarkPending(s)
       \/ /\ history[s].sent = 1
          /\ \/ MarkPending(s) /\ history[s].date = Today(settings, at)
             \/ /\ ~MarkPending(s) /\ lastSent[s] # Never
                /\ Today(settings, lastSent[s]) = history[s].date

\* A reminder of the schedule belongs into minute c of day d; and it has gone out that day.
Owed(s, d, c) ==
  /\ s \in Active
  /\ Weekday(LectureDate(plan[s], d)) = plan[s].day
  /\ ~IsHoliday(LectureDate(plan[s], d))
  /\ Announces(plan[s], settings, c)

Paid(s, d) == history[s].date = d /\ history[s].sent = 1

\* An evaluation pays what its minute owes, or has it before it.
Paying ==
  pc \in {"consider", "fire", "mark"} =>
    \A s \in Schedules :
      Owed(s, Today(settings, at), Clock(settings, at)) =>
        \/ Paid(s, Today(settings, at))
        \/ \E c \in todo : c.id = s
        \/ pc = "fire" /\ cur.id = s

\* What the evaluated minutes of today owe is paid; an evaluation under way is of today.
PaidToday ==
  /\ \A s \in Schedules : \A c \in seen :
       Owed(s, Today(settings, now), c) => Paid(s, Today(settings, now))
  /\ seen # {} /\ pc # "idle" => Today(settings, at) = Today(settings, now)

\* Who is about to be reminded has not been today.
Unsent == pc = "fire" => ~SentToday(cur.lastSent, settings, at)

Attentive == MarkTells /\ Paying /\ PaidToday /\ Unsent

\* No minute has been evaluated.
LEMMA AttentiveInit == Init => Attentive
<1> SUFFICES ASSUME Init PROVE Attentive
  OBVIOUS
<1>1. MarkTells
  BY DEF Init, MarkTells, MarkPending
<1>2. Paying /\ PaidToday /\ Unsent
  BY DEF Init, Paying, PaidToday, Unsent
<1> QED
  BY <1>1, <1>2 DEF Attentive

\* Nor are faults.
LEMMA UndisturbedSteps ==
  ASSUME TypeOK, [Next]_vars, Undisturbed'
  PROVE  /\ Undisturbed
         /\ UNCHANGED <<state, plan, settings, holiday, ready>>
         /\ \/ StartTick \/ ListActiveSchedules \/ Fire \/ Mark \/ EvaluationDone
            \/ \E c \in todo : Consider(c)
            \/ UpdateCountdown \/ Minute \/ UNCHANGED vars
<1>1. edits' = 0 /\ faults' = 0 /\ faults \in Nat
  BY DEF Undisturbed, TypeOK
<1>2. ~Fault /\ ~CountdownError
  BY <1>1 DEF Fault, CountdownError
<1>3. ~StoreError /\ ~Restart
  BY <1>2 DEF StoreError, Restart
<1>4. /\ edits = 0 /\ UNCHANGED <<state, plan, settings, holiday, ready>>
      /\ \/ StartTick \/ ListActiveSchedules \/ Fire \/ Mark \/ EvaluationDone
         \/ \E c \in todo : Consider(c)
         \/ UpdateCountdown \/ Minute \/ UNCHANGED vars
  BY <1>1, <1>2, <1>3, UneditedSteps
<1>5. faults' = faults
  BY <1>4 DEF StartTick, ListActiveSchedules, Fire, Mark, MarkAt, EvaluationDone, Consider,
              UpdateCountdown, Minute, vars, bounds
<1> QED
  BY <1>1, <1>4, <1>5 DEF Undisturbed

\* What is owed depends on what users edit, not on what evaluations do.
LEMMA OwedStays ==
  UNCHANGED <<state, plan, settings, holiday>> =>
    /\ \A s, d, c : Owed(s, d, c)' <=> Owed(s, d, c)
    /\ \A i : Today(settings, i)' = Today(settings, i') /\ Clock(settings, i)' = Clock(settings, i')
BY DEF Owed, Active, Announces, IsHoliday, Today, Clock

\* The steps that neither send nor mark a reminder.
LEMMA HistoryQuiet ==
  ASSUME MarkTells, UNCHANGED <<settings, lastSent, history>>, pc # "mark", pc' # "mark"
  PROVE  MarkTells'
BY DEF MarkTells, MarkPending, Today

\* All of it is kept until the first edit or fault.
LEMMA AttentiveNext ==
  ASSUME TypeOK, CopiesCurrent, AsAtStart, Attentive, [Next]_vars, Undisturbed'
  PROVE  Attentive'
<1>0. /\ UNCHANGED <<state, plan, settings, holiday, ready>>
      /\ \/ StartTick \/ ListActiveSchedules \/ Fire \/ Mark \/ EvaluationDone
         \/ \E c \in todo : Consider(c)
         \/ UpdateCountdown \/ Minute \/ UNCHANGED vars
  BY UndisturbedSteps
<1>1. \A s, d, c : Owed(s, d, c)' <=> Owed(s, d, c)
  BY <1>0, OwedStays
<1>2. CASE StartTick
  <2>2. MarkTells'
    BY <1>2, HistoryQuiet DEF StartTick, Attentive, tables
  <2>3. Paying'
    BY <1>2 DEF StartTick, Paying
  <2>4. PaidToday'
    BY <1>0, <1>1, <1>2 DEF StartTick, Attentive, PaidToday, Paid, Today
  <2>5. Unsent'
    BY <1>2 DEF StartTick, Unsent
  <2> QED
    BY <2>2, <2>3, <2>4, <2>5 DEF Attentive
<1>3. CASE ListActiveSchedules
  <2>2. MarkTells'
    BY <1>3, HistoryQuiet DEF ListActiveSchedules, Attentive, tables
  <2>3. Paying'
    <3> SUFFICES ASSUME NEW s \in Schedules, s \in Active' PROVE \E c \in todo' : c.id = s
      BY DEF Paying, Owed
    <3>1. state[s] = "on"
      BY <1>0 DEF Active
    <3>2. [id |-> s, plan |-> plan[s], lastSent |-> lastSent[s]] \in todo'
      BY <1>3, <3>1 DEF ListActiveSchedules
    <3> QED
      BY <3>2
  <2>4. PaidToday'
    BY <1>0, <1>1, <1>3 DEF ListActiveSchedules, Attentive, PaidToday, Paid, Today
  <2>5. Unsent'
    BY <1>3 DEF ListActiveSchedules, Unsent
  <2> QED
    BY <2>2, <2>3, <2>4, <2>5 DEF Attentive
<1>4. CASE Fire
  <2>1. cur \in Waiting /\ cur.id \in Schedules /\ state[cur.id] = "on" /\ ready[cur.id]
    BY <1>4 DEF Fire, TypeOK, Copy, Waiting, Attentive, AsAtStart
  <2>2. /\ pc = "fire" /\ pc' = "mark" /\ UNCHANGED <<now, tables, at, cfg, todo, cur, seen>>
        /\ history' = [history EXCEPT ![cur.id] = Reminded(@, Today(cfg, at))]
    BY <1>4, <2>1 DEF Fire
  <2>3. cfg = settings /\ cur.lastSent = lastSent[cur.id]
    BY <2>1 DEF Attentive, AsAtStart, CopiesCurrent
  <2>4. /\ cur.lastSent = Never \/ Today(settings, cur.lastSent) # Today(settings, at)
        /\ ~MarkPending(cur.id)
    BY <2>2 DEF Attentive, Unsent, SentToday, MarkPending
  <2> DEFINE h == history[cur.id]
             d == Today(settings, at)
  <2>6. h.lost = 0 /\ h.sent \in {0, 1} /\ (h.sent = 1 => h.date # d)
    BY <2>1, <2>3, <2>4 DEF Attentive, MarkTells
  <2>7. h \in [date : Int, sent : Nat, lost : Nat]
    BY <2>1 DEF TypeOK
  <2>8. Reminded(h, d).date = d /\ Reminded(h, d).sent = 1 /\ Reminded(h, d).lost = 0
    BY <2>6, <2>7 DEF Reminded
  <2>9. /\ history'[cur.id].date = d /\ history'[cur.id].sent = 1 /\ history'[cur.id].lost = 0
        /\ \A s \in Schedules \ {cur.id} : history'[s] = history[s]
    BY <2>1, <2>2, <2>3, <2>8 DEF TypeOK
  <2> HIDE DEF h, d
  <2>10. d = Today(settings, at) /\ d = Today(settings, at)'
    BY <1>0, <2>2 DEF d, Today
  <2>12. MarkTells'
    <3> SUFFICES ASSUME NEW s \in Schedules
                 PROVE  /\ history'[s].lost = 0
                        /\ \/ history'[s].sent = 0 /\ lastSent'[s] = Never /\ ~MarkPending(s)'
                           \/ /\ history'[s].sent = 1
                              /\ \/ MarkPending(s)' /\ history'[s].date = Today(settings, at)'
                                 \/ /\ ~MarkPending(s)' /\ lastSent'[s] # Never
                                    /\ Today(settings, lastSent[s])' = history'[s].date
      BY DEF MarkTells
    <3>1. lastSent' = lastSent /\ cur' = cur
      BY <2>2 DEF tables
    <3>2. CASE s = cur.id
      BY <2>2, <2>9, <2>10, <3>1, <3>2 DEF MarkPending
    <3>3. CASE s # cur.id
      <4>1. ~MarkPending(s) /\ ~MarkPending(s)'
        BY <2>2, <3>1, <3>3 DEF MarkPending
      <4>2. Today(settings, lastSent[s])' = Today(settings, lastSent[s])
        BY <1>0, <3>1 DEF Today
      <4> QED
        BY <2>9, <3>1, <3>3, <4>1, <4>2 DEF Attentive, MarkTells
    <3> QED
      BY <3>2, <3>3
  <2>13. Paying'
    <3> SUFFICES ASSUME NEW s \in Schedules, Owed(s, Today(settings, at), Clock(settings, at))'
                 PROVE  Paid(s, Today(settings, at))' \/ \E c \in todo' : c.id = s
      BY DEF Paying
    <3>1. Owed(s, d, Clock(settings, at))
      BY <1>0, <1>1, <2>2, <2>10 DEF Today, Clock
    <3>2. CASE s = cur.id
      BY <2>9, <2>10, <3>2 DEF Paid
    <3>3. CASE s # cur.id
      BY <2>2, <2>9, <2>10, <3>1, <3>3 DEF Attentive, Paying, Paid
    <3> QED
      BY <3>2, <3>3
  <2>14. PaidToday'
    <3>1. Today(settings, now)' = Today(settings, now)
      BY <1>0, <2>2 DEF Today
    <3>2. ASSUME NEW s \in Schedules, NEW c \in seen', Owed(s, Today(settings, now), c)'
          PROVE  Paid(s, Today(settings, now))'
      <4>1. Owed(s, Today(settings, now), c) /\ c \in seen
        BY <1>1, <2>2, <3>1, <3>2
      <4>2. Paid(s, Today(settings, now)) /\ Today(settings, now) = d
        BY <2>2, <2>10, <4>1 DEF Attentive, PaidToday
      <4> QED
        BY <2>9, <3>1, <4>2 DEF Paid
    <3> QED
      BY <2>2, <2>10, <3>1, <3>2 DEF Attentive, PaidToday
  <2>15. Unsent'
    BY <2>2 DEF Unsent
  <2> QED
    BY <2>12, <2>13, <2>14, <2>15 DEF Attentive
<1>5. CASE Mark
  <2>1. cur \in Waiting /\ cur.id \in Schedules /\ state[cur.id] = "on"
    BY <1>5 DEF Mark, MarkAt, TypeOK, Copy, Waiting, Attentive, AsAtStart
  <2>2. /\ pc = "mark" /\ pc' = "consider" /\ UNCHANGED <<now, at, cfg, todo, seen, history>>
        /\ lastSent' = [lastSent EXCEPT ![cur.id] = at]
    BY <1>5, <2>1 DEF Mark, MarkAt, NextSchedule
  <2>3. at # Never /\ Today(settings, at)' = Today(settings, at) /\ Today(settings, now)' = Today(settings, now)
    BY <1>0, <2>2 DEF TypeOK, Today
  <2>5. MarkTells'
    <3> SUFFICES ASSUME NEW s \in Schedules
                 PROVE  /\ history[s].lost = 0
                        /\ \/ history[s].sent = 0 /\ lastSent'[s] = Never
                           \/ /\ history[s].sent = 1 /\ lastSent'[s] # Never
                              /\ Today(settings, lastSent[s])' = history[s].date
      BY <2>2 DEF MarkTells, MarkPending
    <3>1. CASE s = cur.id
      <4>1. lastSent'[s] = at /\ MarkPending(s)
        BY <2>1, <2>2, <3>1 DEF TypeOK, MarkPending
      <4>2. Today(settings, lastSent[s])' = Today(settings, at)
        BY <1>0, <4>1 DEF Today
      <4> QED
        BY <2>3, <4>1, <4>2 DEF Attentive, MarkTells
    <3>2. CASE s # cur.id
      <4>1. lastSent'[s] = lastSent[s] /\ ~MarkPending(s)
        BY <2>1, <2>2, <3>2 DEF TypeOK, MarkPending
      <4>2. Today(settings, lastSent[s])' = Today(settings, lastSent[s])
        BY <1>0, <4>1 DEF Today
      <4> QED
        BY <4>1, <4>2 DEF Attentive, MarkTells
    <3> QED
      BY <3>1, <3>2
  <2>6. Paying'
    <3> SUFFICES ASSUME NEW s \in Schedules, Owed(s, Today(settings, at), Clock(settings, at))'
                 PROVE  Paid(s, Today(settings, at))' \/ \E c \in todo' : c.id = s
      BY DEF Paying
    <3>1. Owed(s, Today(settings, at), Clock(settings, at))
      BY <1>0, <1>1, <2>2, <2>3 DEF Clock
    <3> QED
      BY <2>2, <2>3, <3>1 DEF Attentive, Paying, Paid
  <2>7. PaidToday'
    BY <1>1, <2>2, <2>3 DEF Attentive, PaidToday, Paid
  <2>8. Unsent'
    BY <2>2 DEF Unsent
  <2> QED
    BY <2>5, <2>6, <2>7, <2>8 DEF Attentive
<1>6. ASSUME NEW c \in todo, Consider(c) PROVE Attentive'
  <2>1. /\ pc = "consider" /\ todo' = todo \ {c} /\ UNCHANGED <<now, tables, at, cfg, history, seen>>
        /\ \/ pc' = "fire" /\ cur' = c /\ Due(c.plan, c.lastSent, cfg, at)
           \/ /\ pc' = "consider" /\ cur' = cur
              /\ ~(Due(c.plan, c.lastSent, cfg, at) /\ ~LectureIsHoliday(c.plan, Today(cfg, at)))
    BY <1>6 DEF Consider
  <2>2. /\ c \in Waiting /\ c.id \in Schedules /\ c.plan = plan[c.id] /\ c.lastSent = lastSent[c.id]
        /\ cfg = settings
    BY DEF TypeOK, Copy, Waiting, CopiesCurrent, Attentive, AsAtStart
  <2>3. /\ Today(settings, at)' = Today(settings, at) /\ Today(settings, now)' = Today(settings, now)
        /\ Clock(settings, at)' = Clock(settings, at)
    BY <1>0, <2>1 DEF Today, Clock
  <2>5. MarkTells'
    BY <1>0, <2>1, HistoryQuiet DEF Attentive, tables
  <2>6. Unsent'
    BY <1>0, <2>1, <2>2 DEF Unsent, Due, SentToday, Today
  <2>7. PaidToday'
    BY <1>1, <2>1, <2>3 DEF Attentive, PaidToday, Paid
  <2>8. Paying'
    <3> SUFFICES ASSUME NEW s \in Schedules, Owed(s, Today(settings, at), Clock(settings, at))'
                 PROVE  \/ Paid(s, Today(settings, at))' \/ \E e \in todo' : e.id = s
                        \/ pc' = "fire" /\ cur'.id = s
      BY DEF Paying
    <3>1. Owed(s, Today(settings, at), Clock(settings, at))
      BY <1>1, <2>3
    <3>2. CASE Paid(s, Today(settings, at))
      BY <2>1, <2>3, <3>2 DEF Paid
    <3>3. CASE c.id = s
      <4>1. CASE pc' = "fire" /\ cur' = c
        BY <3>3, <4>1
      <4>2. CASE ~(Due(c.plan, c.lastSent, cfg, at) /\ ~LectureIsHoliday(c.plan, Today(cfg, at)))
        <5>1. SentToday(lastSent[s], settings, at)
          BY <2>2, <3>1, <3>3, <4>2 DEF Owed, Due, Announces, Reached, LectureIsHoliday
        <5>2. ~MarkPending(s)
          BY <2>1 DEF MarkPending
        <5>3. Paid(s, Today(settings, at))
          BY <5>1, <5>2 DEF SentToday, Paid, Attentive, MarkTells
        <5> QED
          BY <2>1, <2>3, <5>3 DEF Paid
      <4> QED
        BY <2>1, <4>1, <4>2
    <3>4. CASE \E e \in todo : e.id = s /\ e # c
      BY <2>1, <3>4
    <3> QED
      BY <2>1, <3>1, <3>2, <3>3, <3>4 DEF Attentive, Paying
  <2> QED
    BY <2>5, <2>6, <2>7, <2>8 DEF Attentive
<1>7. CASE EvaluationDone
  <2>1. /\ pc = "consider" /\ todo = {} /\ pc' = "countdown"
        /\ seen' = IF Today(settings, at) = Today(settings, now) THEN seen \cup {Clock(settings, at)} ELSE seen
        /\ UNCHANGED <<now, tables, at, cfg, todo, cur, history>>
    BY <1>7 DEF EvaluationDone
  <2>2. /\ Today(settings, at)' = Today(settings, at) /\ Today(settings, now)' = Today(settings, now)
    BY <1>0, <2>1 DEF Today
  <2>4. MarkTells'
    BY <1>0, <2>1, HistoryQuiet DEF Attentive, tables
  <2>5. Paying' /\ Unsent'
    BY <2>1 DEF Paying, Unsent
  <2>6. PaidToday'
    <3>1. ASSUME NEW s \in Schedules, NEW c \in seen', Owed(s, Today(settings, now), c)'
          PROVE  Paid(s, Today(settings, now))'
      <4>1. Owed(s, Today(settings, now), c)
        BY <1>1, <2>2, <3>1
      <4>2. CASE c \in seen
        BY <2>1, <2>2, <4>1, <4>2 DEF Attentive, PaidToday, Paid
      <4>3. CASE c \notin seen
        <5>1. c = Clock(settings, at) /\ Today(settings, at) = Today(settings, now)
          BY <2>1, <3>1, <4>3
        <5>2. Paid(s, Today(settings, at))
          BY <2>1, <4>1, <5>1 DEF Attentive, Paying
        <5> QED
          BY <2>1, <2>2, <5>1, <5>2 DEF Paid
      <4> QED
        BY <4>2, <4>3
    <3>2. seen' # {} => Today(settings, at) = Today(settings, now)
      BY <2>1 DEF Attentive, PaidToday
    <3> QED
      BY <2>2, <3>1, <3>2 DEF PaidToday
  <2> QED
    BY <2>4, <2>5, <2>6 DEF Attentive
<1>8. CASE UpdateCountdown
  <2>1. /\ pc' = "idle" /\ pc \in {"idle", "countdown"} /\ UNCHANGED <<now, tables, cfg, todo, cur, history, seen>>
    BY <1>8 DEF UpdateCountdown
  <2>2. Today(settings, now)' = Today(settings, now)
    BY <1>0, <2>1 DEF Today
  <2>4. MarkTells'
    BY <1>0, <2>1, HistoryQuiet DEF Attentive, tables
  <2>5. Paying' /\ Unsent'
    BY <2>1 DEF Paying, Unsent
  <2>6. PaidToday'
    BY <1>1, <2>1, <2>2 DEF Attentive, PaidToday, Paid
  <2> QED
    BY <2>4, <2>5, <2>6 DEF Attentive
<1>9. CASE Minute
  <2>1. /\ UNCHANGED <<tables, goroutine, history>>
        /\ seen' = IF Today(settings, now') = Today(settings, now) THEN seen ELSE {}
    BY <1>9 DEF Minute
  <2>2. /\ Today(settings, at)' = Today(settings, at) /\ Clock(settings, at)' = Clock(settings, at)
        /\ Today(settings, now)' = Today(settings, now')
    BY <1>0, <2>1 DEF goroutine, Today, Clock
  <2>4. MarkTells'
    BY <1>0, <2>1, <2>2 DEF goroutine, tables, Attentive, MarkTells, MarkPending, Today
  <2>5. Paying'
    BY <1>1, <2>1, <2>2 DEF goroutine, Attentive, Paying, Paid
  <2>6. Unsent'
    BY <1>0, <2>1 DEF goroutine, Attentive, Unsent, SentToday, Today
  <2>7. PaidToday'
    <3>1. CASE seen' = {}
      BY <3>1 DEF PaidToday
    <3>2. CASE seen' # {}
      <4>1. seen' = seen /\ Today(settings, now') = Today(settings, now)
        BY <2>1, <3>2
      <4> QED
        BY <1>1, <2>1, <2>2, <4>1 DEF goroutine, Attentive, PaidToday, Paid
    <3> QED
      BY <3>1, <3>2
  <2> QED
    BY <2>4, <2>5, <2>6, <2>7 DEF Attentive
<1>10. CASE UNCHANGED vars
  BY <1>1, <1>10 DEF vars, tables, goroutine, Attentive, MarkTells, MarkPending,
                     Paying, PaidToday, Paid, Unsent, SentToday, Today, Clock
<1> QED
  BY <1>0, <1>2, <1>3, <1>4, <1>5, <1>6, <1>7, <1>8, <1>9, <1>10

-----------------------------------------------------------------------------
(* The theorems.                                                           *)

\* What the run SchedulerEdits checks is inductive for all constants.
THEOREM Invariance == Spec => []IInv
<1>1. Init => IInv
  BY TypeInit, CopiesInit, FreshInit, MarksInit DEF IInv
<1>2. IInv /\ [Next]_vars => IInv'
  <2> SUFFICES ASSUME IInv, [Next]_vars PROVE IInv'
    OBVIOUS
  <2>1. (TypeOK /\ CopiesCurrent /\ CopiesFresh)'
    BY TypeNext, CopiesNext, FreshNext DEF IInv
  <2>2. OneZone => (MarksKept /\ OncePerDay)'
    BY <2>1, MarksNext DEF IInv
  <2>3. OneZone' <=> OneZone
    BY DEF OneZone
  <2>4. QED
    BY <2>1, <2>2, <2>3 DEF IInv
<1>3. QED
  BY <1>1, <1>2, PTL DEF Spec

\* However users edit a schedule during the day, one reminder goes out on it
\* unless a mark was lost, as long as no edit of the settings moves the date.
THEOREM OneReminder == Spec => [](OneZone => OncePerDay)
<1>1. IInv => (OneZone => OncePerDay)
  BY DEF IInv
<1>2. QED
  BY <1>1, Invariance, PTL

\* A reminder goes out on facts at most one evaluation old: holidays, and
\* whether the schedule is on.
THEOREM FreshReminders == Spec => FreshFacts
<1>1. IInv /\ [Next]_vars =>
        [pc = "fire" /\ pc' = "mark" =>
           /\ \/ ~IsHoliday(LectureDate(cur.plan, Today(cfg, at)))
              \/ holiday[LectureDate(cur.plan, Today(cfg, at))] >= at
              \/ faults > 0
           /\ state[cur.id] = "on" \/ since[cur.id] >= at]_vars
  BY DEF IInv, CopiesFresh, Waiting
<1>2. QED
  BY <1>1, Invariance, PTL DEF Spec, FreshFacts

\* Until the first edit, and until the first fault.
LEMMA Undisturbedly == Spec => [](IInv /\ (edits = 0 => Unedited) /\ (Undisturbed => Attentive))
<1> DEFINE J == IInv /\ (edits = 0 => Unedited) /\ (Undisturbed => Attentive)
<1>1. Init => Unedited /\ Attentive
  BY UneditedInit, AttentiveInit
<1>2. J /\ [Next]_vars /\ IInv' => J'
  <2> SUFFICES ASSUME J, [Next]_vars, IInv' PROVE (edits = 0 => Unedited)' /\ (Undisturbed => Attentive)'
    OBVIOUS
  <2>1. TypeOK /\ CopiesCurrent /\ TypeOK'
    BY DEF IInv
  <2>2. ASSUME edits' = 0 PROVE Unedited' /\ AsAtStart
    <3>1. Unedited
      BY <2>1, <2>2, UneditedSteps
    <3> QED
      BY <2>1, <2>2, <3>1, UneditedNext DEF Unedited
  <2>3. ASSUME Undisturbed' PROVE Attentive'
    <3>1. Attentive /\ edits' = 0
      BY <2>1, <2>3, UndisturbedSteps DEF Undisturbed
    <3> QED
      BY <2>1, <2>2, <2>3, <3>1, AttentiveNext
  <2> QED
    BY <2>2, <2>3
<1> QED
  BY <1>1, <1>2, Invariance, PTL DEF Spec

\* A minute missed is not a day missed: before midnight every lecture that is on
\* no holiday has had its reminder, once, if any minute of the window between its
\* send time and its start was evaluated: evaluateTick.
THEOREM NoLectureForgotten == Spec => NothingForgotten
<1> DEFINE Kept == LET d == Today(settings, now) IN
                   now' # now /\ seen' = {} /\ edits = 0 /\ faults = 0 =>
                     \A s \in Active :
                       /\ Weekday(LectureDate(plan[s], d)) = plan[s].day
                       /\ ~IsHoliday(LectureDate(plan[s], d))
                       /\ \E c \in seen : Announces(plan[s], settings, c)
                       => history[s].date = d /\ history[s].sent = 1
<1>1. (Undisturbed => Attentive) => Kept
  BY DEF Undisturbed, Attentive, PaidToday, Owed, Paid, Active
<1>2. (Undisturbed => Attentive) => [Kept]_vars
  BY <1>1
<1> QED
  BY <1>2, Undisturbedly, PTL DEF NothingForgotten

\* The countdown of the dashboard runs to the minute in which evaluateTick fires
\* next, through failed statements and restarts, before anything is edited, if
\* nothing is due now, every schedule can be sent on time, and no lecture meets
\* five holidays running, after which calculateNextFireTime stops looking.
THEOREM CountdownIsTrue == Spec => [](FewHolidays => CountdownAgrees)
<1>1. IInv /\ (edits = 0 => Unedited) => (FewHolidays => CountdownAgrees)
  <2> SUFFICES ASSUME IInv, Unedited, FewHolidays, shown.asOf = now, Active # {},
                      \A s \in Active : SendableOnTime(s) /\ ~Fires(s, settings, now)
               PROVE  shown.until = Min({FirstFire(s) : s \in Active})
    BY DEF CountdownAgrees
  <2>1. TypeOK /\ OnTime /\ shown.until = Upcoming
    BY DEF IInv, Unedited, CountsDown
  <2>2. ASSUME NEW s \in Active PROVE FirstFire(s) = NextFire(plan[s], Never, settings, now)
    <3>1. /\ plan[s] \in Plans /\ settings \in Configs /\ now \in Int
          /\ SentLate(plan[s], lastSent[s], settings, now) /\ SentLate(plan[s], Never, settings, now)
      BY <2>1 DEF Active, OnTime, TypeOK, SentLate
    <3>2. FirstFire(s) = NextFire(plan[s], lastSent[s], settings, now)
      BY <2>1, <3>1, FirstFires
    <3> QED
      BY <3>1, <3>2, NextFires
  <2>3. {FirstFire(s) : s \in Active} = {NextFire(plan[s], Never, settings, now) : s \in Active}
    BY <2>2
  <2> QED
    BY <2>1, <2>3 DEF Upcoming
<1> QED
  BY <1>1, Undisturbedly, PTL
=============================================================================
