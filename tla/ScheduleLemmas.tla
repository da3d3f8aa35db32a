--------------------------- MODULE ScheduleLemmas ---------------------------
(***************************************************************************)
(* What schedule.Next and NextSchedule return, for every time, every       *)
(* schedule, every jitter and every size of the units of time.             *)
(*                                                                         *)
(* The comparison by hour, minute and second is the comparison of numbers  *)
(* in a mixed radix; PassedIff says so, and the rest is linear.            *)
(***************************************************************************)
EXTENDS Schedule, TLAPS

----------------------------------------------------------------------------
(* Arithmetic.                                                             *)

\* The division theorem.
LEMMA DivMod ==
    ASSUME NEW a \in Int, NEW b \in Nat \ {0}
    PROVE  /\ a \div b \in Int
           /\ a % b \in 0..b - 1
           /\ a = b * (a \div b) + (a % b)
  OBVIOUS

\* Quotient and remainder are unique.
LEMMA DivUnique ==
    ASSUME NEW a \in Int, NEW b \in Nat \ {0}, NEW q \in Int, NEW r \in 0..b - 1,
           a = b * q + r
    PROVE  a \div b = q /\ a % b = r
  OBVIOUS

\* Positive numbers have a positive product.
LEMMA Product ==
    ASSUME NEW a \in Nat \ {0}, NEW b \in Nat \ {0}
    PROVE  a * b \in Nat \ {0}
  OBVIOUS

\* A number below b * c has a quotient by b below c.
LEMMA DigitRange ==
    ASSUME NEW b \in Nat \ {0}, NEW c \in Nat \ {0}, NEW x \in 0..b * c - 1
    PROVE  x \div b \in 0..c - 1
  <1>1. /\ x \div b \in Int /\ x % b \in 0..b - 1 /\ x = b * (x \div b) + (x % b)
        /\ b * c \in Nat
    BY DivMod, Product
  <1> DEFINE q == x \div b
             r == x % b
  <1>2. q \in Int /\ r \in 0..b - 1 /\ b * q + r \in 0..b * c - 1
    BY <1>1
  <1> HIDE DEF q, r
  <1>3. q >= 0
    <2>1. SUFFICES ASSUME q <= -1 PROVE FALSE
      BY <1>2
    <2>2. b * q <= b * (-1)
      BY <2>1, <1>2
    <2> QED BY <2>2, <1>2
  <1>4. q < c
    <2>1. SUFFICES ASSUME c <= q PROVE FALSE
      BY <1>2
    <2>2. b * c <= b * q
      BY <2>1, <1>2
    <2> QED BY <2>2, <1>2
  <1> QED BY <1>2, <1>3, <1>4 DEF q

\* The remainder by b of the remainder by b * c.
LEMMA ModOfMod ==
    ASSUME NEW a \in Int, NEW b \in Nat \ {0}, NEW c \in Nat \ {0}
    PROVE  (a % (b * c)) % b = a % b
  <1>0. b * c \in Nat \ {0}
    BY Product
  <1> DEFINE q == a \div (b * c)
             x == a % (b * c)
  <1>1. q \in Int /\ x \in 0..b * c - 1 /\ a = (b * c) * q + x
    BY <1>0, DivMod
  <1>2. x \in Int
    BY <1>0, <1>1
  <1> HIDE DEF q, x
  <1> DEFINE p == x \div b
             r == x % b
  <1>3. p \in Int /\ r \in 0..b - 1 /\ x = b * p + r
    BY <1>2, DivMod
  <1> HIDE DEF p, r
  <1>4. c * q + p \in Int
    BY <1>1, <1>3
  <1>5. a = b * (c * q + p) + r
    BY <1>1, <1>3
  <1>6. a % b = r
    BY <1>3, <1>4, <1>5, DivUnique
  <1> QED BY <1>6 DEF r, x

\* Numbers of two digits are ordered by the first, then by the second.
LEMMA Digits ==
    ASSUME NEW b \in Nat \ {0}, NEW p \in Int, NEW q \in Int,
           NEW x \in 0..b - 1, NEW y \in 0..b - 1
    PROVE  q * b + y <= p * b + x <=> p > q \/ (p = q /\ x >= y)
  <1>1. CASE p > q
    <2>1. (q + 1) * b <= p * b
      BY <1>1
    <2>2. (q + 1) * b = q * b + b
      OBVIOUS
    <2> QED BY <1>1, <2>1, <2>2
  <1>2. CASE p = q
    BY <1>2
  <1>3. CASE p < q
    <2>1. (p + 1) * b <= q * b
      BY <1>3
    <2>2. (p + 1) * b = p * b + b
      OBVIOUS
    <2> QED BY <1>3, <2>1, <2>2
  <1> QED BY <1>1, <1>2, <1>3

\* A number of two digits stays below the product of the radices.
LEMMA DigitsBelow ==
    ASSUME NEW b \in Nat \ {0}, NEW c \in Nat \ {0}, NEW q \in 0..c - 1, NEW y \in 0..b - 1
    PROVE  q * b + y \in 0..b * c - 1
  <1>1. (q + 1) * b <= c * b
    OBVIOUS
  <1>2. (q + 1) * b = q * b + b /\ q * b >= 0 /\ q * b \in Int /\ c * b = b * c /\ b * c \in Int
    OBVIOUS
  <1> QED BY <1>1, <1>2

----------------------------------------------------------------------------
(* The clock.                                                              *)

\* Every unit of time has a positive number of ticks.
LEMMA Units ==
    /\ Second \in Nat \ {0} /\ Minute \in Nat \ {0} /\ Hour \in Nat \ {0} /\ Day \in Nat \ {0}
    /\ SecondsPerMinute \in Nat \ {0} /\ MinutesPerHour \in Nat \ {0}
    /\ HoursPerDay \in Nat \ {0} /\ Quantum \in Nat \ {0}
  <1>1. /\ Second \in Nat \ {0} /\ SecondsPerMinute \in Nat \ {0}
        /\ MinutesPerHour \in Nat \ {0} /\ HoursPerDay \in Nat \ {0} /\ Quantum \in Nat \ {0}
    BY TicksAssumption, ScheduleAssumption
  <1>2. Minute \in Nat \ {0}
    BY <1>1, Product DEF Minute
  <1>3. Hour \in Nat \ {0}
    BY <1>1, <1>2, Product DEF Hour
  <1>4. Day \in Nat \ {0}
    BY <1>1, <1>3, Product DEF Day
  <1> QED BY <1>1, <1>2, <1>3, <1>4

\* A time is its day, hour, minute and second and a fraction of a second.
LEMMA ClockDigits ==
    ASSUME NEW t \in Int
    PROVE  \E f \in 0..Second - 1 :
             LET c == Clock(t) IN
             /\ c.h \in 0..HoursPerDay - 1
             /\ c.m \in 0..MinutesPerHour - 1
             /\ c.s \in 0..SecondsPerMinute - 1
             /\ t = (t \div Day) * Day + (c.h * Hour + (c.m * Minute + (c.s * Second + f)))
  <1> USE Units
  <1> DEFINE d == t \div Day
             x == t % Day
             y == t % Hour
             z == t % Minute
             f == t % Second
  <1>1. d \in Int /\ x \in 0..Day - 1 /\ y \in 0..Hour - 1 /\ z \in 0..Minute - 1
        /\ f \in 0..Second - 1 /\ t = Day * d + x
    BY DivMod
  <1>2. x % Hour = y
    BY ModOfMod DEF Day
  <1>3. y % Minute = z
    BY ModOfMod DEF Hour
  <1>4. z % Second = f
    BY ModOfMod DEF Minute
  <1>5. x \div Hour \in 0..HoursPerDay - 1
    BY <1>1, DigitRange DEF Day
  <1>6. y \div Minute \in 0..MinutesPerHour - 1
    BY <1>1, DigitRange DEF Hour
  <1>7. z \div Second \in 0..SecondsPerMinute - 1
    BY <1>1, DigitRange DEF Minute
  <1>8. x \in Int /\ y \in Int /\ z \in Int
    BY <1>1
  <1>9. Clock(t) = [h |-> x \div Hour, m |-> y \div Minute, s |-> z \div Second]
    BY DEF Clock
  <1> HIDE DEF d, x, y, z, f
  <1>10. /\ x = Hour * (x \div Hour) + y
         /\ y = Minute * (y \div Minute) + z
         /\ z = Second * (z \div Second) + f
    BY <1>8, <1>2, <1>3, <1>4, DivMod
  <1> DEFINE ch == x \div Hour
             cm == y \div Minute
             cs == z \div Second
  <1>11. Clock(t).h = ch /\ Clock(t).m = cm /\ Clock(t).s = cs
    BY <1>9
  <1>12. ch \in Int /\ cm \in Int /\ cs \in Int
    BY <1>5, <1>6, <1>7
  <1>13. t = Day * d + (Hour * ch + (Minute * cm + (Second * cs + f)))
    BY <1>1, <1>10
  <1> HIDE DEF ch, cm, cs
  <1>14. t = d * Day + (ch * Hour + (cm * Minute + (cs * Second + f)))
    BY <1>1, <1>12, <1>13
  <1>15. /\ Clock(t).h \in 0..HoursPerDay - 1
         /\ Clock(t).m \in 0..MinutesPerHour - 1
         /\ Clock(t).s \in 0..SecondsPerMinute - 1
    BY <1>5, <1>6, <1>7, <1>9
  <1>16. t = (t \div Day) * Day
             + (Clock(t).h * Hour + (Clock(t).m * Minute + (Clock(t).s * Second + f)))
    BY <1>11, <1>14 DEF d
  <1> QED BY <1>1, <1>15, <1>16

\* A time of day is less than a day.
LEMMA OffsetInDay ==
    ASSUME NEW sc \in Schedules
    PROVE  Offset(sc) \in 0..Day - 1
  <1> USE Units
  <1>1. /\ sc.h \in 0..HoursPerDay - 1 /\ sc.m \in 0..MinutesPerHour - 1
        /\ sc.s \in 0..SecondsPerMinute - 1
    BY DEF Schedules
  <1>2. sc.s * Second + 0 \in 0..Minute - 1
    BY <1>1, DigitsBelow DEF Minute
  <1>3. sc.m * Minute + (sc.s * Second + 0) \in 0..Hour - 1
    BY <1>1, <1>2, DigitsBelow DEF Hour
  <1>4. sc.h * Hour + (sc.m * Minute + (sc.s * Second + 0)) \in 0..Day - 1
    BY <1>1, <1>3, DigitsBelow DEF Day
  <1>5. sc.h * Hour \in Int /\ sc.m * Minute \in Int /\ sc.s * Second \in Int
    BY <1>1
  <1> QED BY <1>4, <1>5 DEF Offset

\* The chain of comparisons in schedule.Next asks whether today's instant of
\* the schedule has come.
LEMMA PassedIff ==
    ASSUME NEW sc \in Schedules, NEW t \in Int
    PROVE  Passed(sc, Clock(t)) <=> (t \div Day) * Day + Offset(sc) <= t
  <1> USE Units
  <1>1. /\ sc.h \in 0..HoursPerDay - 1 /\ sc.m \in 0..MinutesPerHour - 1
        /\ sc.s \in 0..SecondsPerMinute - 1
    BY DEF Schedules
  <1> DEFINE c == Clock(t)
  <1>2. PICK f \in 0..Second - 1 :
          /\ c.h \in 0..HoursPerDay - 1
          /\ c.m \in 0..MinutesPerHour - 1
          /\ c.s \in 0..SecondsPerMinute - 1
          /\ t = (t \div Day) * Day + (c.h * Hour + (c.m * Minute + (c.s * Second + f)))
    BY ClockDigits
  <1> HIDE DEF c
  <1>r. /\ c.h \in 0..HoursPerDay - 1 /\ c.m \in 0..MinutesPerHour - 1
        /\ c.s \in 0..SecondsPerMinute - 1
    BY <1>2
  <1>3. sc.s * Second + 0 <= c.s * Second + f <=> c.s > sc.s \/ (c.s = sc.s /\ f >= 0)
    <2>1. 0 \in 0..Second - 1
      OBVIOUS
    <2>2. sc.s \in Int /\ c.s \in Int
      BY <1>1, <1>r
    <2> QED BY <2>1, <2>2, Digits
  <1>4. c.s * Second + f \in 0..Minute - 1 /\ sc.s * Second + 0 \in 0..Minute - 1
    BY <1>1, <1>r, DigitsBelow DEF Minute
  <1> DEFINE x == c.s * Second + f
             y == sc.s * Second + 0
  <1>5. x \in 0..Minute - 1 /\ y \in 0..Minute - 1 /\ (y <= x <=> c.s >= sc.s)
    BY <1>1, <1>r, <1>3, <1>4
  <1> HIDE DEF x, y
  <1>6. sc.m * Minute + y <= c.m * Minute + x <=> c.m > sc.m \/ (c.m = sc.m /\ x >= y)
    BY <1>1, <1>r, <1>5, Digits
  <1>7. c.m * Minute + x \in 0..Hour - 1 /\ sc.m * Minute + y \in 0..Hour - 1
    BY <1>1, <1>r, <1>5, DigitsBelow DEF Hour
  <1> DEFINE u == c.m * Minute + x
             v == sc.m * Minute + y
  <1>8. u \in 0..Hour - 1 /\ v \in 0..Hour - 1
        /\ (v <= u <=> c.m > sc.m \/ (c.m = sc.m /\ c.s >= sc.s))
    <2>1. x >= y <=> c.s >= sc.s
      BY <1>5
    <2> QED BY <2>1, <1>6, <1>7
  <1> HIDE DEF u, v
  <1>9. sc.h * Hour + v <= c.h * Hour + u <=> c.h > sc.h \/ (c.h = sc.h /\ u >= v)
    BY <1>1, <1>r, <1>8, Digits
  <1>10. sc.h * Hour + v <= c.h * Hour + u <=> Passed(sc, c)
    <2>1. u >= v <=> v <= u
      BY <1>8
    <2> QED BY <2>1, <1>8, <1>9 DEF Passed
  <1>11. t = (t \div Day) * Day + (c.h * Hour + u)
    BY <1>2 DEF u, x
  <1>12. Offset(sc) = sc.h * Hour + v
    <2>1. sc.h * Hour \in Int /\ sc.m * Minute \in Int /\ sc.s * Second \in Int
      BY <1>1
    <2> QED BY <2>1 DEF v, y, Offset
  <1>13. (t \div Day) * Day \in Int /\ c.h * Hour + u \in Int /\ sc.h * Hour + v \in Int
    <2>1. t \div Day \in Int
      BY DivMod
    <2>2. c.h \in Int /\ sc.h \in Int /\ u \in Int /\ v \in Int
      BY <1>1, <1>r, <1>8
    <2> QED BY <2>1, <2>2
  <1>14. (t \div Day) * Day + Offset(sc) <= t <=> sc.h * Hour + v <= c.h * Hour + u
    BY <1>11, <1>12, <1>13
  <1> QED BY <1>10, <1>14 DEF c

----------------------------------------------------------------------------
(* schedule.Next.                                                          *)

\* The result lies after t, by no more than a day, at the time of day sc.
LEMMA NextBounds ==
    ASSUME NEW daily \in Schedules, NEW t \in Int
    PROVE  \E k \in Int :
             /\ ScheduleNext(daily, t) = k * Day + Offset(daily)
             /\ t < k * Day + Offset(daily)
             /\ k * Day + Offset(daily) <= t + Day
  <1> USE Units
  <1> DEFINE d == t \div Day
             o == Offset(daily)
  <1>1. d \in Int /\ t % Day \in 0..Day - 1 /\ t = Day * d + (t % Day)
    BY DivMod
  <1>2. o \in 0..Day - 1
    BY OffsetInDay
  <1>3. Passed(daily, Clock(t)) <=> d * Day + o <= t
    BY PassedIff
  <1>4. ScheduleNext(daily, t) = (d + (IF Passed(daily, Clock(t)) THEN 1 ELSE 0)) * Day + o
    BY DEF ScheduleNext
  <1> HIDE DEF d, o
  <1>5. d * Day \in Int /\ d * Day <= t /\ t < d * Day + Day
    BY <1>1
  <1>6. CASE Passed(daily, Clock(t))
    <2>1. ScheduleNext(daily, t) = (d + 1) * Day + o
      BY <1>4, <1>6
    <2>2. (d + 1) * Day = d * Day + Day
      BY <1>1
    <2>3. t < (d + 1) * Day + o /\ (d + 1) * Day + o <= t + Day
      BY <1>2, <1>3, <1>5, <1>6, <2>2
    <2>4. d + 1 \in Int
      BY <1>1
    <2> QED BY <2>1, <2>3, <2>4 DEF o
  <1>7. CASE ~Passed(daily, Clock(t))
    <2>1. ScheduleNext(daily, t) = d * Day + o
      BY <1>1, <1>4, <1>7
    <2>2. t < d * Day + o /\ d * Day + o <= t + Day
      BY <1>2, <1>3, <1>5, <1>7
    <2> QED BY <1>1, <2>1, <2>2 DEF o
  <1> QED BY <1>6, <1>7

\* Within one day the remainder determines the time.
LEMMA OneADay ==
    ASSUME NEW t \in Int, NEW d \in t + 1 .. t + Day, NEW e \in t + 1 .. t + Day,
           d % Day = e % Day
    PROVE  d = e
  <1> USE Units
  <1> DEFINE p == d \div Day
             q == e \div Day
             r == d % Day
  <1>1. p \in Int /\ q \in Int /\ r \in Int /\ d = Day * p + r /\ e = Day * q + r
    BY DivMod
  <1> HIDE DEF p, q, r
  <1>2. CASE p > q
    <2>1. Day * p >= Day * (q + 1) /\ Day * (q + 1) = Day * q + Day
      BY <1>1, <1>2
    <2> QED BY <1>1, <2>1
  <1>3. CASE q > p
    <2>1. Day * q >= Day * (p + 1) /\ Day * (p + 1) = Day * p + Day
      BY <1>1, <1>3
    <2> QED BY <1>1, <2>1
  <1> QED BY <1>1, <1>2, <1>3

\* schedule.Next, against its reference definition.
LEMMA NextIsLeastInDay ==
    ASSUME NEW daily \in Schedules, NEW t \in Int
    PROVE  {d \in t + 1 .. t + Day : d % Day = Offset(daily)} = {ScheduleNext(daily, t)}
  <1> USE Units
  <1>1. PICK k \in Int :
          /\ ScheduleNext(daily, t) = k * Day + Offset(daily)
          /\ t < k * Day + Offset(daily)
          /\ k * Day + Offset(daily) <= t + Day
    BY NextBounds
  <1> DEFINE n == ScheduleNext(daily, t)
  <1>2. Offset(daily) \in 0..Day - 1
    BY OffsetInDay
  <1>3. n \in Int /\ n = Day * k + Offset(daily)
    BY <1>1, <1>2
  <1>4. n \in t + 1 .. t + Day
    BY <1>1, <1>3
  <1>5. n % Day = Offset(daily)
    BY <1>2, <1>3, DivUnique
  <1> HIDE DEF n
  <1>6. \A d \in t + 1 .. t + Day : d % Day = Offset(daily) => d = n
    BY <1>4, <1>5, OneADay
  <1> QED BY <1>4, <1>5, <1>6 DEF n

----------------------------------------------------------------------------
(* The jitter.                                                             *)

\* Half the jitter, as Go rounds it.
LEMMA HalfJitterType ==
    ASSUME NEW j \in Int
    PROVE  /\ HalfJitter(j) \in Nat
           /\ j > 0 => j \div 2 = HalfJitter(j) /\ j - 1 <= 2 * HalfJitter(j)
  BY DEF HalfJitter

\* Duration.Truncate never moves away from zero.
LEMMA TruncateBounds ==
    ASSUME NEW a \in Int, NEW b \in Nat, -b <= a, a <= b
    PROVE  Truncate(a, Quantum) \in -b..b
  <1> USE Units
  <1>1. CASE a >= 0
    <2> DEFINE q == a \div Quantum
    <2>1. q \in Int /\ a % Quantum \in 0..Quantum - 1 /\ a = Quantum * q + (a % Quantum)
      BY DivMod
    <2>2. q >= 0
      <3>1. SUFFICES ASSUME q <= -1 PROVE FALSE
        BY <2>1
      <3> HIDE DEF q
      <3>2. Quantum * q <= Quantum * (-1)
        BY <2>1, <3>1
      <3> QED BY <1>1, <2>1, <3>2
    <2>3. Truncate(a, Quantum) = q * Quantum
      BY <1>1 DEF Truncate, Towards0
    <2> HIDE DEF q
    <2>4. q * Quantum >= 0 /\ q * Quantum <= a /\ q * Quantum \in Int
      BY <2>1, <2>2
    <2> QED BY <2>3, <2>4
  <1>2. CASE a < 0
    <2> DEFINE q == (-a) \div Quantum
    <2>1. q \in Int /\ (-a) % Quantum \in 0..Quantum - 1 /\ -a = Quantum * q + ((-a) % Quantum)
      BY DivMod
    <2>2. q >= 0
      <3>1. SUFFICES ASSUME q <= -1 PROVE FALSE
        BY <2>1
      <3> HIDE DEF q
      <3>2. Quantum * q <= Quantum * (-1)
        BY <2>1, <3>1
      <3> QED BY <1>2, <2>1, <3>2
    <2>3. Truncate(a, Quantum) = (-q) * Quantum
      BY <1>2 DEF Truncate, Towards0
    <2> HIDE DEF q
    <2>4. q * Quantum >= 0 /\ q * Quantum <= -a /\ (-q) * Quantum = -(q * Quantum)
          /\ q * Quantum \in Int
      BY <2>1, <2>2
    <2> QED BY <1>2, <2>3, <2>4
  <1> QED BY <1>1, <1>2

\* Whatever number is drawn, the result is within half the jitter of Base.
LEMMA NearBase ==
    ASSUME NEW daily \in Schedules, NEW j \in Int, NEW t \in Int,
           NEW n \in NextSchedule(daily, j, t)
    PROVE  \E a \in -HalfJitter(j)..HalfJitter(j) : n = Base(daily, j, t) + a
  <1>1. HalfJitter(j) \in Nat
    BY HalfJitterType
  <1>2. CASE j > 0
    <2>1. PICK rnd \in 0..j - 1 : n = Base(daily, j, t) + Truncate(rnd - j \div 2, Quantum)
      BY <1>2 DEF NextSchedule
    <2>2. j \div 2 = HalfJitter(j) /\ j - 1 <= 2 * HalfJitter(j)
      BY <1>2, HalfJitterType
    <2> DEFINE a == rnd - j \div 2
    <2>3. a \in Int /\ -HalfJitter(j) <= a /\ a <= HalfJitter(j)
      BY <1>1, <1>2, <2>2
    <2>4. Truncate(a, Quantum) \in -HalfJitter(j)..HalfJitter(j)
      <3> HIDE DEF a
      <3> QED BY <1>1, <2>3, TruncateBounds
    <2> QED BY <2>1, <2>4
  <1>3. CASE ~(j > 0)
    <2>1. n = Base(daily, j, t)
      BY <1>3 DEF NextSchedule
    <2>2. PICK k \in Int : Base(daily, j, t) = k * Day + Offset(daily)
      BY <1>1, NextBounds DEF Base
    <2>3. Base(daily, j, t) \in Int
      BY <2>2, Units, OffsetInDay
    <2>4. n = Base(daily, j, t) + 0 /\ 0 \in -HalfJitter(j)..HalfJitter(j)
      BY <1>1, <2>1, <2>3
    <2> QED BY <2>4
  <1> QED BY <1>2, <1>3

----------------------------------------------------------------------------
(* NextSchedule.                                                           *)

\* Base is the instant of the schedule after the window of the reference
\* time.
LEMMA BaseIsNextWindow ==
    ASSUME NEW daily \in Schedules, NEW j \in Int, NEW t \in Int
    PROVE  /\ Window(daily, j, t) \in Int
           /\ Base(daily, j, t) = (Window(daily, j, t) + 1) * Day + Offset(daily)
           /\ Base(daily, j, t) \in Int
           /\ Base(daily, j, t) > t + HalfJitter(j)
  <1> USE Units
  <1> DEFINE u == t + HalfJitter(j)
             o == Offset(daily)
  <1>1. u \in Int /\ o \in 0..Day - 1
    BY HalfJitterType, OffsetInDay
  <1>2. PICK k \in Int : /\ Base(daily, j, t) = k * Day + o
                         /\ u < k * Day + o
                         /\ k * Day + o <= u + Day
    BY <1>1, NextBounds DEF Base
  <1>3. Window(daily, j, t) = (u - o) \div Day
    <2>1. HalfJitter(j) \in Int /\ Offset(daily) \in Int
      BY HalfJitterType, OffsetInDay
    <2>2. t + HalfJitter(j) - Offset(daily) = u - o
      BY <2>1
    <2> QED BY <2>2 DEF Window
  <1> HIDE DEF u, o
  <1> DEFINE r == u - o - Day * (k - 1)
  <1>4. Day * (k - 1) = k * Day - Day /\ k * Day \in Int /\ k - 1 \in Int
    OBVIOUS
  <1>5. r \in 0..Day - 1 /\ u - o \in Int /\ u - o = Day * (k - 1) + r
    BY <1>1, <1>2, <1>4
  <1> HIDE DEF r
  <1>6. (u - o) \div Day = k - 1
    BY <1>4, <1>5, DivUnique
  <1>7. Window(daily, j, t) = k - 1 /\ (k - 1) + 1 = k
    BY <1>3, <1>6
  <1> QED BY <1>1, <1>2, <1>4, <1>7 DEF u, o

\* A result lies in a later window than its reference time.
LEMMA LaterWindow ==
    ASSUME NEW daily \in Schedules, NEW j \in Int, NEW t \in Int,
           NEW n \in NextSchedule(daily, j, t)
    PROVE  Window(daily, j, n) > Window(daily, j, t)
  <1> USE Units
  <1> DEFINE k == Window(daily, j, t)
             o == Offset(daily)
             g == HalfJitter(j)
  <1>1. k \in Int /\ Base(daily, j, t) = (k + 1) * Day + o
    BY BaseIsNextWindow
  <1>2. g \in Nat /\ o \in 0..Day - 1
    BY HalfJitterType, OffsetInDay
  <1>3. PICK a \in -g..g : n = Base(daily, j, t) + a
    BY NearBase
  <1> DEFINE m == n + g - o
             q == m \div Day
  <1>4. Window(daily, j, n) = q
    BY DEF Window
  <1> HIDE DEF k, o, g
  <1>5. (k + 1) * Day \in Int
    BY <1>1
  <1>6. m \in Int /\ m >= (k + 1) * Day
    BY <1>1, <1>2, <1>3, <1>5
  <1> HIDE DEF m
  <1>7. q \in Int /\ m % Day \in 0..Day - 1 /\ m = Day * q + (m % Day)
    BY <1>6, DivMod
  <1> HIDE DEF q
  <1>8. q > k
    <2>1. SUFFICES ASSUME q <= k PROVE FALSE
      BY <1>1, <1>7
    <2>2. Day * q <= Day * k
      BY <1>1, <1>7, <2>1
    <2>3. (k + 1) * Day = Day * k + Day /\ Day * k \in Int
      BY <1>1
    <2> QED BY <1>6, <1>7, <2>2, <2>3
  <1> QED BY <1>4, <1>8 DEF k

\* Later times lie in later windows, or in the same one.
LEMMA WindowMonotone ==
    ASSUME NEW daily \in Schedules, NEW j \in Int, NEW t \in Int, NEW u \in Int, t <= u
    PROVE  Window(daily, j, t) <= Window(daily, j, u)
  <1> USE Units
  <1> DEFINE g == HalfJitter(j) - Offset(daily)
             p == (t + g) \div Day
             q == (u + g) \div Day
  <1>1. g \in Int
    BY HalfJitterType, OffsetInDay
  <1>2. Window(daily, j, t) = p /\ Window(daily, j, u) = q
    BY DEF Window
  <1> HIDE DEF g
  <1>t. t + g \in Int /\ u + g \in Int
    BY <1>1
  <1>3. /\ p \in Int /\ (t + g) % Day \in 0..Day - 1 /\ t + g = Day * p + ((t + g) % Day)
        /\ q \in Int /\ (u + g) % Day \in 0..Day - 1 /\ u + g = Day * q + ((u + g) % Day)
    BY <1>t, DivMod
  <1> HIDE DEF p, q
  <1>4. SUFFICES ASSUME q + 1 <= p PROVE FALSE
    BY <1>2, <1>3
  <1>5. Day * (q + 1) <= Day * p /\ Day * (q + 1) = Day * q + Day
    BY <1>3, <1>4
  <1> QED BY <1>1, <1>3, <1>5
=============================================================================
