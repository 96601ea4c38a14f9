----------------------------- MODULE RtcProofs -----------------------------
(***************************************************************************)
(* Rtc implements Clock, for every length of a second, radix of the        *)
(* counters and time between two looks: the initial states map to initial  *)
(* states, and each step to a step of the clock or to a stutter.           *)
(*                                                                         *)
(* The mapper computes from any number of seconds at once, the clock moves *)
(* one second at a time.  Between them stands a lemma on each counter: the *)
(* quotient and the remainder of a number that grows by a carry of zero or *)
(* one (Carry), and from it the chain of the counters (SecondBySecond).    *)
(***************************************************************************)
EXTENDS Rtc, TLAPS

-----------------------------------------------------------------------------
(* Quotients and remainders.                                               *)

LEMMA Divides ==
    ASSUME NEW x \in Nat, NEW r \in Nat \ {0}
    PROVE  /\ x \div r \in Nat /\ x % r \in 0..(r - 1)
           /\ x = r * (x \div r) + (x % r)
  BY SMT

\* A quotient and a remainder are the only ones.
LEMMA Unique ==
    ASSUME NEW x \in Nat, NEW r \in Nat \ {0}, NEW q \in Nat, NEW m \in 0..(r - 1),
           x = r * q + m
    PROVE  x \div r = q /\ x % r = m
  <1> DEFINE p == x \div r
             k == x % r
  <1>1. p \in Nat /\ k \in 0..(r - 1) /\ x = r * p + k
    BY Divides
  <1> HIDE DEF p, k
  <1>2. p = q
    <2>1. CASE p > q
      <3>1. PICK d \in Nat : p = q + 1 + d
        BY <1>1, <2>1, p - q - 1 \in Nat, p = q + 1 + (p - q - 1)
      <3>2. r * p = r * q + r + r * d
        BY <3>1, <1>1, SMT
      <3>3. r * d \in Nat /\ r * q \in Nat
        BY <3>1, SMT
      <3> QED BY <3>2, <3>3, <1>1, SMT
    <2>2. CASE q > p
      <3>1. PICK d \in Nat : q = p + 1 + d
        BY <1>1, <2>2, q - p - 1 \in Nat, q = p + 1 + (q - p - 1)
      <3>2. r * q = r * p + r + r * d
        BY <3>1, <1>1, SMT
      <3>3. r * d \in Nat /\ r * p \in Nat
        BY <3>1, <1>1, SMT
      <3> QED BY <3>2, <3>3, <1>1, SMT
    <2> QED BY <2>1, <2>2, <1>1
  <1>3. k = m
    <2>1. r * q \in Nat
      BY SMT
    <2> QED BY <1>1, <1>2, <2>1, SMT
  <1> QED BY <1>2, <1>3 DEF p, k

\* A number below the radix, as every counter is.
LEMMA Small ==
    ASSUME NEW r \in Nat \ {0}, NEW m \in 0..(r - 1)
    PROVE  m \div r = 0 /\ m % r = m
  BY Unique, m \in Nat, m = r * 0 + m, 0 \in Nat

\* One more moves the remainder on, and the quotient when the remainder is at its end.
LEMMA Carry ==
    ASSUME NEW x \in Nat, NEW r \in Nat \ {0}
    PROVE  /\ (x + 1) % r = ((x % r) + 1) % r
           /\ x % r = r - 1 => (x + 1) % r = 0 /\ (x + 1) \div r = x \div r + 1
           /\ x % r # r - 1 => (x + 1) % r = (x % r) + 1 /\ (x + 1) \div r = x \div r
  <1> DEFINE q == x \div r
             m == x % r
  <1>1. q \in Nat /\ m \in 0..(r - 1) /\ x = r * q + m
    BY Divides
  <1>2. x % r = m /\ x \div r = q
    OBVIOUS
  <1> HIDE DEF q, m
  <1>3. CASE m = r - 1
    <2>1. x + 1 = r * (q + 1) + 0
      BY <1>1, <1>3, r * (q + 1) = r * q + r, r * q \in Nat, SMT
    <2>2. (x + 1) \div r = q + 1 /\ (x + 1) % r = 0
      BY <2>1, <1>1, Unique, q + 1 \in Nat, 0 \in 0..(r - 1), x + 1 \in Nat
    <2>3. (m + 1) % r = 0
      <3>1. m + 1 = r * 1 + 0 /\ m + 1 \in Nat
        BY <1>1, <1>3
      <3> QED BY <3>1, Unique, 1 \in Nat, 0 \in 0..(r - 1)
    <2> QED BY <2>2, <2>3, <1>2, <1>3
  <1>4. CASE m # r - 1
    <2>1. x + 1 = r * q + (m + 1) /\ m + 1 \in 0..(r - 1)
      BY <1>1, <1>4, r * q \in Nat, SMT
    <2>2. (x + 1) \div r = q /\ (x + 1) % r = m + 1
      BY <2>1, <1>1, Unique, x + 1 \in Nat
    <2>3. (m + 1) % r = m + 1
      BY <2>1, Small
    <2> QED BY <2>2, <2>3, <1>2, <1>4
  <1> QED BY <1>3, <1>4
-----------------------------------------------------------------------------
(* The clock n seconds after it showed t, counter by counter.              *)

Second(t, n) == t.seconds + n
Minute(t, n) == t.minutes + (Second(t, n) \div SecondsPerMinute)
Hour(t, n)   == t.hours + (Minute(t, n) \div MinutesPerHour)
Day(t, n)    == (t.dayHigh * DaysLow) + t.dayLow + (Hour(t, n) \div HoursPerDay)

SecondsOn(t, n) ==
    [seconds |-> Second(t, n) % SecondsPerMinute, minutes |-> Minute(t, n) % MinutesPerHour,
     hours |-> Hour(t, n) % HoursPerDay, dayLow |-> Day(t, n) % DaysLow,
     dayHigh |-> (Day(t, n) \div DaysLow) % 2,
     halt |-> t.halt, carry |-> t.carry \/ Day(t, n) >= 2 * DaysLow]

Times == Ideal!Times

LEMMA Radices ==
    /\ TicksPerSecond \in Nat \ {0} /\ SecondsPerMinute \in Nat \ {0}
    /\ MinutesPerHour \in Nat \ {0} /\ HoursPerDay \in Nat \ {0} /\ DaysLow \in Nat \ {0}
  BY RtcAssumption

\* The counters are those of a record of times.
LEMMA Fields ==
    ASSUME NEW t \in Times
    PROVE  /\ t.seconds \in 0..(SecondsPerMinute - 1) /\ t.minutes \in 0..(MinutesPerHour - 1)
           /\ t.hours \in 0..(HoursPerDay - 1) /\ t.dayLow \in 0..(DaysLow - 1)
           /\ t.dayHigh \in 0..1 /\ t.halt \in BOOLEAN /\ t.carry \in BOOLEAN
  BY DEF Times, Ideal!Times

LEMMA Chain ==
    ASSUME NEW t \in Times, NEW n \in Nat
    PROVE  /\ Second(t, n) \in Nat /\ Minute(t, n) \in Nat /\ Hour(t, n) \in Nat
           /\ Day(t, n) \in Nat
  <1>1. Second(t, n) \in Nat
    BY Fields, Radices DEF Second
  <1>2. Minute(t, n) \in Nat
    BY <1>1, Fields, Radices, Divides DEF Minute
  <1>3. Hour(t, n) \in Nat
    BY <1>2, Fields, Radices, Divides DEF Hour
  <1>4. Day(t, n) \in Nat
    <2>1. Hour(t, n) \div HoursPerDay \in Nat
      BY <1>3, Radices, Divides
    <2>2. t.dayHigh * DaysLow \in Nat
      BY Fields, Radices
    <2> QED  BY <2>1, <2>2, Fields, Radices DEF Day
  <1> QED  BY <1>1, <1>2, <1>3, <1>4

LEMMA SecondsOnIsATime ==
    ASSUME NEW t \in Times, NEW n \in Nat
    PROVE  SecondsOn(t, n) \in Times
  <1>1. /\ Second(t, n) % SecondsPerMinute \in 0..(SecondsPerMinute - 1)
        /\ Minute(t, n) % MinutesPerHour \in 0..(MinutesPerHour - 1)
        /\ Hour(t, n) % HoursPerDay \in 0..(HoursPerDay - 1)
        /\ Day(t, n) % DaysLow \in 0..(DaysLow - 1)
    BY Chain, Radices, Divides
  <1>2. (Day(t, n) \div DaysLow) % 2 \in 0..1
    <2>1. ASSUME NEW q \in Nat PROVE q % 2 \in 0..1
      OBVIOUS
    <2>2. Day(t, n) \div DaysLow \in Nat
      BY Chain, Radices, Divides
    <2> QED  BY <2>1, <2>2, Zenon
  <1>3. t.halt \in BOOLEAN /\ (t.carry \/ Day(t, n) >= 2 * DaysLow) \in BOOLEAN
    BY Fields
  <1> QED  BY <1>1, <1>2, <1>3 DEF SecondsOn, Times, Ideal!Times

\* The mapper's computation (Carried, of any counters) is the chain.
CarriedFrom(t, n) ==
    [t EXCEPT !.seconds = Second(t, n) % SecondsPerMinute,
              !.minutes = Minute(t, n) % MinutesPerHour,
              !.hours = Hour(t, n) % HoursPerDay,
              !.dayLow = Day(t, n) % DaysLow,
              !.dayHigh = (Day(t, n) \div DaysLow) % 2,
              !.carry = t.carry \/ Day(t, n) >= 2 * DaysLow]

LEMMA CarriedIsSecondsOn ==
    ASSUME NEW t \in Times, NEW n \in Nat
    PROVE  CarriedFrom(t, n) = SecondsOn(t, n)
  <1> DEFINE s == Second(t, n) % SecondsPerMinute
             m == Minute(t, n) % MinutesPerHour
             h == Hour(t, n) % HoursPerDay
             l == Day(t, n) % DaysLow
             d == (Day(t, n) \div DaysLow) % 2
             c == t.carry \/ Day(t, n) >= 2 * DaysLow
  <1>1. /\ CarriedFrom(t, n) = [t EXCEPT !.seconds = s, !.minutes = m, !.hours = h,
                                        !.dayLow = l, !.dayHigh = d, !.carry = c]
        /\ SecondsOn(t, n) = [seconds |-> s, minutes |-> m, hours |-> h, dayLow |-> l,
                             dayHigh |-> d, halt |-> t.halt, carry |-> c]
    BY Zenon DEF CarriedFrom, SecondsOn
  <1> HIDE DEF s, m, h, l, d, c
  <1> QED  BY <1>1 DEF Times, Ideal!Times

\* No second on, the clock is what it was.
LEMMA NoSecondOn ==
    ASSUME NEW t \in Times
    PROVE  SecondsOn(t, 0) = t
  <1>1. /\ Second(t, 0) = t.seconds /\ Second(t, 0) \div SecondsPerMinute = 0
        /\ Second(t, 0) % SecondsPerMinute = t.seconds
    <2>1. Second(t, 0) = t.seconds
      BY Fields, Radices DEF Second
    <2> QED  BY <2>1, Fields, Radices, Small
  <1>2. /\ Minute(t, 0) = t.minutes /\ Minute(t, 0) \div MinutesPerHour = 0
        /\ Minute(t, 0) % MinutesPerHour = t.minutes
    <2>1. Minute(t, 0) = t.minutes
      BY <1>1, Fields, Radices DEF Minute
    <2> QED  BY <2>1, Fields, Radices, Small
  <1>3. /\ Hour(t, 0) = t.hours /\ Hour(t, 0) \div HoursPerDay = 0
        /\ Hour(t, 0) % HoursPerDay = t.hours
    <2>1. Hour(t, 0) = t.hours
      BY <1>2, Fields, Radices DEF Hour
    <2> QED  BY <2>1, Fields, Radices, Small
  <1>4. Day(t, 0) = DaysLow * t.dayHigh + t.dayLow /\ Day(t, 0) \in Nat
    <2>1. Day(t, 0) = t.dayHigh * DaysLow + t.dayLow + 0
      BY <1>3, Zenon DEF Day
    <2>2. Day(t, 0) \in Nat
      BY Chain, 0 \in Nat
    <2> QED  BY <2>1, <2>2, Fields, Radices, SMT
  <1>5. Day(t, 0) \div DaysLow = t.dayHigh /\ Day(t, 0) % DaysLow = t.dayLow
    <2>1. t.dayHigh \in Nat /\ t.dayLow \in 0..(DaysLow - 1)
      BY Fields
    <2> DEFINE x == Day(t, 0)
    <2>2. x \in Nat /\ x = DaysLow * t.dayHigh + t.dayLow
      BY <1>4
    <2> HIDE DEF x
    <2>3. x \div DaysLow = t.dayHigh /\ x % DaysLow = t.dayLow
      BY <2>1, <2>2, Radices, Unique
    <2> QED  BY <2>3 DEF x
  <1>6. t.dayHigh % 2 = t.dayHigh
    BY Fields
  <1>7. ~ (Day(t, 0) >= 2 * DaysLow)
    <2>1. CASE t.dayHigh = 0
      BY <2>1, <1>4, Fields, Radices
    <2>2. CASE t.dayHigh = 1
      BY <2>2, <1>4, Fields, Radices
    <2> QED  BY <2>1, <2>2, Fields
  <1> QED
    BY <1>1, <1>2, <1>3, <1>5, <1>6, <1>7 DEF SecondsOn, Times, Ideal!Times

-----------------------------------------------------------------------------
(* The clock's next second is one more second of the chain.                *)

\* Clock's SecondLater, of any time.
AtEnd(u, n) ==      \* the n lowest counters stand at their ends
    /\ n >= 1 => u.seconds = SecondsPerMinute - 1
    /\ n >= 2 => u.minutes = MinutesPerHour - 1
    /\ n >= 3 => u.hours = HoursPerDay - 1
    /\ n >= 4 => u.dayLow = DaysLow - 1
    /\ n >= 5 => u.dayHigh = 1

Counted(n, radix, step) == IF step THEN (n + 1) % radix ELSE n

Following(u) ==
    [seconds |-> Counted(u.seconds, SecondsPerMinute, TRUE),
     minutes |-> Counted(u.minutes, MinutesPerHour, AtEnd(u, 1)),
     hours   |-> Counted(u.hours, HoursPerDay, AtEnd(u, 2)),
     dayLow  |-> Counted(u.dayLow, DaysLow, AtEnd(u, 3)),
     dayHigh |-> Counted(u.dayHigh, 2, AtEnd(u, 4)),
     halt |-> u.halt, carry |-> u.carry \/ AtEnd(u, 5)]

\* One counter of the chain: x counts, its remainder is shown, its quotient
\* is carried on.
LEMMA Link ==
    ASSUME NEW r \in Nat \ {0}, NEW x \in Nat, NEW y \in Nat, NEW step \in BOOLEAN,
           y = IF step THEN x + 1 ELSE x
    PROVE  /\ y % r = Counted(x % r, r, step)
           /\ y \div r = IF step /\ x % r = r - 1 THEN (x \div r) + 1 ELSE x \div r
  <1>1. CASE step
    <2>1. y = x + 1
      BY <1>1
    <2>2. /\ (x + 1) % r = ((x % r) + 1) % r
          /\ x % r = r - 1 => (x + 1) \div r = x \div r + 1
          /\ x % r # r - 1 => (x + 1) \div r = x \div r
      BY Carry
    <2> QED  BY <1>1, <2>1, <2>2, Zenon DEF Counted
  <1>2. CASE ~step
    <2>1. y = x
      BY <1>2
    <2> QED  BY <1>2, <2>1, Zenon DEF Counted
  <1> QED  BY <1>1, <1>2

LEMMA Ends ==
    ASSUME NEW u
    PROVE  /\ AtEnd(u, 1) <=> u.seconds = SecondsPerMinute - 1
           /\ AtEnd(u, 2) <=> AtEnd(u, 1) /\ u.minutes = MinutesPerHour - 1
           /\ AtEnd(u, 3) <=> AtEnd(u, 2) /\ u.hours = HoursPerDay - 1
           /\ AtEnd(u, 4) <=> AtEnd(u, 3) /\ u.dayLow = DaysLow - 1
           /\ AtEnd(u, 5) <=> AtEnd(u, 4) /\ u.dayHigh = 1
           /\ AtEnd(u, 1) \in BOOLEAN /\ AtEnd(u, 2) \in BOOLEAN /\ AtEnd(u, 3) \in BOOLEAN
           /\ AtEnd(u, 4) \in BOOLEAN /\ AtEnd(u, 5) \in BOOLEAN
  BY SMT DEF AtEnd

LEMMA SecondBySecond ==
    ASSUME NEW t \in Times, NEW n \in Nat
    PROVE  SecondsOn(t, n + 1) = Following(SecondsOn(t, n))
  <1> DEFINE u == SecondsOn(t, n)
             s == Second(t, n)   s1 == Second(t, n + 1)
             m == Minute(t, n)   m1 == Minute(t, n + 1)
             h == Hour(t, n)     h1 == Hour(t, n + 1)
             d == Day(t, n)      d1 == Day(t, n + 1)
  <1>1. /\ s \in Nat /\ m \in Nat /\ h \in Nat /\ d \in Nat
        /\ s1 \in Nat /\ m1 \in Nat /\ h1 \in Nat /\ d1 \in Nat
    BY Chain, n + 1 \in Nat
  <1>2. /\ u.seconds = s % SecondsPerMinute /\ u.minutes = m % MinutesPerHour
        /\ u.hours = h % HoursPerDay /\ u.dayLow = d % DaysLow
        /\ u.dayHigh = (d \div DaysLow) % 2 /\ u.halt = t.halt
        /\ u.carry = (t.carry \/ d >= 2 * DaysLow)
    BY DEF SecondsOn
  <1>3. s1 = s + 1
    BY Fields, Radices DEF Second
  <1>4. \* each next counter is the last one's carry ahead
        /\ m = t.minutes + (s \div SecondsPerMinute) /\ m1 = t.minutes + (s1 \div SecondsPerMinute)
        /\ h = t.hours + (m \div MinutesPerHour) /\ h1 = t.hours + (m1 \div MinutesPerHour)
        /\ d = (t.dayHigh * DaysLow + t.dayLow) + (h \div HoursPerDay)
        /\ d1 = (t.dayHigh * DaysLow + t.dayLow) + (h1 \div HoursPerDay)
    BY Zenon DEF Minute, Hour, Day
  <1>5. /\ t.minutes \in Nat /\ t.hours \in Nat /\ t.dayHigh * DaysLow + t.dayLow \in Nat
        /\ s \div SecondsPerMinute \in Nat /\ m \div MinutesPerHour \in Nat
        /\ h \div HoursPerDay \in Nat /\ d \div DaysLow \in Nat
    <2>1. t.minutes \in Nat /\ t.hours \in Nat /\ t.dayHigh * DaysLow + t.dayLow \in Nat
      BY Fields, Radices
    <2> QED  BY <2>1, <1>1, Radices, Divides
  <1> HIDE DEF u, s, m, h, d, s1, m1, h1, d1
  <1>6. /\ s1 % SecondsPerMinute = Counted(u.seconds, SecondsPerMinute, TRUE)
        /\ m1 = IF AtEnd(u, 1) THEN m + 1 ELSE m
    <2>1. s1 = IF TRUE THEN s + 1 ELSE s
      BY <1>3
    <2>2. /\ s1 % SecondsPerMinute = Counted(s % SecondsPerMinute, SecondsPerMinute, TRUE)
          /\ s1 \div SecondsPerMinute =
                 IF TRUE /\ s % SecondsPerMinute = SecondsPerMinute - 1
                 THEN (s \div SecondsPerMinute) + 1 ELSE s \div SecondsPerMinute
      BY <1>1, <2>1, Radices, Link
    <2>3. s1 \div SecondsPerMinute =
              IF AtEnd(u, 1) THEN (s \div SecondsPerMinute) + 1 ELSE s \div SecondsPerMinute
      BY <1>2, <2>2, Ends, Zenon
    <2>4. m1 = IF AtEnd(u, 1) THEN m + 1 ELSE m
      BY <1>4, <1>5, <2>3
    <2> QED  BY <1>2, <2>2, <2>4, Zenon
  <1>7. /\ m1 % MinutesPerHour = Counted(u.minutes, MinutesPerHour, AtEnd(u, 1))
        /\ h1 = IF AtEnd(u, 2) THEN h + 1 ELSE h
    <2> DEFINE b == AtEnd(u, 1)
    <2>1. b \in BOOLEAN /\ m1 = IF b THEN m + 1 ELSE m
      BY <1>6, Ends
    <2> HIDE DEF b
    <2>2. /\ m1 % MinutesPerHour = Counted(m % MinutesPerHour, MinutesPerHour, b)
          /\ m1 \div MinutesPerHour = IF b /\ m % MinutesPerHour = MinutesPerHour - 1
                                THEN (m \div MinutesPerHour) + 1 ELSE m \div MinutesPerHour
      <3>1. MinutesPerHour \in Nat \ {0} /\ m \in Nat /\ m1 \in Nat
        BY <1>1, Radices
      <3> QED  BY <2>1, <3>1, Link, Zenon
    <2> USE DEF b
    <2>3. m1 \div MinutesPerHour =
              IF AtEnd(u, 2) THEN (m \div MinutesPerHour) + 1 ELSE m \div MinutesPerHour
      BY <1>2, <2>2, Ends, Zenon
    <2> QED  BY <1>2, <1>4, <1>5, <2>2, <2>3
  <1>8. /\ h1 % HoursPerDay = Counted(u.hours, HoursPerDay, AtEnd(u, 2))
        /\ d1 = IF AtEnd(u, 3) THEN d + 1 ELSE d
    <2> DEFINE b == AtEnd(u, 2)
    <2>1. b \in BOOLEAN /\ h1 = IF b THEN h + 1 ELSE h
      BY <1>7, Ends
    <2> HIDE DEF b
    <2>2. /\ h1 % HoursPerDay = Counted(h % HoursPerDay, HoursPerDay, b)
          /\ h1 \div HoursPerDay = IF b /\ h % HoursPerDay = HoursPerDay - 1
                                THEN (h \div HoursPerDay) + 1 ELSE h \div HoursPerDay
      <3>1. HoursPerDay \in Nat \ {0} /\ h \in Nat /\ h1 \in Nat
        BY <1>1, Radices
      <3> QED  BY <2>1, <3>1, Link, Zenon
    <2> USE DEF b
    <2>3. h1 \div HoursPerDay =
              IF AtEnd(u, 3) THEN (h \div HoursPerDay) + 1 ELSE h \div HoursPerDay
      BY <1>2, <2>2, Ends, Zenon
    <2> QED  BY <1>2, <1>4, <1>5, <2>2, <2>3
  <1>9. /\ d1 % DaysLow = Counted(u.dayLow, DaysLow, AtEnd(u, 3))
        /\ d1 \div DaysLow = IF AtEnd(u, 4) THEN (d \div DaysLow) + 1 ELSE d \div DaysLow
    <2> DEFINE b == AtEnd(u, 3)
    <2>1. b \in BOOLEAN /\ d1 = IF b THEN d + 1 ELSE d
      BY <1>8, Ends
    <2> HIDE DEF b
    <2>2. /\ d1 % DaysLow = Counted(d % DaysLow, DaysLow, b)
          /\ d1 \div DaysLow = IF b /\ d % DaysLow = DaysLow - 1
                                THEN (d \div DaysLow) + 1 ELSE d \div DaysLow
      <3>1. DaysLow \in Nat \ {0} /\ d \in Nat /\ d1 \in Nat
        BY <1>1, Radices
      <3> QED  BY <2>1, <3>1, Link, Zenon
    <2> USE DEF b
    <2> QED  BY <1>2, <2>2, Ends, Zenon
  <1>10. (d1 \div DaysLow) % 2 = Counted(u.dayHigh, 2, AtEnd(u, 4))
    <2>1. d1 \div DaysLow \in Nat
      BY <1>1, Radices, Divides
    <2> DEFINE q == d \div DaysLow
               q1 == d1 \div DaysLow
               b == AtEnd(u, 4)
    <2>2. q \in Nat /\ q1 \in Nat /\ b \in BOOLEAN /\ q1 = IF b THEN q + 1 ELSE q
      BY <2>1, <1>5, <1>9, Ends
    <2> HIDE DEF q, q1, b
    <2>3. q1 % 2 = Counted(q % 2, 2, b)
      BY <2>2, Link, 2 \in Nat \ {0}
    <2> QED  BY <2>3, <1>2 DEF q, q1, b
  <1>11. (t.carry \/ d1 >= 2 * DaysLow) <=> (u.carry \/ AtEnd(u, 5))
    <2> DEFINE q == d \div DaysLow
               k == d % DaysLow
    <2>1. q \in Nat /\ k \in 0..(DaysLow - 1) /\ d = DaysLow * q + k
      BY <1>1, Radices, Divides
    <2>2. /\ u.dayHigh = q % 2 /\ u.dayLow = k
          /\ u.carry = (t.carry \/ d >= 2 * DaysLow)
      BY <1>2
    <2> HIDE DEF q, k
    <2>3. ASSUME AtEnd(u, 5) PROVE d1 >= 2 * DaysLow
      <3>1. q % 2 = 1 /\ k = DaysLow - 1 /\ d1 = d + 1
        BY <2>2, <2>3, <1>8, Ends
      <3>2. q >= 1
        BY <3>1, <2>1
      <3>3. DaysLow * q >= DaysLow
        BY <3>2, <2>1, Radices
      <3> QED  BY <3>1, <3>3, <2>1, Radices
    <2>4. ASSUME d1 >= 2 * DaysLow, ~(d >= 2 * DaysLow) PROVE AtEnd(u, 5)
      <3>1. d1 = d + 1 /\ d + 1 = 2 * DaysLow /\ AtEnd(u, 3)
        <4>1. d1 = d + 1 /\ AtEnd(u, 3)
          BY <2>4, <1>8
        <4> QED  BY <4>1, <2>4, <1>1, Radices
      <3>2. d = DaysLow * 1 + (DaysLow - 1) /\ DaysLow - 1 \in 0..(DaysLow - 1)
        BY <3>1, <1>1, Radices
      <3>3. q = 1 /\ k = DaysLow - 1
        BY <3>2, <1>1, Radices, Unique, 1 \in Nat DEF q, k
      <3>4. q % 2 = 1
        BY <3>3
      <3> QED  BY <3>1, <3>3, <3>4, <2>2, Ends
    <2>5. ASSUME d >= 2 * DaysLow PROVE d1 >= 2 * DaysLow
      BY <2>5, <1>1, <1>8, Radices, 2 * DaysLow \in Nat
    <2> QED  BY <2>2, <2>3, <2>4, <2>5, Zenon
  <1> QED
    <2>1. SecondsOn(t, n + 1) =
              [seconds |-> s1 % SecondsPerMinute, minutes |-> m1 % MinutesPerHour,
               hours |-> h1 % HoursPerDay, dayLow |-> d1 % DaysLow,
               dayHigh |-> (d1 \div DaysLow) % 2,
               halt |-> t.halt, carry |-> t.carry \/ d1 >= 2 * DaysLow]
      BY Zenon DEF SecondsOn, s1, m1, h1, d1
    <2>2. (t.carry \/ d1 >= 2 * DaysLow) = (u.carry \/ AtEnd(u, 5))
      BY <1>11, Zenon
    <2>3. SecondsOn(t, n + 1) = Following(u)
      BY <1>2, <1>6, <1>7, <1>8, <1>9, <1>10, <2>1, <2>2, Zenon DEF Following
    <2> QED  BY <2>3 DEF u

-----------------------------------------------------------------------------
(* The clock as the mapper would show it, e T-cycles after it showed t.    *)

Shown(t, e) == IF t.halt THEN t ELSE SecondsOn(t, e \div TicksPerSecond)

LEMMA ShownIsATime ==
    ASSUME NEW t \in Times, NEW e \in Nat
    PROVE  Shown(t, e) \in Times /\ Shown(t, e).halt = t.halt
  <1>1. SecondsOn(t, e \div TicksPerSecond) \in Times
    BY SecondsOnIsATime, Divides, Radices
  <1>2. SecondsOn(t, e \div TicksPerSecond).halt = t.halt
    BY DEF SecondsOn
  <1> QED  BY <1>1, <1>2 DEF Shown

\* Within a second the clock stands still.
LEMMA ShownStill ==
    ASSUME NEW t \in Times, NEW e \in 0..(TicksPerSecond - 1)
    PROVE  Shown(t, e) = t
  BY Small, NoSecondOn, Radices DEF Shown

\* A T-cycle moves it when it ends a second, and unless it is halted.
LEMMA ShownOneOn ==
    ASSUME NEW t \in Times, NEW e \in Nat
    PROVE  /\ (e + 1) % TicksPerSecond = ((e % TicksPerSecond) + 1) % TicksPerSecond
           /\ Shown(t, e + 1) = IF (e + 1) % TicksPerSecond = 0 /\ ~t.halt
                                THEN Following(Shown(t, e)) ELSE Shown(t, e)
  <1> DEFINE r == e % TicksPerSecond
             q == e \div TicksPerSecond
             r1 == (e + 1) % TicksPerSecond
             q1 == (e + 1) \div TicksPerSecond
  <1>1. /\ q \in Nat /\ r \in 0..(TicksPerSecond - 1)
        /\ r1 = (r + 1) % TicksPerSecond
        /\ r = TicksPerSecond - 1 => r1 = 0 /\ q1 = q + 1
        /\ r # TicksPerSecond - 1 => r1 = r + 1 /\ q1 = q
    BY Divides, Carry, Radices
  <1>2. /\ Shown(t, e) = IF t.halt THEN t ELSE SecondsOn(t, q)
        /\ Shown(t, e + 1) = IF t.halt THEN t ELSE SecondsOn(t, q1)
    BY DEF Shown
  <1> HIDE DEF q, r, q1, r1
  <1>3. SecondsOn(t, q + 1) = Following(SecondsOn(t, q))
    BY <1>1, SecondBySecond
  <1>4. q1 = IF r1 = 0 THEN q + 1 ELSE q
    BY <1>1, Radices
  <1>5. Shown(t, e + 1) = IF r1 = 0 /\ ~t.halt THEN Following(Shown(t, e)) ELSE Shown(t, e)
    BY <1>2, <1>3, <1>4, Zenon
  <1> QED  BY <1>1, <1>5 DEF r, r1

-----------------------------------------------------------------------------
TypeOK ==
    /\ rtc \in Times /\ latched \in Times
    /\ elapsed \in Nat

\* What the mapping reads.
LEMMA Mapped ==
    ASSUME NEW t \in Times, NEW e \in Nat
    PROVE  (IF t.halt THEN t ELSE CarriedFrom(t, e \div TicksPerSecond)) = Shown(t, e)
  <1>1. e \div TicksPerSecond \in Nat
    BY Divides, Radices
  <1> QED  BY <1>1, CarriedIsSecondsOn, Zenon DEF Shown

LEMMA MappedNow ==
    TypeOK => /\ CaughtUp = Shown(rtc, elapsed) /\ CaughtUp \in Times
              /\ Remainder = elapsed % TicksPerSecond
              /\ Remainder \in 0..(TicksPerSecond - 1)
  <1> SUFFICES ASSUME TypeOK
               PROVE  /\ CaughtUp = Shown(rtc, elapsed) /\ CaughtUp \in Times
                      /\ Remainder = elapsed % TicksPerSecond
                      /\ Remainder \in 0..(TicksPerSecond - 1)
    OBVIOUS
  <1>1. rtc \in Times /\ elapsed \in Nat
    BY DEF TypeOK
  <1>2. CaughtUp = IF rtc.halt THEN rtc ELSE CarriedFrom(rtc, elapsed \div TicksPerSecond)
    BY Zenon DEF CaughtUp, Later, Carried, Seconds, CarriedFrom, Second, Minute, Hour, Day
  <1>3. CaughtUp = Shown(rtc, elapsed)
    BY <1>1, <1>2, Mapped
  <1> QED  BY <1>1, <1>3, ShownIsATime, Divides, Radices DEF Remainder

LEMMA MappedNext ==
    TypeOK' => /\ CaughtUp' = Shown(rtc', elapsed') /\ CaughtUp' \in Times
               /\ Remainder' = elapsed' % TicksPerSecond
  <1> SUFFICES ASSUME TypeOK'
               PROVE  /\ CaughtUp' = Shown(rtc', elapsed') /\ CaughtUp' \in Times
                      /\ Remainder' = elapsed' % TicksPerSecond
    OBVIOUS
  <1>1. rtc' \in Times /\ elapsed' \in Nat
    BY DEF TypeOK
  <1>2. CaughtUp' = IF rtc'.halt THEN rtc'
                    ELSE CarriedFrom(rtc', elapsed' \div TicksPerSecond)
    BY Zenon DEF CaughtUp, Later, Carried, Seconds, CarriedFrom, Second, Minute, Hour, Day
  <1>3. CaughtUp' = Shown(rtc', elapsed')
    BY <1>1, <1>2, Mapped
  <1> QED  BY <1>1, <1>3, ShownIsATime DEF Remainder

\* Right after the mapper has looked, the clock is its counters.
LEMMA JustLooked ==
    ASSUME TypeOK', elapsed' \in 0..(TicksPerSecond - 1)
    PROVE  CaughtUp' = rtc' /\ Remainder' = elapsed'
  <1>1. rtc' \in Times
    BY DEF TypeOK
  <1> QED  BY <1>1, MappedNext, ShownStill, Small, Radices

\* Clock's actions under the mapping.
FollowingFrom(u) ==
    [u EXCEPT !.seconds = Counted(u.seconds, SecondsPerMinute, TRUE),
              !.minutes = Counted(u.minutes, MinutesPerHour, AtEnd(u, 1)),
              !.hours   = Counted(u.hours, HoursPerDay, AtEnd(u, 2)),
              !.dayLow  = Counted(u.dayLow, DaysLow, AtEnd(u, 3)),
              !.dayHigh = Counted(u.dayHigh, 2, AtEnd(u, 4)),
              !.carry   = u.carry \/ AtEnd(u, 5)]

LEMMA FollowingAlike ==
    ASSUME NEW u \in Times
    PROVE  FollowingFrom(u) = Following(u)
  <1> DEFINE s == Counted(u.seconds, SecondsPerMinute, TRUE)
             m == Counted(u.minutes, MinutesPerHour, AtEnd(u, 1))
             h == Counted(u.hours, HoursPerDay, AtEnd(u, 2))
             l == Counted(u.dayLow, DaysLow, AtEnd(u, 3))
             d == Counted(u.dayHigh, 2, AtEnd(u, 4))
             c == u.carry \/ AtEnd(u, 5)
  <1>1. /\ FollowingFrom(u) = [u EXCEPT !.seconds = s, !.minutes = m, !.hours = h,
                                       !.dayLow = l, !.dayHigh = d, !.carry = c]
        /\ Following(u) = [seconds |-> s, minutes |-> m, hours |-> h, dayLow |-> l,
                           dayHigh |-> d, halt |-> u.halt, carry |-> c]
    BY Zenon DEF FollowingFrom, Following
  <1> HIDE DEF s, m, h, l, d, c
  <1> QED  BY <1>1 DEF Times, Ideal!Times

LEMMA MappedSecond ==
    CaughtUp \in Times => Ideal!SecondLater = Following(CaughtUp)
  <1>1. /\ Ideal!LastSecond <=> AtEnd(CaughtUp, 1)
        /\ Ideal!LastMinute <=> AtEnd(CaughtUp, 2)
        /\ Ideal!LastHour <=> AtEnd(CaughtUp, 3)
        /\ Ideal!LastLow <=> AtEnd(CaughtUp, 4)
        /\ Ideal!LastDay <=> AtEnd(CaughtUp, 5)
    BY Ends DEF Ideal!LastSecond, Ideal!LastMinute, Ideal!LastHour, Ideal!LastLow,
                Ideal!LastDay
  <1>2. Ideal!SecondLater = FollowingFrom(CaughtUp)
    BY <1>1, Zenon DEF Ideal!SecondLater, Ideal!Count, Counted, FollowingFrom
  <1> QED  BY <1>2, FollowingAlike

-----------------------------------------------------------------------------
(* Types.                                                                  *)

LEMMA SetATime ==
    ASSUME NEW u \in Times
    PROVE  /\ \A n \in 0..(SecondsPerMinute - 1) : [u EXCEPT !.seconds = n] \in Times
           /\ \A n \in 0..(MinutesPerHour - 1) : [u EXCEPT !.minutes = n] \in Times
           /\ \A n \in 0..(HoursPerDay - 1) : [u EXCEPT !.hours = n] \in Times
           /\ \A n \in 0..(DaysLow - 1) : [u EXCEPT !.dayLow = n] \in Times
           /\ \A n \in 0..1, h, c \in BOOLEAN :
                  [u EXCEPT !.dayHigh = n, !.halt = h, !.carry = c] \in Times
  BY DEF Times, Ideal!Times

LEMMA Wraps ==
    ASSUME NEW value \in Bytes
    PROVE  /\ Wrapped(value, SecondsPerMinute) \in 0..(SecondsPerMinute - 1)
           /\ Wrapped(value, MinutesPerHour) \in 0..(MinutesPerHour - 1)
           /\ Wrapped(value, HoursPerDay) \in 0..(HoursPerDay - 1)
           /\ value % DaysLow \in 0..(DaysLow - 1)
  <1>1. value \in Nat
    BY RtcAssumption
  <1> QED  BY <1>1, Divides, Radices DEF Wrapped

LEMMA TypeInit == Init => TypeOK
  <1>1. Zero \in Times
    BY Radices DEF Zero, Times, Ideal!Times
  <1> QED  BY <1>1 DEF Init, TypeOK

\* The game's write of one counter, and of day bit, halt and carry.
SetSeconds == \E n \in 0..(SecondsPerMinute - 1) : rtc' = [CaughtUp EXCEPT !.seconds = n]
SetOther ==
    \/ \E n \in 0..(MinutesPerHour - 1) : rtc' = [CaughtUp EXCEPT !.minutes = n]
    \/ \E n \in 0..(HoursPerDay - 1) : rtc' = [CaughtUp EXCEPT !.hours = n]
    \/ \E n \in 0..(DaysLow - 1) : rtc' = [CaughtUp EXCEPT !.dayLow = n]
    \/ \E n \in 0..1, h, c \in BOOLEAN :
           rtc' = [CaughtUp EXCEPT !.dayHigh = n, !.halt = h, !.carry = c]

LEMMA Writes ==
    /\ WriteSeconds => SetSeconds /\ elapsed' = 0 /\ latched' = rtc'
    /\ WriteOther => SetOther /\ elapsed' = Remainder /\ latched' = rtc'
  BY Wraps, Zenon DEF WriteSeconds, WriteOther, SetSeconds, SetOther

LEMMA SetsATime ==
    ASSUME CaughtUp \in Times, SetSeconds \/ SetOther PROVE rtc' \in Times
  <1>1. CASE SetSeconds
    BY <1>1, SetATime, Zenon DEF SetSeconds
  <1>2. CASE \E n \in 0..(MinutesPerHour - 1) : rtc' = [CaughtUp EXCEPT !.minutes = n]
    BY <1>2, SetATime, Zenon
  <1>3. CASE \E n \in 0..(HoursPerDay - 1) : rtc' = [CaughtUp EXCEPT !.hours = n]
    BY <1>3, SetATime, Zenon
  <1>4. CASE \E n \in 0..(DaysLow - 1) : rtc' = [CaughtUp EXCEPT !.dayLow = n]
    BY <1>4, SetATime, Zenon
  <1>5. CASE \E n \in 0..1, h, c \in BOOLEAN :
                 rtc' = [CaughtUp EXCEPT !.dayHigh = n, !.halt = h, !.carry = c]
    <2>1. PICK n \in 0..1, h \in BOOLEAN, c \in BOOLEAN :
              rtc' = [CaughtUp EXCEPT !.dayHigh = n, !.halt = h, !.carry = c]
      BY <1>5
    <2> QED  BY <2>1, SetATime
  <1> QED  BY <1>1, <1>2, <1>3, <1>4, <1>5 DEF SetOther

LEMMA TypeStep == TypeOK /\ [Next]_vars => TypeOK'
  <1> SUFFICES ASSUME TypeOK, [Next]_vars PROVE TypeOK'
    OBVIOUS
  <1>1. /\ rtc \in Times /\ latched \in Times /\ elapsed \in Nat
        /\ CaughtUp \in Times /\ Remainder \in Nat /\ 0 \in Nat
    BY MappedNow DEF TypeOK
  <1>2. CASE Tick
    BY <1>1, <1>2 DEF Tick, TypeOK
  <1>3. CASE WriteLatch
    BY <1>1, <1>3, Zenon DEF WriteLatch, TypeOK
  <1>4. CASE WriteSeconds
    BY <1>1, <1>4, Writes, SetsATime, Zenon DEF TypeOK
  <1>5. CASE WriteOther
    BY <1>1, <1>5, Writes, SetsATime, Zenon DEF TypeOK
  <1>6. CASE WriteNothing
    BY <1>1, <1>6, Zenon DEF WriteNothing, TypeOK
  <1>7. CASE Reload
    BY <1>1, <1>7, Zenon DEF Reload, TypeOK
  <1>8. CASE UNCHANGED vars
    BY <1>8 DEF vars, TypeOK
  <1> QED  BY <1>2, <1>3, <1>4, <1>5, <1>6, <1>7, <1>8 DEF Next

(* The live counters and the latched copy stay in their radices, with      *)
(* values beyond them written.                                             *)
THEOREM TypeCorrect == Spec => []TypeOK
  BY TypeInit, TypeStep, PTL DEF Spec

-----------------------------------------------------------------------------
(* Each step is one of the clock, or a stutter.                            *)

LEMMA MappedInit == Init => Ideal!ClockInit
  <1> SUFFICES ASSUME Init PROVE Ideal!ClockInit
    OBVIOUS
  <1>1. TypeOK
    BY TypeInit
  <1>2. CaughtUp \in Times /\ latched \in Times
    BY <1>1, MappedNow DEF TypeOK
  <1>3. Remainder = 0
    BY Small, Radices DEF Init, Remainder
  <1> QED  BY <1>2, <1>3, Zenon DEF Ideal!ClockInit, Times

\* A T-cycle, with the mapper not looking.
LEMMA TickIsAdvance ==
    ASSUME TypeOK, TypeOK', Tick PROVE Ideal!Advance
  <1>1. rtc \in Times /\ elapsed \in Nat /\ elapsed' = elapsed + 1 /\ rtc' = rtc
        /\ latched' = latched
    BY DEF TypeOK, Tick
  <1>2. /\ CaughtUp = Shown(rtc, elapsed) /\ CaughtUp \in Times
        /\ Remainder = elapsed % TicksPerSecond
        /\ CaughtUp' = Shown(rtc, elapsed + 1)
        /\ Remainder' = (elapsed + 1) % TicksPerSecond
    BY <1>1, MappedNow, MappedNext
  <1>3. CaughtUp.halt = rtc.halt
    BY <1>1, <1>2, ShownIsATime
  <1>4. /\ Remainder' = (Remainder + 1) % TicksPerSecond
        /\ CaughtUp' = IF Remainder' = 0 /\ ~CaughtUp.halt THEN Following(CaughtUp)
                       ELSE CaughtUp
    BY <1>1, <1>2, <1>3, ShownOneOn, Zenon
  <1>5. Ideal!SecondLater = Following(CaughtUp)
    BY <1>2, MappedSecond
  <1> QED  BY <1>1, <1>4, <1>5, Zenon DEF Ideal!Advance

\* The mapper looks: its counters are then those of the clock, and the part
\* of a second that is left is kept or dropped.
LEMMA LooksAtTheClock ==
    ASSUME TypeOK, TypeOK', elapsed' = Remainder \/ elapsed' = 0
    PROVE  CaughtUp' = rtc' /\ Remainder' = elapsed'
  <1>1. Remainder \in 0..(TicksPerSecond - 1) /\ 0 \in 0..(TicksPerSecond - 1)
    BY MappedNow, Radices
  <1>2. elapsed' \in 0..(TicksPerSecond - 1)
    BY <1>1, Zenon
  <1> QED  BY <1>2, JustLooked

LEMMA LatchIsFreeze ==
    ASSUME TypeOK, TypeOK', WriteLatch
    PROVE  Ideal!Freeze \/ UNCHANGED Ideal!clock
  <1>1. CASE /\ rtc' = CaughtUp
             /\ latched' = rtc'
             /\ elapsed' = Remainder
    <2>1. CaughtUp' = CaughtUp /\ Remainder' = Remainder /\ latched' = CaughtUp
      BY <1>1, LooksAtTheClock, Zenon
    <2> QED  BY <2>1, Zenon DEF Ideal!Freeze
  <1>2. CASE UNCHANGED <<rtc, latched, elapsed>>
    <2>1. rtc' = rtc /\ latched' = latched /\ elapsed' = elapsed
      BY <1>2
    <2>2. CaughtUp' = CaughtUp /\ Remainder' = Remainder
      BY <2>1, MappedNow, MappedNext, Zenon
    <2> QED  BY <2>1, <2>2, Zenon DEF Ideal!clock
  <1> QED  BY <1>1, <1>2, Zenon DEF WriteLatch

LEMMA SecondsAreSet ==
    ASSUME TypeOK, TypeOK', WriteSeconds PROVE Ideal!Set
  <1>1. SetSeconds /\ elapsed' = 0 /\ latched' = rtc'
    BY Writes
  <1>2. CaughtUp' = rtc' /\ Remainder' = 0
    BY <1>1, LooksAtTheClock, Zenon
  <1> QED  BY <1>1, <1>2, Zenon DEF SetSeconds, Ideal!Set

LEMMA OthersAreSet ==
    ASSUME TypeOK, TypeOK', WriteOther PROVE Ideal!Set
  <1>1. SetOther /\ elapsed' = Remainder /\ latched' = rtc'
    BY Writes
  <1>2. CaughtUp' = rtc' /\ Remainder' = Remainder
    BY <1>1, LooksAtTheClock, Zenon
  <1> QED  BY <1>1, <1>2, Zenon DEF SetOther, Ideal!Set

LEMMA NothingIsAStutter ==
    ASSUME TypeOK, TypeOK', WriteNothing PROVE UNCHANGED Ideal!clock
  <1>1. rtc' = CaughtUp /\ elapsed' = Remainder /\ latched' = latched
    BY DEF WriteNothing
  <1>2. CaughtUp' = CaughtUp /\ Remainder' = Remainder
    BY <1>1, LooksAtTheClock, Zenon
  <1> QED  BY <1>1, <1>2, Zenon DEF Ideal!clock

LEMMA ReloadIsReinsert ==
    ASSUME TypeOK, TypeOK', Reload PROVE Ideal!Reinsert
  <1>1. rtc' = CaughtUp /\ elapsed' = 0 /\ latched' = latched
    BY DEF Reload
  <1>2. CaughtUp' = CaughtUp /\ Remainder' = 0
    BY <1>1, LooksAtTheClock, Zenon
  <1> QED  BY <1>1, <1>2, Zenon DEF Ideal!Reinsert

LEMMA MappedStep ==
    TypeOK /\ TypeOK' /\ [Next]_vars => [Ideal!ClockNext]_(Ideal!clock)
  <1> SUFFICES ASSUME TypeOK, TypeOK', [Next]_vars
               PROVE  Ideal!ClockNext \/ UNCHANGED Ideal!clock
    OBVIOUS
  <1>1. CASE Tick
    BY <1>1, TickIsAdvance DEF Ideal!ClockNext
  <1>2. CASE WriteLatch
    BY <1>2, LatchIsFreeze DEF Ideal!ClockNext
  <1>3. CASE WriteSeconds
    BY <1>3, SecondsAreSet DEF Ideal!ClockNext
  <1>4. CASE WriteOther
    BY <1>4, OthersAreSet DEF Ideal!ClockNext
  <1>5. CASE WriteNothing
    BY <1>5, NothingIsAStutter
  <1>6. CASE Reload
    BY <1>6, ReloadIsReinsert DEF Ideal!ClockNext
  <1>7. CASE UNCHANGED vars
    <2>1. rtc' = rtc /\ latched' = latched /\ elapsed' = elapsed
      BY <1>7 DEF vars
    <2>2. CaughtUp' = CaughtUp /\ Remainder' = Remainder
      BY <2>1, MappedNow, MappedNext, Zenon
    <2> QED  BY <2>1, <2>2, Zenon DEF Ideal!clock
  <1> QED  BY <1>1, <1>2, <1>3, <1>4, <1>5, <1>6, <1>7 DEF Next

(* The clock of the cartridge, which the mapper only computes when it is   *)
(* looked at, is a clock that moves once a second: however long it is left *)
(* alone, whatever is written to it in between, through halts, overflows   *)
(* of the day counter and reloads.                                         *)
THEOREM ClockIsReal == Spec => ImplementsClock
  BY TypeCorrect, MappedInit, MappedStep, PTL DEF Spec, ImplementsClock, Ideal!ClockSpec
=============================================================================
