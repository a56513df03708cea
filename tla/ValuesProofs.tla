---------------------------- MODULE ValuesProofs ----------------------------
(***************************************************************************)
(* Theorems about the values: when timers that run over tell the time      *)
(* between two moments, that the comparisons are orders, as sort() and     *)
(* unique() need them, and what they sort first, that the identifier of a  *)
(* cell is its alone, and that the text of a request says what it should.  *)
(***************************************************************************)
EXTENDS Values, XmlText, FiniteSetsExt, WellFoundedInduction, TLAPS

-----------------------------------------------------------------------------
(* Remainders.                                                             *)

LEMMA ModFacts ==
  ASSUME NEW m \in Nat \ {0}, NEW x \in Int
  PROVE  /\ x % m \in 0..(m - 1)
         /\ x \div m \in Int
         /\ x = m * (x \div m) + (x % m)
  BY SMTT(20)

(* A remainder is the only number of its range that is a multiple of the   *)
(* modulus away.                                                           *)
LEMMA ModUnique ==
  ASSUME NEW m \in Nat \ {0}, NEW x \in Int, NEW k \in Int,
         NEW r \in 0..(m - 1), x = m * k + r
  PROVE  x % m = r
  BY SMTT(20)

LEMMA ModDifference ==
  ASSUME NEW m \in Nat \ {0}, NEW x \in Int, NEW y \in Int
  PROVE  ((x % m) - (y % m)) % m = (x - y) % m
<1> DEFINE q == x \div m
           u == x % m
           s == y \div m
           t == y % m
           p == (x - y) \div m
           r == (x - y) % m
<1>1. x - y \in Int
  OBVIOUS
<1>2. /\ x = m * q + u /\ q \in Int /\ u \in Int
      /\ y = m * s + t /\ s \in Int /\ t \in Int
      /\ x - y = m * p + r /\ p \in Int /\ r \in 0..(m - 1)
  <2>1. x = m * q + u /\ q \in Int /\ u \in Int
    BY ModFacts
  <2>2. y = m * s + t /\ s \in Int /\ t \in Int
    BY ModFacts
  <2>3. x - y = m * p + r /\ p \in Int /\ r \in 0..(m - 1)
    BY <1>1, ModFacts
  <2> QED
    BY <2>1, <2>2, <2>3
<1> HIDE DEF q, u, s, t, p, r
<1>3. (m * p - m * q) + m * s = m * ((p - q) + s)
  BY <1>2, Z3
<1>4. u - t = m * ((p - q) + s) + r
  <2>1. m * p \in Int /\ m * q \in Int /\ m * s \in Int
    BY <1>2
  <2> QED
    BY <1>2, <1>3, <2>1
<1>5. u - t \in Int /\ (p - q) + s \in Int
  BY <1>2
<1>6. (u - t) % m = r
  BY <1>2, <1>4, <1>5, ModUnique
<1> QED
  BY <1>6 DEF u, t, r

(* What is taken off first, as a timer's reset does.                       *)
LEMMA ModDifferenceLeft ==
  ASSUME NEW m \in Nat \ {0}, NEW x \in Int, NEW y \in Int
  PROVE  (x - (y % m)) % m = (x - y) % m
<1>1. y = m * (y \div m) + (y % m) /\ y \div m \in Int
      /\ y % m \in Int
  BY ModFacts
<1>2. x - y = m * ((x - y) \div m) + ((x - y) % m)
      /\ (x - y) % m \in 0..(m - 1) /\ (x - y) \div m \in Int
  BY ModFacts
<1> DEFINE s == y \div m
           p == (x - y) \div m
           r == (x - y) % m
           t == y % m
<1>3. /\ y = m * s + t /\ s \in Int /\ t \in Int
      /\ x - y = m * p + r /\ r \in 0..(m - 1) /\ p \in Int
  BY <1>1, <1>2
<1> HIDE DEF s, p, r, t
<1>4. m * p + m * s = m * (p + s)
  BY <1>3, Z3
<1>5. x - t = m * (p + s) + r
  <2>1. m * p \in Int /\ m * s \in Int
    BY <1>3
  <2> QED
    BY <1>3, <1>4, <2>1
<1>6. (x - t) % m = r
  BY <1>3, <1>5, ModUnique
<1> QED
  BY <1>6 DEF r, t

-----------------------------------------------------------------------------
(* Timers.  Moments are counted without end here.                          *)

LEMMA ModulusIs == Modulus \in Nat \ {0} /\ Modulus = 2 * Half
  BY HalfAssumption DEF Modulus

(* Two timers are as far apart as their moments were, however often the    *)
(* ticks have run over, as long as that is less than half their range:     *)
(* Timer::delta.                                                           *)
THEOREM DeltaIsTheDifference ==
  ASSUME NEW x \in Int, NEW y \in Int, x - y \in -Half..(Half - 1)
  PROVE  Delta(x % Modulus, y % Modulus) = x - y
<1>1. ((x % Modulus) - (y % Modulus)) % Modulus = (x - y) % Modulus
  BY ModulusIs, ModDifference
<1>2. Signed((x - y) % Modulus) = x - y
  <2>1. CASE x - y >= 0
    <3>1. (x - y) % Modulus = x - y
      <4>1. x - y = Modulus * 0 + (x - y) /\ x - y \in 0..(Modulus - 1)
        BY <2>1, ModulusIs, HalfAssumption
      <4> QED
        BY <4>1, ModulusIs, ModUnique, SMTT(30)
    <3>2. x - y < Half
      BY HalfAssumption
    <3> QED
      BY <3>1, <3>2, Zenon DEF Signed
  <2>2. CASE x - y < 0
    <3>1. (x - y) % Modulus = (x - y) + Modulus
      <4>1. /\ x - y = Modulus * (-1) + ((x - y) + Modulus)
            /\ (x - y) + Modulus \in 0..(Modulus - 1)
        BY <2>2, ModulusIs, HalfAssumption
      <4> QED
        BY <4>1, ModulusIs, ModUnique, SMTT(30)
    <3>2. ~((x - y) + Modulus < Half)
      BY ModulusIs, HalfAssumption
    <3> QED
      BY <3>1, <3>2, ModulusIs DEF Signed
  <2> QED
    BY <2>1, <2>2
<1> QED
  BY <1>1, <1>2 DEF Delta

(* A timer that is reset to have started n milliseconds ago, as that of an *)
(* access point is, tells that n: Timer::reset and elapsed.                *)
THEOREM ElapsedSinceReset ==
  ASSUME NEW x \in Int, NEW n \in 0..(Modulus - 1)
  PROVE  elapsed(Reset(x % Modulus, n), x % Modulus) = n
<1> DEFINE t == x % Modulus
<1>1. t \in Int
  BY ModulusIs, ModFacts
<1> HIDE DEF t
<1>2. t - n \in Int /\ n \in Int
  BY <1>1, ModulusIs
<1>3. (t - ((t - n) % Modulus)) % Modulus = (t - (t - n)) % Modulus
  BY <1>1, <1>2, ModulusIs, ModDifferenceLeft
<1>4. t - (t - n) = n
  BY <1>1, <1>2
<1>5. n = Modulus * 0 + n
  BY <1>2, ModulusIs
<1>6. n % Modulus = n
  BY <1>2, <1>5, ModulusIs, ModUnique
<1> QED
  BY <1>3, <1>4, <1>6 DEF elapsed, Reset, t

(* The newer of two timers is the lesser, in every stretch of half their   *)
(* range: Timer::compare and operator<, which says the opposite.           *)
THEOREM NewerTimerIsLess ==
  ASSUME NEW x \in Int, NEW y \in Int, x - y < Half, y - x < Half
  PROVE  /\ TimerCompare(x % Modulus, y % Modulus) = simpleCompare(y, x)
         /\ TimerLess(x % Modulus, y % Modulus) <=> x < y
<1>1. Delta(x % Modulus, y % Modulus) = x - y
  <2>1. x - y \in -Half..(Half - 1)
    BY HalfAssumption
  <2> QED
    BY <2>1, DeltaIsTheDifference
<1>2. x % Modulus = y % Modulus <=> x = y
  <2>1. ASSUME x % Modulus = y % Modulus
        PROVE  x = y
    <3> DEFINE t == x % Modulus
    <3>1. t \in Int
      BY ModulusIs, ModFacts
    <3>2. Delta(t, t) = 0
      <4>1. t - t = Modulus * 0 + 0 /\ 0 \in 0..(Modulus - 1) /\ t - t \in Int
        BY <3>1, ModulusIs
      <4>2. (t - t) % Modulus = 0
        BY <4>1, ModulusIs, ModUnique
      <4> QED
        BY <4>2, HalfAssumption DEF Delta, Signed
    <3>3. x - y = 0
      BY <1>1, <2>1, <3>2
    <3> QED
      BY <3>3
  <2> QED
    BY <2>1
<1>3. TimerCompare(x % Modulus, y % Modulus) = simpleCompare(y, x)
  <2>1. CASE x = y
    BY <2>1 DEF TimerCompare, simpleCompare
  <2>2. CASE x > y
    BY <1>1, <1>2, <2>2 DEF TimerCompare, simpleCompare
  <2>3. CASE x < y
    BY <1>1, <1>2, <2>3 DEF TimerCompare, simpleCompare
  <2> QED
    BY <2>1, <2>2, <2>3
<1> QED
  BY <1>1, <1>3 DEF TimerLess

(* Half the range apart, each is less than the other, so that no stretch   *)
(* that long is in order.                                                  *)
THEOREM OppositeTimersAreBothOlder ==
  ASSUME NEW x \in Timers, NEW y \in Timers, x - y = Half
  PROVE  TimerCompare(x, y) = 1 /\ TimerCompare(y, x) = 1
<1>1. x \in Int /\ y \in Int /\ x # y
  BY HalfAssumption DEF Timers, Modulus
<1>2. (x - y) % Modulus = Half
  <2>1. x - y = Modulus * 0 + Half /\ Half \in 0..(Modulus - 1)
    BY ModulusIs, HalfAssumption
  <2> QED
    BY <1>1, <2>1, ModulusIs, ModUnique
<1>3. (y - x) % Modulus = Half
  <2>1. y - x = Modulus * (-1) + Half /\ Half \in 0..(Modulus - 1)
    BY <1>1, ModulusIs, HalfAssumption
  <2> QED
    BY <1>1, <2>1, ModulusIs, ModUnique
<1>4. Delta(x, y) = -Half /\ Delta(y, x) = -Half
  BY <1>2, <1>3, ModulusIs, HalfAssumption DEF Delta, Signed
<1> QED
  BY <1>1, <1>4, HalfAssumption DEF TimerCompare

(* What is added to a time comes off again, although times run over too:   *)
(* Time's operators + and -, and its seconds and milliseconds.             *)
THEOREM TimeComesBack ==
  ASSUME NEW time \in 0..(TimeModulus - 1), NEW d \in Int
  PROVE  /\ Minus(Plus(time, d), d) = time
         /\ TimeOfSec(Sec(time), Msec(time)) = time
<1>1. TimeModulus \in Nat \ {0}
  BY DEF TimeModulus, Word
<1> HIDE DEF TimeModulus
<1>2. time \in Int /\ time = TimeModulus * 0 + time
  BY <1>1
<1>3. time % TimeModulus = time
  BY <1>1, <1>2, ModUnique
<1>4. (((time + d) % TimeModulus) - d) % TimeModulus = time
  <2> DEFINE k == (time + d) \div TimeModulus
             r == (time + d) % TimeModulus
  <2>1. time + d \in Int
    BY <1>2
  <2>2. time + d = TimeModulus * k + r /\ k \in Int /\ r \in Int
    BY <1>1, <2>1, ModFacts
  <2> HIDE DEF k, r
  <2>3. r - d = TimeModulus * (-k) + time
    <3>1. TimeModulus * (-k) = -(TimeModulus * k) /\ TimeModulus * k \in Int
      BY <1>1, <2>2, Z3
    <3> QED
      BY <1>2, <2>2, <3>1
  <2>4. (r - d) % TimeModulus = time
    BY <1>1, <2>2, <2>3, ModUnique
  <2> QED
    BY <2>4 DEF r
<1>5. (time \div 1000) * 1000 + (time % 1000) = time
  BY <1>2, Z3
<1> QED
  BY <1>3, <1>4, <1>5 DEF Plus, Minus, TimeOfSec, Sec, Msec

LEMMA WeekIs == Week \in Nat
  BY DEF Week

(* GPS times are in the order of their weeks, and those of one week in     *)
(* that of their seconds: SirfProtocol's fromGPSTime.                      *)
THEOREM GpsTimesAreInOrder ==
  ASSUME NEW w \in Nat, NEW v \in Nat,
         NEW s \in 0..(Week - 1), NEW t \in 0..(Week - 1)
  PROVE  fromGPSTime(w, s) < fromGPSTime(v, t) <=> w < v \/ (w = v /\ s < t)
<1>1. Week \in Nat /\ s \in Int /\ t \in Int
  BY WeekIs
<1>2. w * Week \in Int /\ v * Week \in Int
  BY <1>1
<1>3. fromGPSTime(w, s) < fromGPSTime(v, t) <=> w * Week + s < v * Week + t
  <2> DEFINE begin == 3657 * 24 * 3600
  <2>1. begin \in Int
    OBVIOUS
  <2> HIDE DEF begin
  <2>2. fromGPSTime(w, s) = begin + w * Week + s
    BY Zenon DEF fromGPSTime, begin
  <2>3. fromGPSTime(v, t) = begin + v * Week + t
    BY Zenon DEF fromGPSTime, begin
  <2> QED
    BY <1>1, <1>2, <2>1, <2>2, <2>3
<1>4. w < v => w * Week + s < v * Week + t
  <2>1. w + 1 <= v => (w + 1) * Week <= v * Week
    BY <1>1, Z3
  <2>2. (w + 1) * Week = w * Week + Week
    BY <1>1, Z3
  <2> QED
    BY <1>1, <1>2, <2>1, <2>2
<1>5. v < w => v * Week + t < w * Week + s
  <2>1. v + 1 <= w => (v + 1) * Week <= w * Week
    BY <1>1, Z3
  <2>2. (v + 1) * Week = v * Week + Week
    BY <1>1, Z3
  <2> QED
    BY <1>1, <1>2, <2>1, <2>2
<1> QED
  BY <1>1, <1>2, <1>3, <1>4, <1>5

LEMMA CarryIsExact ==
  ASSUME NEW m \in Nat \ {0}, NEW s \in Int, NEW u \in Int
  PROVE  (s + (u \div m)) * m + (u % m) = s * m + u
<1> DEFINE k == u \div m
           r == u % m
<1>1. u = m * k + r /\ k \in Int /\ r \in Int
  BY ModFacts
<1> HIDE DEF k, r
<1>2. (s + k) * m = s * m + m * k /\ s * m \in Int /\ m * k \in Int
  BY <1>1, Z3
<1>3. (s + k) * m \in Int
  BY <1>1
<1>4. (s + k) * m + r = s * m + u
  BY <1>1, <1>2, <1>3
<1> QED
  BY <1>4 DEF k, r

LEMMA CarryUnlessExact ==
  ASSUME NEW m \in Nat \ {0}, NEW s \in Int, NEW u \in Nat, NEW d,
         d = IF u > m THEN [sec |-> s + (u \div m), usec |-> u % m]
             ELSE [sec |-> s, usec |-> u]
  PROVE  /\ d.sec * m + d.usec = s * m + u
         /\ d.usec \in 0..m
         /\ d.usec = m <=> u = m
<1>1. CASE u > m
  <2>1. d.sec = s + (u \div m) /\ d.usec = u % m
    BY <1>1
  <2>2. u % m \in 0..(m - 1)
    BY ModFacts
  <2>3. u % m \in 0..m /\ u % m # m /\ u # m
    BY <1>1, <2>2
  <2>4. (s + (u \div m)) * m + (u % m) = s * m + u
    BY CarryIsExact
  <2> QED
    BY <2>1, <2>3, <2>4, Zenon
<1>2. CASE ~(u > m)
  <2>1. d.sec = s /\ d.usec = u
    BY <1>2
  <2>2. u \in 0..m
    BY <1>2
  <2> QED
    BY <2>1, <2>2, Zenon
<1> QED
  BY <1>1, <1>2

LEMMA MillionIs == Million \in Nat \ {0}
  BY DEF Million

LEMMA SecondsAndRest ==
  ASSUME NEW n \in Int, NEW q \in Int, NEW r \in Int, NEW u \in Int
  PROVE  (n + q) * Million + (u + r * 1000)
           = n * Million + u + (1000 * q + r) * 1000
<1>1. /\ n * Million \in Int
      /\ (n + q) * Million = n * Million + q * Million
  BY Z3 DEF Million
<1>2. q * Million = (1000 * q) * 1000
  BY Z3 DEF Million
<1>3. (1000 * q + r) * 1000 = (1000 * q) * 1000 + r * 1000
  BY Z3
<1> QED
  BY <1>1, <1>2, <1>3

(* The deadline of Event::wait is as many milliseconds away as was asked,  *)
(* and its nanoseconds are below a second but in one case: they are not    *)
(* carried when they make a second exactly, which pthread_cond_timedwait   *)
(* refuses.                                                                *)
THEOREM DeadlineIsExact ==
  ASSUME NEW now, now.sec \in Nat, now.usec \in 0..(Million - 1),
         NEW ms \in Nat
  PROVE  LET d == Deadline(now, ms)
         IN /\ d.sec * Million + d.usec
                 = now.sec * Million + now.usec + ms * 1000
            /\ d.usec \in 0..Million
            /\ d.usec = Million <=> now.usec + (ms % 1000) * 1000 = Million
<1> DEFINE d == Deadline(now, ms)
           q == ms \div 1000
           r == ms % 1000
           n == now.sec
           u == now.usec
<1>1. Million \in Nat \ {0}
  BY MillionIs
<1>2. ms = 1000 * q + r /\ q \in Int /\ r \in 0..999
  BY ModFacts
<1>3. n \in Int /\ u \in Nat
  BY <1>1
<1> DEFINE v == u + r * 1000
           s == n + q
<1>4. d = IF v > Million
          THEN [sec |-> s + (v \div Million), usec |-> v % Million]
          ELSE [sec |-> s, usec |-> v]
  BY Zenon DEF Deadline
<1> HIDE DEF d, q, r, n, u
<1>5. v \in Nat /\ s \in Int /\ r \in Int /\ u \in Int
  BY <1>2, <1>3
<1>6. s * Million + v = n * Million + u + (1000 * q + r) * 1000
  BY <1>2, <1>3, <1>5, SecondsAndRest
<1>7. s * Million + v = n * Million + u + ms * 1000
  <2>1. ms = 1000 * q + r
    BY <1>2
  <2> HIDE DEF v, s
  <2> QED
    BY <1>6, <2>1
<1> HIDE DEF v, s
<1>8. /\ d.sec * Million + d.usec = s * Million + v
      /\ d.usec \in 0..Million
      /\ d.usec = Million <=> v = Million
  BY <1>1, <1>4, <1>5, CarryUnlessExact
<1>9. d.sec * Million + d.usec = n * Million + u + ms * 1000
  <2>1. d.sec * Million + d.usec = s * Million + v
    BY <1>8
  <2> QED
    BY <1>7, <2>1, ZenonT(60)
<1>10. v = u + r * 1000
  BY DEF v
<1>11. d.usec = Million <=> u + r * 1000 = Million
  <2>1. d.usec = Million <=> v = Million
    BY <1>8
  <2> HIDE DEF v
  <2> QED
    BY <1>10, <2>1, ZenonT(60)
<1>12. d.usec \in 0..Million
  BY <1>8
<1> QED
  BY <1>9, <1>11, <1>12 DEF d, r, n, u

-----------------------------------------------------------------------------
(* Comparisons.                                                            *)

(* r compares what m and n stand for.                                      *)
Sorts(r, m, n) == r \in Int /\ (r < 0 <=> m < n) /\ (r = 0 <=> m = n)

(* The results p, q and r of comparing a with b, b with c and a with c are *)
(* those of one order.                                                     *)
Consistent(p, q, r) ==
  /\ p \in Int /\ q \in Int /\ r \in Int
  /\ p <= 0 /\ q <= 0 => r <= 0
  /\ p <= 0 /\ q <= 0 /\ r = 0 => p = 0 /\ q = 0
  /\ p = 0 /\ q = 0 => r = 0

LEMMA SimpleSorts ==
  ASSUME NEW x \in Int, NEW y \in Int
  PROVE  Sorts(simpleCompare(x, y), x, y)
  BY DEF Sorts, simpleCompare

(* A comparison that decides the ties of another is consistent with it.    *)
LEMMA ThenIsConsistent ==
  ASSUME NEW p \in Int, NEW q \in Int, NEW r \in Int,
         NEW u \in Int, NEW v \in Int, NEW w \in Int,
         Consistent(p, q, r), p = 0 /\ q = 0 => Consistent(u, v, w)
  PROVE  Consistent(Then(p, u), Then(q, v), Then(r, w))
<1>1. CASE p = 0 /\ q = 0
  <2>1. r = 0
    BY <1>1 DEF Consistent
  <2> QED
    BY <1>1, <2>1 DEF Consistent, Then
<1>2. CASE p = 0 /\ q # 0
  <2>1. q < 0 => r < 0
    BY <1>2 DEF Consistent
  <2> QED
    BY <1>2, <2>1 DEF Consistent, Then
<1>3. CASE p # 0 /\ q = 0
  <2>1. p < 0 => r < 0
    BY <1>3 DEF Consistent
  <2> QED
    BY <1>3, <2>1 DEF Consistent, Then
<1>4. CASE p # 0 /\ q # 0
  <2>1. p < 0 /\ q < 0 => r < 0
    BY <1>4 DEF Consistent
  <2> QED
    BY <1>4, <2>1 DEF Consistent, Then
<1> QED
  BY <1>1, <1>2, <1>3, <1>4

LEMMA ThenIsOpposite ==
  ASSUME NEW p \in Int, NEW q \in Int, NEW u \in Int, NEW v \in Int,
         p = -q, p = 0 => u = -v
  PROVE  Then(p, u) = -Then(q, v)
  BY DEF Then

LEMMA SimpleIsConsistent ==
  ASSUME NEW x \in Int, NEW y \in Int, NEW z \in Int
  PROVE  /\ Consistent(simpleCompare(x, y), simpleCompare(y, z),
                       simpleCompare(x, z))
         /\ Consistent(x - y, y - z, x - z)
  BY DEF Consistent, simpleCompare

-----------------------------------------------------------------------------
(* MACs.                                                                   *)

LEMMA DigitSorts ==
  ASSUME NEW r, NEW m \in Int, NEW n \in Int, Sorts(r, m, n),
         NEW x \in 0..255, NEW y \in 0..255
  PROVE  Sorts(Then(r, simpleCompare(x, y)), x + 256 * m, y + 256 * n)
<1>1. x \in Int /\ y \in Int /\ r \in Int
  BY DEF Sorts
<1>2. Sorts(simpleCompare(x, y), x, y)
  BY <1>1, SimpleSorts
<1> DEFINE s == simpleCompare(x, y)
<1>3. s \in Int /\ (s < 0 <=> x < y) /\ (s = 0 <=> x = y)
  BY <1>2 DEF Sorts
<1>4. /\ x + 256 * m < y + 256 * n <=> m < n \/ (m = n /\ x < y)
      /\ x + 256 * m = y + 256 * n <=> m = n /\ x = y
  OBVIOUS
<1> HIDE DEF s
<1>5. CASE r = 0
  <2>1. Then(r, s) = s /\ m = n
    BY <1>5 DEF Then, Sorts
  <2> QED
    BY <1>3, <1>4, <2>1 DEF Sorts, s
<1>6. CASE r # 0
  <2>1. Then(r, s) = r /\ m # n /\ (r < 0 <=> m < n)
    BY <1>6 DEF Then, Sorts
  <2> QED
    BY <1>1, <1>4, <1>6, <2>1 DEF Sorts, s
<1> QED
  BY <1>5, <1>6

(* MACs sort by the number they are, the natural way the comment in        *)
(* MAC::compare shows, and tie only if they are equal.                     *)
THEOREM MacsSortAsNumbers ==
  ASSUME NEW a \in MACs, NEW b \in MACs
  PROVE  Sorts(MacCompare(a, b), toLong(a), toLong(b))
<1>1. /\ a[1] \in 0..255 /\ a[2] \in 0..255 /\ a[3] \in 0..255
      /\ a[4] \in 0..255 /\ a[5] \in 0..255 /\ a[6] \in 0..255
      /\ b[1] \in 0..255 /\ b[2] \in 0..255 /\ b[3] \in 0..255
      /\ b[4] \in 0..255 /\ b[5] \in 0..255 /\ b[6] \in 0..255
  BY DEF MACs
<1> DEFINE m5(c) == c[5] + 256 * c[6]
           m4(c) == c[4] + 256 * m5(c)
           m3(c) == c[3] + 256 * m4(c)
           m2(c) == c[2] + 256 * m3(c)
           r6 == simpleCompare(a[6], b[6])
           r5 == Then(r6, simpleCompare(a[5], b[5]))
           r4 == Then(r5, simpleCompare(a[4], b[4]))
           r3 == Then(r4, simpleCompare(a[3], b[3]))
           r2 == Then(r3, simpleCompare(a[2], b[2]))
<1>2. /\ a[6] \in Int /\ b[6] \in Int /\ m5(a) \in Int /\ m5(b) \in Int
      /\ m4(a) \in Int /\ m4(b) \in Int /\ m3(a) \in Int /\ m3(b) \in Int
      /\ m2(a) \in Int /\ m2(b) \in Int
  <2>1. /\ a[2] \in Int /\ a[3] \in Int /\ a[4] \in Int /\ a[5] \in Int
        /\ a[6] \in Int /\ b[2] \in Int /\ b[3] \in Int /\ b[4] \in Int
        /\ b[5] \in Int /\ b[6] \in Int
    BY <1>1, SMTT(30)
  <2>2. m5(a) \in Int /\ m5(b) \in Int
    BY <2>1
  <2> HIDE DEF m5
  <2>3. m4(a) \in Int /\ m4(b) \in Int
    BY <2>1, <2>2
  <2> HIDE DEF m4
  <2>4. m3(a) \in Int /\ m3(b) \in Int
    BY <2>1, <2>3
  <2> HIDE DEF m3
  <2>5. m2(a) \in Int /\ m2(b) \in Int
    BY <2>1, <2>4
  <2> QED
    BY <2>1, <2>2, <2>3, <2>4, <2>5
<1>3. Sorts(r6, a[6], b[6])
  BY <1>2, SimpleSorts
<1>4. Sorts(r5, m5(a), m5(b))
  BY <1>1, <1>2, <1>3, DigitSorts, ZenonT(60)
<1>5. Sorts(r4, m4(a), m4(b))
  <2> HIDE DEF m5, r5
  <2> QED
    BY <1>1, <1>2, <1>4, DigitSorts, ZenonT(60)
<1>6. Sorts(r3, m3(a), m3(b))
  <2> HIDE DEF m4, r4
  <2> QED
    BY <1>1, <1>2, <1>5, DigitSorts, ZenonT(60)
<1>7. Sorts(r2, m2(a), m2(b))
  <2> HIDE DEF m3, r3
  <2> QED
    BY <1>1, <1>2, <1>6, DigitSorts, ZenonT(60)
<1>8. Sorts(Then(r2, simpleCompare(a[1], b[1])), a[1] + 256 * m2(a),
            b[1] + 256 * m2(b))
  <2> HIDE DEF m2, r2
  <2> QED
    BY <1>1, <1>2, <1>7, DigitSorts, ZenonT(60)
<1> QED
  BY <1>8 DEF MacCompare, toLong

LEMMA HighDigitsFirst ==
  ASSUME NEW m \in Int, NEW n \in Int, NEW x \in 0..255, NEW y \in 0..255,
         m < n
  PROVE  x + 256 * m < y + 256 * n
  OBVIOUS

LEMMA ByteIs ==
  ASSUME NEW a \in MACs, NEW i \in 1..6
  PROVE  a[i] \in 0..255
  BY DEF MACs

Above(mac, m) == mac[1] + 256 * (mac[2] + 256 * (mac[3] + 256 * m))

LEMMA LowBytesLast ==
  ASSUME NEW a \in MACs, NEW b \in MACs, NEW m \in Int, NEW n \in Int, m < n
  PROVE  Above(a, m) < Above(b, n)
<1> DEFINE p == a[3] + 256 * m
           q == b[3] + 256 * n
           r == a[2] + 256 * p
           s == b[2] + 256 * q
<1>1. /\ a[1] \in 0..255 /\ a[2] \in 0..255 /\ a[3] \in 0..255
      /\ b[1] \in 0..255 /\ b[2] \in 0..255 /\ b[3] \in 0..255
  BY ByteIs
<1>2. p \in Int /\ q \in Int
  BY <1>1
<1>3. p < q
  BY <1>1, HighDigitsFirst, ZenonT(60)
<1> HIDE DEF p, q
<1>4. r \in Int /\ s \in Int
  BY <1>1, <1>2
<1>5. r < s
  BY <1>1, <1>2, <1>3, HighDigitsFirst, ZenonT(60)
<1> HIDE DEF r, s
<1>6. a[1] + 256 * r < b[1] + 256 * s
  BY <1>1, <1>4, <1>5, HighDigitsFirst, ZenonT(60)
<1> QED
  BY <1>6, Zenon DEF Above, r, s, p, q

LEMMA DigitIs ==
  ASSUME NEW m \in Int, NEW x \in 0..255
  PROVE  x + 256 * m \in Int
  OBVIOUS

LEMMA HighDigitsSame ==
  ASSUME NEW m \in Int, NEW n \in Int, NEW x \in 0..255, NEW y \in 0..255,
         x + 256 * m = y + 256 * n
  PROVE  m = n
  OBVIOUS

LEMMA OrganisationIs ==
  ASSUME NEW a \in MACs
  PROVE  /\ a[5] + 256 * a[6] \in Int
         /\ getOUI(a) = a[4] + 256 * (a[5] + 256 * a[6])
         /\ getOUI(a) \in Int
<1>1. a[4] \in 0..255 /\ a[5] \in 0..255 /\ a[6] \in Int
  BY ByteIs
<1>2. a[5] + 256 * a[6] \in Int
  BY <1>1, DigitIs, Zenon
<1>3. a[4] + 256 * (a[5] + 256 * a[6]) \in Int
  BY <1>1, <1>2, DigitIs, Zenon
<1>4. getOUI(a) = a[4] + 256 * (a[5] + 256 * a[6])
  BY Zenon DEF getOUI, Oui
<1> QED
  BY <1>2, <1>3, <1>4, Zenon

LEMMA FirstByteOfOrganisation ==
  ASSUME NEW a \in MACs, NEW b \in MACs, getOUI(a) = getOUI(b)
  PROVE  a[6] = b[6]
<1> DEFINE p == a[5] + 256 * a[6]
           q == b[5] + 256 * b[6]
<1>1. /\ a[4] \in 0..255 /\ a[5] \in 0..255 /\ a[6] \in Int
      /\ b[4] \in 0..255 /\ b[5] \in 0..255 /\ b[6] \in Int
  BY ByteIs
<1>2. p \in Int /\ getOUI(a) = a[4] + 256 * p
  BY OrganisationIs, ZenonT(60)
<1>3. q \in Int /\ getOUI(b) = b[4] + 256 * q
  BY OrganisationIs, ZenonT(60)
<1>4. p = q => a[6] = b[6]
  BY <1>1, HighDigitsSame, ZenonT(60)
<1> HIDE DEF p, q
<1>5. a[4] + 256 * p = b[4] + 256 * q
  BY <1>2, <1>3, Zenon
<1> DEFINE x == a[4]
           y == b[4]
<1>6. /\ x \in 0..255 /\ y \in 0..255 /\ p \in Int /\ q \in Int
      /\ x + 256 * p = y + 256 * q
  BY <1>1, <1>2, <1>3, <1>5
<1> HIDE DEF x, y
<1>7. p = q
  BY <1>6, SMT
<1> QED
  BY <1>4, <1>7

(* Whether a MAC is unique in the world is a matter of its organisation    *)
(* alone, by which MACs sort first: MAC::getOUI and isGloballyUnique.      *)
THEOREM OrganisationsSortTogether ==
  ASSUME NEW a \in MACs, NEW b \in MACs
  PROVE  /\ getOUI(a) < getOUI(b) => MacCompare(a, b) < 0
         /\ getOUI(a) = getOUI(b) =>
              (isGloballyUnique(a) <=> isGloballyUnique(b))
<1>1. toLong(a) = Above(a, getOUI(a)) /\ toLong(b) = Above(b, getOUI(b))
  BY Zenon DEF toLong, getOUI, Oui, Above
<1>2. getOUI(a) \in Int /\ getOUI(b) \in Int
  BY OrganisationIs, Zenon
<1>3. ASSUME getOUI(a) < getOUI(b) PROVE MacCompare(a, b) < 0
  <2>1. MacCompare(a, b) < 0 <=> toLong(a) < toLong(b)
    BY MacsSortAsNumbers, Zenon DEF Sorts
  <2>2. Above(a, getOUI(a)) < Above(b, getOUI(b))
    BY <1>2, <1>3, LowBytesLast, Zenon
  <2>3. toLong(a) < toLong(b)
    BY <1>1, <2>2, Zenon
  <2> QED
    BY <2>1, <2>3, Zenon
<1>4. ASSUME getOUI(a) = getOUI(b)
      PROVE  isGloballyUnique(a) <=> isGloballyUnique(b)
  <2>1. a[6] = b[6]
    BY <1>4, FirstByteOfOrganisation, Zenon
  <2> QED
    BY <1>4, <2>1, Zenon DEF isGloballyUnique
<1> QED
  BY <1>3, <1>4

-----------------------------------------------------------------------------
(* Cells.                                                                  *)

LEMMA WordIs == Word \in Nat \ {0}
  BY DEF Word

LEMMA CiRangeIs ==
  /\ CiRange["GSM"] = Word
  /\ CiRange["UMTS"] = 4096 * Word /\ CiRange["LTE"] = 4096 * Word
  BY DEF CiRange

(* What the makers of a CellTower look at, and that an LTE cell and no     *)
(* other is without a lac.                                                 *)
IsTower(c) ==
  /\ c.type \in {"GSM", "UMTS", "LTE"}
  /\ c.mcc \in 0..999 /\ c.mnc \in 0..999
  /\ c.ci \in Nat /\ c.ci < CiRange[c.type]
  /\ c.type # "LTE" => c.lac \in Nat /\ c.lac < Word
  /\ c.type = "LTE" => c.lac = -1

LEMMA RangeOfKind ==
  ASSUME NEW type \in {"GSM", "UMTS", "LTE"}
  PROVE  CiRange[type] \in Nat \ {0}
  BY CiRangeIs, WordIs

(* Dividing leaves nothing of a number only if it is in the range.         *)
LEMMA NothingLeft ==
  ASSUME NEW n \in Int, NEW m \in Nat \ {0}, n \div m = 0
  PROVE  n \in Nat /\ n < m
<1>1. n = m * 0 + (n % m) /\ n % m \in 0..(m - 1)
  BY ModFacts
<1> QED
  BY <1>1

(* Whatever numbers the modem gives, a tower is null or a cell's in type,  *)
(* codes, number and lac; and what the constructor asserts holds of it,    *)
(* but for an LTE cell whose area is more than 16 bits: LTETower does not  *)
(* look at its tac, and the assertion ends the process.                    *)
THEOREM TowersHoldTheirRanges ==
  ASSUME NEW type, NEW mcc \in Nat, NEW mnc \in Nat, NEW ci \in Int,
         NEW area \in Int
  PROVE  LET tower == Tower(type, mcc, mnc, ci, area)
         IN \/ tower = NoCell
            \/ /\ IsTower(tower)
               /\ Asserted(tower) <=> (type = "LTE" => area < Word)
<1> SUFFICES ASSUME IsCell(type, mcc, mnc, ci, area)
             PROVE  LET tower == Tower(type, mcc, mnc, ci, area)
                    IN /\ IsTower(tower)
                       /\ Asserted(tower) <=> (type = "LTE" => area < Word)
  BY Zenon DEF Tower
<1> DEFINE t == Tower(type, mcc, mnc, ci, area)
<1>1. t = [type |-> type, mcc |-> mcc, mnc |-> mnc, ci |-> ci,
           lac |-> IF type = "LTE" THEN -1 ELSE area,
           tac |-> IF type = "LTE" THEN area ELSE -1]
  BY Zenon DEF Tower
<1>2. type \in {"GSM", "UMTS", "LTE"}
  BY DEF IsCell, CiRange
<1>3. mcc \in 0..999 /\ mnc \in 0..999
  BY DEF IsCell, isValidGsmUmtsCommon, isValidMccMnc
<1>4. type # "LTE" => area \in Nat /\ area < Word
  <2>1. type # "LTE" => area \div Word = 0
    BY DEF IsCell, isValidGsmUmtsCommon, isValidLac
  <2> QED
    BY <2>1, WordIs, NothingLeft
<1>5. ci \in Nat /\ ci < CiRange[type]
  <2>1. CiRange[type] \in Nat \ {0}
    BY <1>2, RangeOfKind
  <2>2. ci \div CiRange[type] = 0
    BY DEF IsCell
  <2> QED
    BY <2>1, <2>2, NothingLeft
<1>6. /\ t.type = type /\ t.mcc = mcc /\ t.mnc = mnc /\ t.ci = ci
      /\ type # "LTE" => t.lac = area /\ t.tac = -1
      /\ type = "LTE" => t.lac = -1 /\ t.tac = area
  BY <1>1
<1> HIDE DEF t
<1>7. IsTower(t)
  BY <1>2, <1>3, <1>4, <1>5, <1>6 DEF IsTower
<1>8. Asserted(t) <=> (type = "LTE" => area < Word)
  <2> DEFINE B == 4096 * Word - 1
  <2>1. t.mcc <= 999 /\ t.mnc <= 999
    BY <1>3, <1>6
  <2>2. \/ t.type = "GSM" /\ t.ci < Word
        \/ t.type \in {"LTE", "UMTS"} /\ t.ci \in 0..B
    <3>1. type # "GSM" => ci \in 0..B
      BY <1>2, <1>5, CiRangeIs, WordIs
    <3>2. type = "GSM" => ci < Word
      BY <1>5, CiRangeIs
    <3> QED
      BY <1>2, <1>6, <3>1, <3>2
  <2>3. t.lac < Word
    <3>1. -1 < Word
      BY WordIs
    <3> QED
      BY <1>4, <1>6, <3>1
  <2>4. t.tac < Word <=> (type = "LTE" => area < Word)
    <3>1. -1 < Word
      BY WordIs
    <3> QED
      BY <1>6, <3>1
  <2> HIDE DEF B
  <2> QED
    BY <2>1, <2>2, <2>3, <2>4, SMTT(30) DEF Asserted, B
<1> QED
  BY <1>7, <1>8 DEF t

LEMMA KindsDiffer ==
  /\ CellTowerType["GSM"] = 1
  /\ CellTowerType["UMTS"] = 2
  /\ CellTowerType["LTE"] = 3
  BY DEF CellTowerType

LEMMA TowerParts ==
  ASSUME NEW c, IsTower(c)
  PROVE  /\ c.mcc \in Int /\ c.mnc \in Int /\ c.ci \in Int /\ c.lac \in Int
         /\ CellTowerType[c.type] \in Int
         /\ c.type = "LTE" => c.lac = -1
<1>1. /\ c.type \in {"GSM", "UMTS", "LTE"}
      /\ c.mcc \in 0..999 /\ c.mnc \in 0..999 /\ c.ci \in Nat
      /\ c.type # "LTE" => c.lac \in Nat
      /\ c.type = "LTE" => c.lac = -1
  BY ZenonT(60) DEF IsTower
<1>2. c.mcc \in Int /\ c.mnc \in Int /\ c.ci \in Int /\ c.lac \in Int
  <2>1. (\A n \in 0..999 : n \in Int) /\ (\A n \in Nat : n \in Int)
        /\ -1 \in Int
    OBVIOUS
  <2> QED
    BY <1>1, <2>1, ZenonT(60)
<1>3. CellTowerType[c.type] \in Int
  BY <1>1, KindsDiffer
<1> QED
  BY <1>1, <1>2, <1>3

LEMMA SameKind ==
  ASSUME NEW a, NEW b, IsTower(a), IsTower(b)
  PROVE  CellTowerType[a.type] - CellTowerType[b.type] = 0 <=> a.type = b.type
  BY KindsDiffer DEF IsTower

(* The comparison from the area, the cell and the network code up.         *)
ByArea(a, b) == IF a.type = "LTE" THEN 0 ELSE a.lac - b.lac
ByCell(a, b) == Then(a.ci - b.ci, ByArea(a, b))
ByNetwork(a, b) == Then(a.mnc - b.mnc, ByCell(a, b))
ByCountry(a, b) == Then(a.mcc - b.mcc, ByNetwork(a, b))

LEMMA CellCompareIs ==
  ASSUME NEW a, NEW b
  PROVE  CellCompare(a, b) =
           Then(CellTowerType[a.type] - CellTowerType[b.type],
                ByCountry(a, b))
  BY Zenon DEF CellCompare, ByCountry, ByNetwork, ByCell, ByArea

LEMMA ByAreInt ==
  ASSUME NEW a, NEW b, IsTower(a), IsTower(b)
  PROVE  /\ ByArea(a, b) \in Int /\ ByCell(a, b) \in Int
         /\ ByNetwork(a, b) \in Int /\ ByCountry(a, b) \in Int
<1>1. ByArea(a, b) \in Int
  BY TowerParts DEF ByArea
<1>2. ByCell(a, b) \in Int
  BY <1>1, TowerParts DEF ByCell, Then
<1>3. ByNetwork(a, b) \in Int
  BY <1>2, TowerParts DEF ByNetwork, Then
<1>4. ByCountry(a, b) \in Int
  BY <1>3, TowerParts DEF ByCountry, Then
<1> QED
  BY <1>1, <1>2, <1>3, <1>4

LEMMA OneKindIsConsistent ==
  ASSUME NEW a, NEW b, NEW c, IsTower(a), IsTower(b), IsTower(c),
         a.type = b.type, b.type = c.type
  PROVE  Consistent(ByCountry(a, b), ByCountry(b, c), ByCountry(a, c))
<1>1. /\ a.mcc \in Int /\ a.mnc \in Int /\ a.ci \in Int /\ a.lac \in Int
      /\ b.mcc \in Int /\ b.mnc \in Int /\ b.ci \in Int /\ b.lac \in Int
      /\ c.mcc \in Int /\ c.mnc \in Int /\ c.ci \in Int /\ c.lac \in Int
  BY TowerParts
<1>2. Consistent(ByArea(a, b), ByArea(b, c), ByArea(a, c))
  BY <1>1 DEF ByArea, Consistent
<1>3. Consistent(ByCell(a, b), ByCell(b, c), ByCell(a, c))
  <2> DEFINE p == a.ci - b.ci
             q == b.ci - c.ci
             r == a.ci - c.ci
  <2>1. Consistent(p, q, r) /\ p \in Int /\ q \in Int /\ r \in Int
    <3>1. Consistent(p, q, r)
      BY <1>1, SimpleIsConsistent
    <3> QED
      BY <3>1, Zenon DEF Consistent
  <2>2. /\ ByArea(a, b) \in Int /\ ByArea(b, c) \in Int
        /\ ByArea(a, c) \in Int
    BY ByAreInt
  <2>3. /\ ByCell(a, b) = Then(p, ByArea(a, b))
        /\ ByCell(b, c) = Then(q, ByArea(b, c))
        /\ ByCell(a, c) = Then(r, ByArea(a, c))
    BY Zenon DEF ByCell
  <2> HIDE DEF p, q, r
  <2> QED
    BY <1>2, <2>1, <2>2, <2>3, ThenIsConsistent
<1>4. Consistent(ByNetwork(a, b), ByNetwork(b, c), ByNetwork(a, c))
  <2> DEFINE p == a.mnc - b.mnc
             q == b.mnc - c.mnc
             r == a.mnc - c.mnc
  <2>1. Consistent(p, q, r) /\ p \in Int /\ q \in Int /\ r \in Int
    <3>1. Consistent(p, q, r)
      BY <1>1, SimpleIsConsistent
    <3> QED
      BY <3>1, Zenon DEF Consistent
  <2>2. /\ ByCell(a, b) \in Int /\ ByCell(b, c) \in Int
        /\ ByCell(a, c) \in Int
    BY ByAreInt
  <2>3. /\ ByNetwork(a, b) = Then(p, ByCell(a, b))
        /\ ByNetwork(b, c) = Then(q, ByCell(b, c))
        /\ ByNetwork(a, c) = Then(r, ByCell(a, c))
    BY Zenon DEF ByNetwork
  <2> HIDE DEF p, q, r
  <2> QED
    BY <1>3, <2>1, <2>2, <2>3, ThenIsConsistent
<1> DEFINE p == a.mcc - b.mcc
           q == b.mcc - c.mcc
           r == a.mcc - c.mcc
<1>5. Consistent(p, q, r) /\ p \in Int /\ q \in Int /\ r \in Int
  <2>1. Consistent(p, q, r)
    BY <1>1, SimpleIsConsistent
  <2> QED
    BY <2>1, Zenon DEF Consistent
<1>6. /\ ByNetwork(a, b) \in Int /\ ByNetwork(b, c) \in Int
      /\ ByNetwork(a, c) \in Int
  BY ByAreInt
<1>7. /\ ByCountry(a, b) = Then(p, ByNetwork(a, b))
      /\ ByCountry(b, c) = Then(q, ByNetwork(b, c))
      /\ ByCountry(a, c) = Then(r, ByNetwork(a, c))
  BY Zenon DEF ByCountry
<1> HIDE DEF p, q, r
<1> QED
  BY <1>4, <1>5, <1>6, <1>7, ThenIsConsistent

LEMMA OneKindIsOpposite ==
  ASSUME NEW a, NEW b, IsTower(a), IsTower(b), a.type = b.type
  PROVE  /\ ByCountry(a, b) = -ByCountry(b, a)
         /\ ByCountry(a, b) = 0 <=>
              a.mcc = b.mcc /\ a.mnc = b.mnc /\ a.ci = b.ci /\ a.lac = b.lac
<1>1. /\ a.mcc \in Int /\ a.mnc \in Int /\ a.ci \in Int /\ a.lac \in Int
      /\ b.mcc \in Int /\ b.mnc \in Int /\ b.ci \in Int /\ b.lac \in Int
      /\ a.type = "LTE" => a.lac = b.lac
  BY TowerParts
<1>2. ByArea(a, b) = -ByArea(b, a) /\ (ByArea(a, b) = 0 <=> a.lac = b.lac)
  BY <1>1 DEF ByArea
<1>3. ByCell(a, b) = -ByCell(b, a)
      /\ (ByCell(a, b) = 0 <=> a.ci = b.ci /\ a.lac = b.lac)
  BY <1>1, <1>2, ByAreInt DEF ByCell, Then
<1>4. ByNetwork(a, b) = -ByNetwork(b, a)
      /\ (ByNetwork(a, b) = 0 <=>
            a.mnc = b.mnc /\ a.ci = b.ci /\ a.lac = b.lac)
  BY <1>1, <1>3, ByAreInt DEF ByNetwork, Then
<1> QED
  BY <1>1, <1>4, ByAreInt DEF ByCountry, Then

(* compare is an order of the cells, in which those tie that have the same *)
(* numbers: CellTower::compare.                                            *)
THEOREM CellsAreOrdered ==
  ASSUME NEW a, NEW b, NEW c, IsTower(a), IsTower(b), IsTower(c)
  PROVE  /\ Consistent(CellCompare(a, b), CellCompare(b, c),
                       CellCompare(a, c))
         /\ CellCompare(a, b) = -CellCompare(b, a)
         /\ SameCell(a, b) <=>
              /\ a.type = b.type /\ a.mcc = b.mcc /\ a.mnc = b.mnc
              /\ a.ci = b.ci /\ a.lac = b.lac
<1> DEFINE k(x) == CellTowerType[x.type]
<1>1. k(a) \in Int /\ k(b) \in Int /\ k(c) \in Int
  BY TowerParts
<1>2. /\ k(a) - k(b) = 0 <=> a.type = b.type
      /\ k(b) - k(c) = 0 <=> b.type = c.type
  BY SameKind
<1>3. /\ CellCompare(a, b) = Then(k(a) - k(b), ByCountry(a, b))
      /\ CellCompare(b, a) = Then(k(b) - k(a), ByCountry(b, a))
      /\ CellCompare(b, c) = Then(k(b) - k(c), ByCountry(b, c))
      /\ CellCompare(a, c) = Then(k(a) - k(c), ByCountry(a, c))
  BY CellCompareIs
<1>4. /\ ByCountry(a, b) \in Int /\ ByCountry(b, a) \in Int
      /\ ByCountry(b, c) \in Int /\ ByCountry(a, c) \in Int
  BY ByAreInt
<1>5. k(a) - k(b) = 0 /\ k(b) - k(c) = 0
        => Consistent(ByCountry(a, b), ByCountry(b, c), ByCountry(a, c))
  BY <1>2, OneKindIsConsistent
<1>6. k(a) - k(b) = 0 =>
        /\ ByCountry(a, b) = -ByCountry(b, a)
        /\ ByCountry(a, b) = 0 <=>
             a.mcc = b.mcc /\ a.mnc = b.mnc /\ a.ci = b.ci /\ a.lac = b.lac
  BY <1>2, OneKindIsOpposite
<1>7. Consistent(k(a) - k(b), k(b) - k(c), k(a) - k(c))
  BY <1>1, SimpleIsConsistent
<1> HIDE DEF k
<1>8. Consistent(CellCompare(a, b), CellCompare(b, c), CellCompare(a, c))
  <2> DEFINE p == k(a) - k(b)
             q == k(b) - k(c)
             r == k(a) - k(c)
  <2>1. p \in Int /\ q \in Int /\ r \in Int /\ Consistent(p, q, r)
    BY <1>1, <1>7
  <2>2. p = 0 /\ q = 0
          => Consistent(ByCountry(a, b), ByCountry(b, c), ByCountry(a, c))
    BY <1>5
  <2>3. /\ CellCompare(a, b) = Then(p, ByCountry(a, b))
        /\ CellCompare(b, c) = Then(q, ByCountry(b, c))
        /\ CellCompare(a, c) = Then(r, ByCountry(a, c))
    BY <1>3
  <2> HIDE DEF p, q, r
  <2> QED
    BY <1>4, <2>1, <2>2, <2>3, ThenIsConsistent
<1>9. CellCompare(a, b) = -CellCompare(b, a)
  BY <1>1, <1>3, <1>4, <1>6 DEF Then
<1>10. SameCell(a, b) <=>
         /\ a.type = b.type /\ a.mcc = b.mcc /\ a.mnc = b.mnc
         /\ a.ci = b.ci /\ a.lac = b.lac
  BY <1>1, <1>2, <1>3, <1>4, <1>6 DEF SameCell, Then
<1> QED
  BY <1>8, <1>9, <1>10

(* Numbers side by side are as good as the pair of them.                   *)
LEMMA PairIsUnique ==
  ASSUME NEW m \in Nat \ {0}, NEW x \in Int, NEW y \in Int,
         NEW r \in Nat, NEW s \in Nat, r < m, s < m, x * m + r = y * m + s
  PROVE  x = y /\ r = s
  BY SMT

LEMMA PairFits ==
  ASSUME NEW m \in Nat \ {0}, NEW n \in Nat, NEW x \in Nat, NEW r \in Nat,
         x < n, r < m
  PROVE  x * m + r \in Nat /\ x * m + r < n * m
<1>1. x + 1 <= n /\ x + 1 \in Nat
  OBVIOUS
<1>2. (x + 1) * m <= n * m /\ (x + 1) * m = x * m + m
  BY <1>1, SMT
<1>3. x * m \in Nat /\ n * m \in Nat
  BY SMT
<1> QED
  BY <1>2, <1>3

LEMMA TimeModulusIs ==
  /\ TimeModulus \in Nat
  /\ (1024 * 1024) * (4096 * Word) <= TimeModulus
  /\ ((1024 * 1024) * Word) * (4096 * Word) <= TimeModulus
<1>1. TimeModulus \in Nat
  BY DEF TimeModulus, Word
<1>2. ((1024 * 1024) * Word) * (4096 * Word) = TimeModulus
  BY DEF TimeModulus, Word
<1>3. (1024 * 1024) * (4096 * Word) <= TimeModulus
  <2> DEFINE k == 1024 * 1024
             n == 4096 * Word
  <2>1. k \in Nat /\ n \in Nat /\ k <= k * Word /\ k * Word \in Nat
    BY DEF Word
  <2> HIDE DEF k, n
  <2>2. k * n <= (k * Word) * n
    BY <2>1, SMT
  <2> QED
    BY <1>2, <2>2 DEF k, n
<1> QED
  BY <1>1, <1>2, <1>3

LEMMA CodeParts ==
  ASSUME NEW c, IsTower(c)
  PROVE  /\ c.mcc \in Nat /\ c.mcc < 1000
         /\ c.mnc \in Nat /\ c.mnc < 1024
<1>1. c.mcc \in 0..999 /\ c.mnc \in 0..999
  BY ZenonT(60) DEF IsTower
<1>2. c.mcc \in Nat /\ c.mcc < 1000
  BY <1>1, SMTT(30)
<1>3. c.mnc \in Nat /\ c.mnc < 1024
  BY <1>1, SMTT(30)
<1> QED
  BY <1>2, <1>3

Codes(c) == c.mcc * 1024 + c.mnc

LEMMA CodesAreUnique ==
  ASSUME NEW a, NEW b, IsTower(a), IsTower(b)
  PROVE  /\ Codes(a) \in Nat /\ Codes(a) < 1000 * 1024
         /\ Codes(a) = Codes(b) => a.mcc = b.mcc /\ a.mnc = b.mnc
<1>1. /\ a.mcc \in Nat /\ a.mnc \in Nat /\ b.mcc \in Nat /\ b.mnc \in Nat
      /\ a.mnc < 1024 /\ b.mnc < 1024 /\ a.mcc < 1000
  BY CodeParts
<1>2. 1024 \in Nat \ {0} /\ 1000 \in Nat
  OBVIOUS
<1> QED
  BY <1>1, <1>2, PairIsUnique, PairFits DEF Codes

(* No two cells of one kind have one global identifier, and it fits into   *)
(* 64 bits: CellTower::getCellGlobalId.                                    *)
THEOREM GlobalIdIsUnique ==
  ASSUME NEW a, NEW b, IsTower(a), IsTower(b), a.type = b.type
  PROVE  /\ CellGlobalId(a) \in Nat /\ CellGlobalId(a) < TimeModulus
         /\ CellGlobalId(a) = CellGlobalId(b) =>
              a.mcc = b.mcc /\ a.mnc = b.mnc /\ a.ci = b.ci /\ a.lac = b.lac
<1> DEFINE range == CiRange[a.type]
<1>1. range \in Nat \ {0} /\ range <= 4096 * Word
  BY CiRangeIs, WordIs DEF IsTower
<1>2. /\ a.ci \in Nat /\ a.ci < range /\ b.ci \in Nat /\ b.ci < range
  BY DEF IsTower
<1>3. a.ci % range = a.ci /\ b.ci % range = b.ci
  <2>1. /\ a.ci = range * 0 + a.ci /\ a.ci \in 0..(range - 1) /\ a.ci \in Int
        /\ b.ci = range * 0 + b.ci /\ b.ci \in 0..(range - 1) /\ b.ci \in Int
    BY <1>1, <1>2
  <2> QED
    BY <1>1, <2>1, ModUnique
<1>4. /\ Codes(a) \in Nat /\ Codes(a) < 1000 * 1024 /\ Codes(b) \in Nat
      /\ Codes(a) = Codes(b) => a.mcc = b.mcc /\ a.mnc = b.mnc
  BY CodesAreUnique
<1>5. CASE a.type = "LTE"
  <2>1. /\ CellGlobalId(a) = Codes(a) * range + a.ci
        /\ CellGlobalId(b) = Codes(b) * range + b.ci
    BY <1>5 DEF CellGlobalId, Codes
  <2>2. a.lac = b.lac
    BY <1>5 DEF IsTower
  <2> HIDE DEF range
  <2>3. CellGlobalId(a) \in Nat /\ CellGlobalId(a) < (1000 * 1024) * range
    BY <1>1, <1>2, <1>4, <2>1, PairFits
  <2>4. (1000 * 1024) * range <= TimeModulus
    <3>1. (1000 * 1024) * range <= (1024 * 1024) * (4096 * Word)
      BY <1>1, WordIs
    <3>2. /\ (1000 * 1024) * range \in Int
          /\ (1024 * 1024) * (4096 * Word) \in Int
      BY <1>1, WordIs
    <3> QED
      BY <3>1, <3>2, TimeModulusIs
  <2>5. CellGlobalId(a) = CellGlobalId(b) => Codes(a) = Codes(b) /\ a.ci = b.ci
    <3> HAVE CellGlobalId(a) = CellGlobalId(b)
    <3>1. Codes(a) * range + a.ci = Codes(b) * range + b.ci
      BY <2>1
    <3>2. Codes(a) \in Int /\ Codes(b) \in Int
      BY <1>4
    <3> QED
      BY <1>1, <1>2, <3>1, <3>2, PairIsUnique
  <2>6. TimeModulus \in Nat
    BY DEF TimeModulus, Word
  <2> QED
    BY <1>1, <1>4, <2>2, <2>3, <2>4, <2>5, <2>6
<1>6. CASE a.type # "LTE"
  <2> DEFINE p(c) == Codes(c) * Word + c.lac
  <2>1. /\ CellGlobalId(a) = p(a) * range + a.ci
        /\ CellGlobalId(b) = p(b) * range + b.ci
    BY <1>3, <1>6 DEF CellGlobalId, Codes
  <2>2. a.lac \in Nat /\ a.lac < Word /\ b.lac \in Nat /\ b.lac < Word
    BY <1>6 DEF IsTower
  <2>3. p(a) \in Nat /\ p(a) < (1000 * 1024) * Word /\ p(b) \in Nat
    BY <1>4, <2>2, WordIs, PairFits, CodesAreUnique
  <2>4. p(a) = p(b) => Codes(a) = Codes(b) /\ a.lac = b.lac
    BY <1>4, <2>2, WordIs, PairIsUnique
  <2> HIDE DEF range, p
  <2>5. (1000 * 1024) * Word \in Nat
    BY WordIs
  <2>6. /\ CellGlobalId(a) \in Nat
        /\ CellGlobalId(a) < ((1000 * 1024) * Word) * range
    BY <1>1, <1>2, <2>1, <2>3, <2>5, PairFits
  <2>7. ((1000 * 1024) * Word) * range <= TimeModulus
    <3> DEFINE l == (1000 * 1024) * Word
               m == (1024 * 1024) * Word
               n == 4096 * Word
    <3>1. l \in Nat /\ m \in Nat /\ n \in Nat /\ l <= m /\ range <= n
      BY <1>1, WordIs
    <3>2. m * n <= TimeModulus
      BY TimeModulusIs
    <3> HIDE DEF l, m, n
    <3>3. l * range <= m * range /\ m * range <= m * n
      BY <1>1, <3>1, SMT
    <3>4. l * range \in Int /\ m * range \in Int /\ m * n \in Int
      BY <1>1, <3>1
    <3>5. l * range <= TimeModulus
      BY <3>2, <3>3, <3>4, TimeModulusIs
    <3> QED
      BY <3>5 DEF l
  <2>8. CellGlobalId(a) = CellGlobalId(b) => p(a) = p(b) /\ a.ci = b.ci
    BY <1>1, <1>2, <2>1, <2>3, PairIsUnique
  <2>9. ((1000 * 1024) * Word) * range \in Nat /\ TimeModulus \in Nat
    BY <1>1, <2>5, TimeModulusIs
  <2> QED
    BY <1>4, <2>4, <2>6, <2>7, <2>8, <2>9
<1> QED
  BY <1>5, <1>6

(* A UMTS cell's neighbours are of its controller and numbers of cells,    *)
(* however far delta goes: CellTower::getAdjacentCellId.                   *)
THEOREM AdjacentCellsShareController ==
  ASSUME NEW ci \in Nat, NEW delta \in Int, ci < CiRange["UMTS"]
  PROVE  /\ AdjacentCellId(ci, delta) \in Nat
         /\ AdjacentCellId(ci, delta) < CiRange["UMTS"]
         /\ AdjacentCellId(ci, delta) \div Word = ci \div Word
<1> DEFINE rnc == ci \div Word
           low == Clipped((ci % Word) + delta)
<1>1. /\ ci = Word * rnc + (ci % Word) /\ ci % Word \in 0..(Word - 1)
      /\ rnc \in Int
  BY WordIs, ModFacts
<1>2. low \in Nat /\ low < Word
  BY <1>1, WordIs DEF Clipped
<1> HIDE DEF rnc, low
<1>3. rnc \in Nat /\ rnc < 4096
  <2>1. ci < 4096 * Word
    BY CiRangeIs
  <2> QED
    BY <1>1, <2>1, WordIs, SMT
<1>4. rnc % 4096 = rnc
  BY <1>3
<1>5. AdjacentCellId(ci, delta) = IF delta = 0 THEN ci ELSE rnc * Word + low
  BY <1>4 DEF AdjacentCellId, rnc, low
<1>6. rnc * Word + low \in Nat /\ rnc * Word + low < 4096 * Word
  BY <1>2, <1>3, WordIs, PairFits
<1>7. (rnc * Word + low) \div Word = rnc
  <2> DEFINE n == rnc * Word + low
  <2>1. n \in Int /\ n = Word * rnc + low
    BY <1>3, <1>6, WordIs
  <2> HIDE DEF n
  <2> DEFINE h == n \div Word
             l == n % Word
  <2>2. n = Word * h + l /\ h \in Int /\ l \in 0..(Word - 1)
    BY <2>1, WordIs, ModFacts
  <2>3. l \in Nat /\ l < Word
    BY <2>2, WordIs
  <2> HIDE DEF h, l
  <2>4. rnc * Word + low = h * Word + l
    BY <2>1, <2>2, <1>3, WordIs, SMT
  <2>5. rnc = h
    BY <1>1, <1>2, <2>2, <2>3, <2>4, WordIs, PairIsUnique
  <2> QED
    BY <2>5 DEF n, h
<1> QED
  BY <1>5, <1>6, <1>7, CiRangeIs DEF rnc

-----------------------------------------------------------------------------
(* Readings.  At is the moment of one, of which it keeps the timer.        *)

HeardAt(reading, moment) ==
  moment \in Int /\ reading.timestamp = moment % Modulus

(* Moments all of whose timers are in order.                               *)
Close(x, y) == x - y < Half /\ y - x < Half

(* Looking for a cell or a MAC by equality finds the readings that sort    *)
(* with it, and the readings without an area are those of LTE cells:       *)
(* CellEqualsTo, MacEqualsTo, HasNoLac and IsNotGsmOrUmts.                 *)
THEOREM PredicatesAgree ==
  ASSUME NEW a, NEW b, NEW p, NEW q, p.mac \in MACs, q.mac \in MACs
  PROVE  /\ CellEqualsTo(a, b.cell) <=> CellSame(a, b)
         /\ MacEqualsTo(p, q.mac) => MacSame(p, q)
         /\ IsTower(a.cell) => (HasNoLac(a) <=> IsNotGsmOrUmts(a))
<1>1. CellEqualsTo(a, b.cell) <=> CellSame(a, b)
  BY Zenon DEF CellEqualsTo, SameCell, CellSame
<1>2. MacEqualsTo(p, q.mac) => MacSame(p, q)
  <2>1. Sorts(MacCompare(p.mac, q.mac), toLong(p.mac), toLong(q.mac))
    BY MacsSortAsNumbers
  <2> QED
    BY <2>1, Zenon DEF MacEqualsTo, MacSame, Sorts
<1>3. IsTower(a.cell) => (HasNoLac(a) <=> IsNotGsmOrUmts(a))
  BY DEF IsTower, HasNoLac, hasLac, IsNotGsmOrUmts
<1> QED
  BY <1>1, <1>2, <1>3

LEMMA TimerCompareIs ==
  ASSUME NEW a, NEW b, NEW x, NEW y, HeardAt(a, x), HeardAt(b, y), Close(x, y)
  PROVE  /\ TimerCompare(a.timestamp, b.timestamp) = simpleCompare(y, x)
         /\ x \in Int /\ y \in Int
  BY NewerTimerIsLess DEF HeardAt, Close

LEMMA ReverseIsConsistent ==
  ASSUME NEW x \in Int, NEW y \in Int, NEW z \in Int
  PROVE  Consistent(simpleCompare(y, x), simpleCompare(z, y),
                    simpleCompare(z, x))
  BY DEF Consistent, simpleCompare

(* Of the readings of one cell the newest sorts first, and readings of     *)
(* different cells sort by their cells, so that unique() with CellSame     *)
(* leaves the newest of each: ScannedCellTower::compare.                   *)
THEOREM NewestOfACellSortsFirst ==
  ASSUME NEW a, NEW b, IsTower(a.cell), IsTower(b.cell), NEW x, NEW y,
         HeardAt(a, x), HeardAt(b, y), Close(x, y)
  PROVE  /\ CellSame(a, b) /\ x > y => ScannedCellCompare(a, b) < 0
         /\ CellLess(a, b) => ScannedCellCompare(a, b) < 0
<1>1. CellCompare(a.cell, b.cell) \in Int
  BY CellsAreOrdered DEF Consistent
<1>2. /\ TimerCompare(a.timestamp, b.timestamp) = simpleCompare(y, x)
      /\ x \in Int /\ y \in Int
  BY TimerCompareIs
<1>3. x > y => simpleCompare(y, x) = -1
  BY <1>2 DEF simpleCompare
<1> QED
  BY <1>1, <1>2, <1>3 DEF ScannedCellCompare, CellSame, CellLess, Then

(* The same of the readings of one access point, whose signals and names   *)
(* do not count: ScannedAccessPoint::compare.                              *)
THEOREM NewestOfAnAccessPointSortsFirst ==
  ASSUME NEW a, NEW b, a.mac \in MACs, b.mac \in MACs, NEW x, NEW y,
         HeardAt(a, x), HeardAt(b, y), Close(x, y)
  PROVE  /\ MacSame(a, b) /\ x > y => ScannedAccessPointCompare(a, b) < 0
         /\ MacLess(a, b) => ScannedAccessPointCompare(a, b) < 0
<1>1. MacCompare(a.mac, b.mac) \in Int
  BY MacsSortAsNumbers DEF Sorts
<1>2. /\ TimerCompare(a.timestamp, b.timestamp) = simpleCompare(y, x)
      /\ x \in Int /\ y \in Int
  BY TimerCompareIs
<1>3. x > y => simpleCompare(y, x) = -1
  BY <1>2 DEF simpleCompare
<1> QED
  BY <1>1, <1>2, <1>3 DEF ScannedAccessPointCompare, MacSame, MacLess, Then

LEMMA SortsIsConsistent ==
  ASSUME NEW p, NEW q, NEW r, NEW x \in Int, NEW y \in Int, NEW z \in Int,
         Sorts(p, x, y), Sorts(q, y, z), Sorts(r, x, z)
  PROVE  Consistent(p, q, r)
  BY DEF Sorts, Consistent

LEMMA LongIsInt ==
  ASSUME NEW a \in MACs
  PROVE  toLong(a) \in Int
<1>1. \A i \in 1..6 : a[i] \in 0..255
  BY DEF MACs
<1>2. /\ a[1] \in Int /\ a[2] \in Int /\ a[3] \in Int /\ a[4] \in Int
      /\ a[5] \in Int /\ a[6] \in Int
  BY <1>1
<1> DEFINE h == a[5] + 256 * a[6]
           g == a[3] + 256 * (a[4] + 256 * h)
<1>3. h \in Int
  BY <1>2
<1> HIDE DEF h
<1>4. g \in Int
  BY <1>2, <1>3
<1> HIDE DEF g
<1>5. a[1] + 256 * (a[2] + 256 * g) \in Int
  BY <1>2, <1>4
<1> QED
  BY <1>5, Zenon DEF toLong, g, h

(* What timers of moments that are close compare like.                     *)
LEMMA TimersAreConsistent ==
  ASSUME NEW a, NEW b, NEW c, NEW x, NEW y, NEW z,
         HeardAt(a, x), HeardAt(b, y), HeardAt(c, z),
         Close(x, y), Close(y, z), Close(x, z)
  PROVE  Consistent(TimerCompare(a.timestamp, b.timestamp),
                    TimerCompare(b.timestamp, c.timestamp),
                    TimerCompare(a.timestamp, c.timestamp))
<1>1. x \in Int /\ y \in Int /\ z \in Int
  BY DEF HeardAt
<1>2. Consistent(simpleCompare(y, x), simpleCompare(z, y),
                 simpleCompare(z, x))
  BY <1>1, ReverseIsConsistent
<1> QED
  BY <1>2, TimerCompareIs

(* Readings from half the range of a timer compare like the members of one *)
(* order, as sort() needs: ScannedAccessPoint::compare and                 *)
(* ScannedCellTower::compare.                                              *)
THEOREM AccessPointsAreOrdered ==
  ASSUME NEW a, NEW b, NEW c, NEW x, NEW y, NEW z,
         a.mac \in MACs, b.mac \in MACs, c.mac \in MACs,
         HeardAt(a, x), HeardAt(b, y), HeardAt(c, z),
         Close(x, y), Close(y, z), Close(x, z)
  PROVE  Consistent(ScannedAccessPointCompare(a, b),
                    ScannedAccessPointCompare(b, c),
                    ScannedAccessPointCompare(a, c))
<1> DEFINE p == MacCompare(a.mac, b.mac)
           q == MacCompare(b.mac, c.mac)
           r == MacCompare(a.mac, c.mac)
           u == TimerCompare(a.timestamp, b.timestamp)
           v == TimerCompare(b.timestamp, c.timestamp)
           w == TimerCompare(a.timestamp, c.timestamp)
<1>1. Consistent(p, q, r) /\ p \in Int /\ q \in Int /\ r \in Int
  <2>1. Consistent(p, q, r)
    <3>1. /\ Sorts(p, toLong(a.mac), toLong(b.mac))
          /\ Sorts(q, toLong(b.mac), toLong(c.mac))
          /\ Sorts(r, toLong(a.mac), toLong(c.mac))
      BY MacsSortAsNumbers
    <3> QED
      BY <3>1, LongIsInt, SortsIsConsistent
  <2> QED
    BY <2>1, Zenon DEF Consistent
<1>2. Consistent(u, v, w) /\ u \in Int /\ v \in Int /\ w \in Int
  <2>1. Consistent(u, v, w)
    BY TimersAreConsistent
  <2> QED
    BY <2>1, Zenon DEF Consistent
<1>3. /\ ScannedAccessPointCompare(a, b) = Then(p, u)
      /\ ScannedAccessPointCompare(b, c) = Then(q, v)
      /\ ScannedAccessPointCompare(a, c) = Then(r, w)
  BY Zenon DEF ScannedAccessPointCompare
<1> HIDE DEF p, q, r, u, v, w
<1> QED
  BY <1>1, <1>2, <1>3, ThenIsConsistent

(* So are the readings of cells, sorted by cell, time, signal and timing.  *)
THEOREM ScannedCellsAreOrdered ==
  ASSUME NEW a, NEW b, NEW c, NEW x, NEW y, NEW z,
         IsTower(a.cell), IsTower(b.cell), IsTower(c.cell),
         HeardAt(a, x), HeardAt(b, y), HeardAt(c, z),
         Close(x, y), Close(y, z), Close(x, z),
         a.rssi \in Int, b.rssi \in Int, c.rssi \in Int,
         a.timing \in Int, b.timing \in Int, c.timing \in Int
  PROVE  Consistent(ScannedCellCompare(a, b), ScannedCellCompare(b, c),
                    ScannedCellCompare(a, c))
<1> DEFINE s3(m, n) == Then(m.rssi - n.rssi, m.timing - n.timing)
           t(m, n) == TimerCompare(m.timestamp, n.timestamp)
           s2(m, n) == Then(t(m, n), s3(m, n))
           s1(m, n) == CellCompare(m.cell, n.cell)
<1>1. Consistent(s3(a, b), s3(b, c), s3(a, c))
      /\ s3(a, b) \in Int /\ s3(b, c) \in Int /\ s3(a, c) \in Int
  <2>1. /\ Consistent(a.rssi - b.rssi, b.rssi - c.rssi, a.rssi - c.rssi)
        /\ Consistent(a.timing - b.timing, b.timing - c.timing,
                      a.timing - c.timing)
    BY SimpleIsConsistent
  <2>2. Consistent(s3(a, b), s3(b, c), s3(a, c))
    <3> DEFINE p == a.rssi - b.rssi
               q == b.rssi - c.rssi
               r == a.rssi - c.rssi
               u == a.timing - b.timing
               v == b.timing - c.timing
               w == a.timing - c.timing
    <3>1. Consistent(p, q, r) /\ p \in Int /\ q \in Int /\ r \in Int
      BY <2>1
    <3>2. Consistent(u, v, w) /\ u \in Int /\ v \in Int /\ w \in Int
      BY <2>1
    <3> HIDE DEF p, q, r, u, v, w
    <3>3. Consistent(Then(p, u), Then(q, v), Then(r, w))
      BY <3>1, <3>2, ThenIsConsistent
    <3> QED
      BY <3>3, Zenon DEF p, q, r, u, v, w
  <2> QED
    BY <2>2, Zenon DEF Consistent
<1>2. Consistent(t(a, b), t(b, c), t(a, c))
      /\ t(a, b) \in Int /\ t(b, c) \in Int /\ t(a, c) \in Int
  <2>1. Consistent(t(a, b), t(b, c), t(a, c))
    BY TimersAreConsistent
  <2> QED
    BY <2>1, Zenon DEF Consistent
<1>3. Consistent(s1(a, b), s1(b, c), s1(a, c))
      /\ s1(a, b) \in Int /\ s1(b, c) \in Int /\ s1(a, c) \in Int
  <2>1. Consistent(s1(a, b), s1(b, c), s1(a, c))
    BY CellsAreOrdered
  <2> QED
    BY <2>1, Zenon DEF Consistent
<1>4. /\ ScannedCellCompare(a, b) = Then(s1(a, b), s2(a, b))
      /\ ScannedCellCompare(b, c) = Then(s1(b, c), s2(b, c))
      /\ ScannedCellCompare(a, c) = Then(s1(a, c), s2(a, c))
  BY Zenon DEF ScannedCellCompare
<1> HIDE DEF s3, t, s1
<1>5. Consistent(s2(a, b), s2(b, c), s2(a, c))
      /\ s2(a, b) \in Int /\ s2(b, c) \in Int /\ s2(a, c) \in Int
  <2>1. Consistent(s2(a, b), s2(b, c), s2(a, c))
    BY <1>1, <1>2, ThenIsConsistent
  <2> QED
    BY <2>1, Zenon DEF Consistent
<1> HIDE DEF s2
<1> QED
  BY <1>3, <1>4, <1>5, ThenIsConsistent

-----------------------------------------------------------------------------
(* Fixes.                                                                  *)

(* Of two fixes the older sorts first: Fix::compare turns round what       *)
(* Timer::compare, for which the newer is the lesser, has turned round     *)
(* before, whereas its comment says that newer readings sort first.        *)
THEOREM OlderFixesSortFirst ==
  ASSUME NEW a, NEW b, NEW x \in Int, NEW y \in Int, Close(x, y), x < y,
         a.localTime = x % Modulus, b.localTime = y % Modulus
  PROVE  FixCompare(a, b) < 0
<1>1. TimerCompare(a.localTime, b.localTime) = 1
  <2>1. TimerCompare(a.localTime, b.localTime) = simpleCompare(y, x)
    BY NewerTimerIsLess DEF Close
  <2> QED
    BY <2>1 DEF simpleCompare
<1> DEFINE r == TimerCompare(a.localTime, b.localTime)
<1>2. \A s : Then(-r, s) = -1
  BY <1>1 DEF Then
<1> HIDE DEF r
<1>3. FixCompare(a, b) = -1
  BY <1>2, Zenon DEF FixCompare, r
<1> QED
  BY <1>3

-----------------------------------------------------------------------------
(* Functions that are defined by recursion: there are such ones.           *)

(* A set of numbers has a least one.                                       *)
LEMMA Least ==
  ASSUME NEW S \in SUBSET Nat, S # {}
  PROVE  Min(S) \in S /\ \A j \in S : Min(S) <= j
<1> DEFINE R == {pair \in Nat \X Nat : pair[1] < pair[2]}
<1>1. IsWellFoundedOn(R, Nat)
  BY NatLessThanWellFounded, Zenon DEF OpToRel
<1>2. \A i, j \in Nat : i < j => <<i, j>> \in R
  OBVIOUS
<1> HIDE DEF R
<1>3. PICK i \in S : \A j \in S : <<j, i>> \notin R
  BY <1>1, WFMin
<1>4. \A j \in S : i <= j
  <2> SUFFICES ASSUME NEW j \in S, ~(i <= j) PROVE FALSE
    OBVIOUS
  <2>1. i \in Nat /\ j \in Nat /\ j < i
    OBVIOUS
  <2> QED
    BY <1>2, <1>3, <2>1, Zenon
<1> QED
  BY <1>4, Zenon DEF Min

(* A function on D of which each value is made of those of lower rank.     *)
Recurs(D, V, N, rank, step) ==
  /\ V # {} /\ N \in Nat /\ rank \in [D -> 0..N]
  /\ step \in [[D -> V] -> [D -> V]]
  /\ \A f, g \in [D -> V] : \A i \in D :
       (\A j \in D : rank[j] < rank[i] => f[j] = g[j])
         => step[f][i] = step[g][i]

(* There is one that meets its definition.                                 *)
LEMMA Recursion ==
  ASSUME NEW D, NEW V, NEW N, NEW rank, NEW step, Recurs(D, V, N, rank, step)
  PROVE  \E f \in [D -> V] : f = step[f]
<1>0. /\ V # {} /\ N \in Nat /\ rank \in [D -> 0..N]
      /\ step \in [[D -> V] -> [D -> V]]
      /\ \A f, g \in [D -> V] : \A i \in D :
           (\A j \in D : rank[j] < rank[i] => f[j] = g[j])
             => step[f][i] = step[g][i]
  BY DEF Recurs
<1> DEFINE Upto(k, f) == \A i \in D : rank[i] < k => f[i] = step[f][i]
           Fails == {k \in Nat : ~\E f \in [D -> V] : Upto(k, f)}
<1>1. \A i \in D : rank[i] \in Nat /\ rank[i] <= N
  BY <1>0
<1>2. 0 \notin Fails
  <2>1. PICK v \in V : TRUE
    BY <1>0
  <2> DEFINE f == [i \in D |-> v]
  <2>2. f \in [D -> V]
    OBVIOUS
  <2>3. \A i \in D : ~(rank[i] < 0)
    BY <1>1
  <2> QED
    BY <2>2, <2>3, Zenon
<1>3. ASSUME NEW k \in Nat, k \notin Fails PROVE k + 1 \notin Fails
  <2>1. PICK f \in [D -> V] : Upto(k, f)
    BY <1>3, Zenon
  <2> DEFINE g == [i \in D |-> IF rank[i] = k THEN step[f][i] ELSE f[i]]
  <2>2. step[f] \in [D -> V]
    BY <1>0
  <2>3. g \in [D -> V] /\ \A i \in D : g[i] = IF rank[i] = k THEN step[f][i]
                                              ELSE f[i]
    BY <2>2
  <2> HIDE DEF g
  <2>4. ASSUME NEW i \in D, rank[i] < k + 1 PROVE g[i] = step[g][i]
    <3>1. rank[i] <= k
      BY <1>1, <2>4
    <3>2. \A j \in D : rank[j] < rank[i] => f[j] = g[j]
      BY <1>1, <2>3, <3>1
    <3>3. step[f][i] = step[g][i]
      BY <1>0, <2>3, <3>2
    <3>4. rank[i] # k => rank[i] < k
      <4> DEFINE r == rank[i]
      <4>1. r \in Nat /\ r <= k
        BY <1>1, <3>1
      <4> HIDE DEF r
      <4>2. r # k => r < k
        BY <4>1
      <4> QED
        BY <4>2, Zenon DEF r
    <3> QED
      BY <2>1, <2>3, <3>3, <3>4
  <2> QED
    BY <2>3, <2>4, Zenon
<1>4. Fails = {}
  <2> SUFFICES ASSUME Fails # {} PROVE FALSE
    OBVIOUS
  <2> DEFINE k == Min(Fails)
  <2>1. Fails \in SUBSET Nat
    OBVIOUS
  <2> HIDE DEF Fails
  <2>2. k \in Fails /\ \A j \in Fails : k <= j
    BY <2>1, Least
  <2>3. k \in Nat /\ k # 0
    BY <1>2, <2>1, <2>2
  <2> HIDE DEF k
  <2>4. k - 1 \in Nat /\ k - 1 \notin Fails /\ (k - 1) + 1 = k
    BY <2>2, <2>3
  <2> QED
    BY <1>3, <2>2, <2>4
<1>5. PICK f \in [D -> V] : Upto(N + 1, f)
  <2>1. N + 1 \in Nat
    BY <1>0
  <2> QED
    BY <1>4, <2>1, Zenon
<1>6. \A i \in D : f[i] = step[f][i]
  <2>1. \A i \in D : rank[i] < N + 1
    BY <1>0, <1>1
  <2> QED
    BY <1>5, <2>1, Zenon
<1>7. step[f] \in [D -> V]
  BY <1>0
<1> QED
  BY <1>6, <1>7

(* One that is defined from its start, and one that is from its end.       *)
RecursUp(n, V, step) ==
  /\ V # {} /\ n \in Nat /\ step \in [[0..n -> V] -> [0..n -> V]]
  /\ \A f, g \in [0..n -> V] : \A i \in 0..n :
       (\A j \in 0..n : j < i => f[j] = g[j]) => step[f][i] = step[g][i]

RecursDown(n, V, step) ==
  /\ V # {} /\ n \in Nat
  /\ step \in [[1..(n + 1) -> V] -> [1..(n + 1) -> V]]
  /\ \A f, g \in [1..(n + 1) -> V] : \A i \in 1..(n + 1) :
       (\A j \in 1..(n + 1) : i < j => f[j] = g[j]) => step[f][i] = step[g][i]

LEMMA RecursionUp ==
  ASSUME NEW n, NEW V, NEW step, RecursUp(n, V, step)
  PROVE  \E f \in [0..n -> V] : f = step[f]
<1> DEFINE D == 0..n
           rank == [i \in D |-> i]
<1>0. /\ V # {} /\ n \in Nat /\ step \in [[D -> V] -> [D -> V]]
      /\ \A f, g \in [D -> V] : \A i \in D :
           (\A j \in D : j < i => f[j] = g[j]) => step[f][i] = step[g][i]
  BY Zenon DEF RecursUp
<1>1. rank \in [D -> 0..n] /\ \A i, j \in D : rank[j] < rank[i] <=> j < i
  BY <1>0
<1> HIDE DEF rank, D
<1>2. Recurs(D, V, n, rank, step)
  BY <1>0, <1>1 DEF Recurs
<1>3. \E f \in [D -> V] : f = step[f]
  BY <1>2, Recursion
<1> QED
  BY <1>3 DEF D

LEMMA RecursionDown ==
  ASSUME NEW n, NEW V, NEW step, RecursDown(n, V, step)
  PROVE  \E f \in [1..(n + 1) -> V] : f = step[f]
<1> DEFINE D == 1..(n + 1)
           rank == [i \in D |-> n + 1 - i]
<1>0. /\ V # {} /\ n \in Nat /\ step \in [[D -> V] -> [D -> V]]
      /\ \A f, g \in [D -> V] : \A i \in D :
           (\A j \in D : i < j => f[j] = g[j]) => step[f][i] = step[g][i]
  BY Zenon DEF RecursDown
<1>1. rank \in [D -> 0..n] /\ \A i, j \in D : rank[j] < rank[i] <=> i < j
  BY <1>0
<1> HIDE DEF rank, D
<1>2. Recurs(D, V, n, rank, step)
  BY <1>0, <1>1 DEF Recurs
<1>3. \E f \in [D -> V] : f = step[f]
  BY <1>2, Recursion
<1> QED
  BY <1>3 DEF D

-----------------------------------------------------------------------------
(* The test of a name.                                                     *)

(* What the first byte of a character says of its length.                  *)
LEMMA FirstByteIs ==
  ASSUME NEW b \in Byte
  PROVE  LET first == decodeUtf8FirstByte(b)
         IN /\ Between(b, 0, 127)   => first[1] = 1 /\ first[2] = b
            /\ Between(b, 192, 223) => first[1] = 2 /\ first[2] = b - 192
            /\ Between(b, 224, 239) => first[1] = 3 /\ first[2] = b - 224
            /\ Between(b, 240, 247) => first[1] = 4 /\ first[2] = b - 240
            /\ Between(b, 128, 191) \/ Between(b, 248, 255) =>
                 first[1] = 0 /\ first[2] = 0
            /\ first[1] \in 0..4 /\ first[2] \in Nat
<1>1. b \in 0..255
  BY DEF Byte
<1>2. CASE Between(b, 0, 127)
  BY <1>1, <1>2 DEF decodeUtf8FirstByte, Between
<1>3. CASE Between(b, 192, 223)
  BY <1>1, <1>3 DEF decodeUtf8FirstByte, Between
<1>4. CASE Between(b, 224, 239)
  BY <1>1, <1>4 DEF decodeUtf8FirstByte, Between
<1>5. CASE Between(b, 240, 247)
  BY <1>1, <1>5 DEF decodeUtf8FirstByte, Between
<1>6. CASE Between(b, 128, 191) \/ Between(b, 248, 255)
  BY <1>1, <1>6 DEF decodeUtf8FirstByte, NoChar, Between
<1> QED
  BY <1>1, <1>2, <1>3, <1>4, <1>5, <1>6 DEF Between

(* The point of a character after each of its bytes.                       *)
PointFrom(s, i, n, first, point) ==
  [k \in 0..n |->
     IF k = 0 THEN first ELSE point[k - 1] * 64 + (s[i + k] % 64)]

Point(s, i, n, first) == CHOOSE p : p = PointFrom(s, i, n, first, p)

LEMMA BytesAre ==
  ASSUME NEW s \in Seq(Byte), NEW i \in 1..Len(s)
  PROVE  s[i] \in Byte /\ s[i] \in Nat
<1>1. s[i] \in Byte
  OBVIOUS
<1>2. \A b \in Byte : b \in Nat
  BY DEF Byte
<1> QED
  BY <1>1, <1>2

LEMMA PointIs ==
  ASSUME NEW s \in Seq(Byte), NEW i \in 1..Len(s), NEW n \in Nat,
         i + n <= Len(s), NEW first \in Nat
  PROVE  LET p == Point(s, i, n, first)
         IN /\ p[0] = first
            /\ \A k \in 1..n : p[k] = p[k - 1] * 64 + (s[i + k] % 64)
<1> DEFINE step == [f \in [0..n -> Nat] |-> PointFrom(s, i, n, first, f)]
<1>1. \A k \in 1..n : s[i + k] % 64 \in Nat
  <2> SUFFICES ASSUME NEW k \in 1..n PROVE s[i + k] % 64 \in Nat
    OBVIOUS
  <2>1. s[i + k] \in Nat
    <3>1. i + k \in 1..Len(s)
      OBVIOUS
    <3> QED
      BY <3>1, BytesAre
  <2> DEFINE b == s[i + k]
  <2> HIDE DEF b
  <2>2. b \in Nat => b % 64 \in Nat
    OBVIOUS
  <2> QED
    BY <2>1, <2>2 DEF b
<1>2. ASSUME NEW f \in [0..n -> Nat]
      PROVE  PointFrom(s, i, n, first, f) \in [0..n -> Nat]
  <2>1. ASSUME NEW k \in 0..n
        PROVE  (IF k = 0 THEN first
                ELSE f[k - 1] * 64 + (s[i + k] % 64)) \in Nat
    <3>1. CASE k # 0
      <4> DEFINE a == f[k - 1]
                 b == s[i + k] % 64
      <4>1. a \in Nat /\ b \in Nat
        BY <1>1, <3>1
      <4> HIDE DEF a, b
      <4>2. a * 64 + b \in Nat
        BY <4>1
      <4> QED
        BY <3>1, <4>2 DEF a, b
    <3> QED
      BY <3>1
  <2> QED
    BY <2>1 DEF PointFrom
<1>3. step \in [[0..n -> Nat] -> [0..n -> Nat]]
  BY <1>2
<1>4. \A f, g \in [0..n -> Nat] : \A k \in 0..n :
        (\A j \in 0..n : j < k => f[j] = g[j]) => step[f][k] = step[g][k]
  BY DEF PointFrom
<1>5. \A f \in [0..n -> Nat] : step[f] = PointFrom(s, i, n, first, f)
  OBVIOUS
<1> HIDE DEF step
<1>6. RecursUp(n, Nat, step)
  <2>1. Nat # {} /\ n \in Nat
    OBVIOUS
  <2> QED
    BY <1>3, <1>4, <2>1, Zenon DEF RecursUp
<1>7. \E f : f = PointFrom(s, i, n, first, f)
  BY <1>5, <1>6, RecursionUp
<1>8. Point(s, i, n, first)
        = PointFrom(s, i, n, first, Point(s, i, n, first))
  BY <1>7, Zenon DEF Point
<1> DEFINE p == Point(s, i, n, first)
<1> HIDE DEF p
<1>9. p = PointFrom(s, i, n, first, p)
  BY <1>8 DEF p
<1>10. /\ p[0] = first
       /\ \A k \in 1..n : p[k] = p[k - 1] * 64 + (s[i + k] % 64)
  BY <1>9 DEF PointFrom
<1> QED
  BY <1>10 DEF p

(* decodeUtf8Char, by the length that the first byte says.                 *)
LEMMA CharIs ==
  ASSUME NEW s, NEW i
  PROVE  LET first == decodeUtf8FirstByte(s[i])
         IN decodeUtf8Char(s, i) =
              IF first[1] = 0 \/ i + first[1] - 1 > Len(s)
                 \/ \E k \in 1..(first[1] - 1) : ~IsContinuation(s[i + k])
              THEN NoChar
              ELSE << first[1],
                      Point(s, i, first[1] - 1, first[2])[first[1] - 1] >>
  BY Zenon DEF decodeUtf8Char, Point, PointFrom

(* What the loop of xmlUtf8Test goes on after.                             *)
Accepted(c) == ~isUtf8OverlongSequence(c) /\ isValidXmlUtf8(c[2])

(* The bytes after the first add six bits each.                            *)
LEMMA Continues ==
  ASSUME NEW b \in Byte, IsContinuation(b)
  PROVE  b % 64 = b - 128
<1>1. b \in Nat /\ 128 <= b /\ b <= 191
  <2>1. \A c \in Byte : c \in Nat
    BY DEF Byte
  <2> QED
    BY <2>1 DEF IsContinuation, Between
<1> QED
  BY <1>1

LEMMA PointOf ==
  ASSUME NEW s \in Seq(Byte), NEW i \in 1..Len(s), NEW n \in 0..3,
         i + n <= Len(s), NEW first \in Nat,
         \A k \in 1..n : IsContinuation(s[i + k])
  PROVE  LET p == Point(s, i, n, first)
         IN /\ p[0] = first
            /\ n >= 1 => p[1] = first * 64 + (s[i + 1] - 128)
            /\ n >= 2 => p[2] = (first * 64 + (s[i + 1] - 128)) * 64
                                  + (s[i + 2] - 128)
            /\ n >= 3 => p[3] = ((first * 64 + (s[i + 1] - 128)) * 64
                                   + (s[i + 2] - 128)) * 64 + (s[i + 3] - 128)
<1> DEFINE p == Point(s, i, n, first)
<1>1. /\ p[0] = first
      /\ \A k \in 1..n : p[k] = p[k - 1] * 64 + (s[i + k] % 64)
  BY PointIs
<1>2. \A k \in 1..n : s[i + k] % 64 = s[i + k] - 128
  <2> SUFFICES ASSUME NEW k \in 1..n PROVE s[i + k] % 64 = s[i + k] - 128
    OBVIOUS
  <2>1. i + k \in 1..Len(s)
    OBVIOUS
  <2>2. s[i + k] \in Byte
    BY <2>1, BytesAre
  <2> QED
    BY <2>2, Continues
<1> HIDE DEF p
<1>3. \A k \in 1..n : p[k] = p[k - 1] * 64 + (s[i + k] - 128)
  BY <1>1, <1>2
<1>4. n >= 1 => p[1] = p[0] * 64 + (s[i + 1] - 128)
  BY <1>3
<1>5. n >= 2 => p[2] = p[1] * 64 + (s[i + 2] - 128)
  BY <1>3
<1>6. n >= 3 => p[3] = p[2] * 64 + (s[i + 3] - 128)
  BY <1>3
<1> QED
  BY <1>1, <1>4, <1>5, <1>6 DEF p

(* Whether n more bytes of its character follow the first at i.            *)
More(s, i, n) ==
  i + n <= Len(s) /\ \A k \in 1..n : IsContinuation(s[i + k])

(* The character at i, by its bytes.                                       *)
LEMMA CharOfBytes ==
  ASSUME NEW s \in Seq(Byte), NEW i \in 1..Len(s)
  PROVE  /\ Between(s[i], 0, 127) => decodeUtf8Char(s, i) = <<1, s[i]>>
         /\ Between(s[i], 192, 223) =>
              decodeUtf8Char(s, i) =
                IF More(s, i, 1)
                THEN <<2, (s[i] - 192) * 64 + (s[i + 1] - 128)>> ELSE NoChar
         /\ Between(s[i], 224, 239) =>
              decodeUtf8Char(s, i) =
                IF More(s, i, 2)
                THEN <<3, ((s[i] - 224) * 64 + (s[i + 1] - 128)) * 64
                            + (s[i + 2] - 128)>> ELSE NoChar
         /\ Between(s[i], 240, 247) =>
              decodeUtf8Char(s, i) =
                IF More(s, i, 3)
                THEN <<4, (((s[i] - 240) * 64 + (s[i + 1] - 128)) * 64
                             + (s[i + 2] - 128)) * 64
                            + (s[i + 3] - 128)>> ELSE NoChar
         /\ Between(s[i], 128, 191) \/ Between(s[i], 248, 255) =>
              decodeUtf8Char(s, i) = NoChar
<1> DEFINE c == decodeUtf8Char(s, i)
           length == decodeUtf8FirstByte(s[i])[1]
           first == decodeUtf8FirstByte(s[i])[2]
<1>1. s[i] \in Byte
  BY BytesAre
<1>2. c = IF length = 0 \/ i + length - 1 > Len(s)
             \/ \E k \in 1..(length - 1) : ~IsContinuation(s[i + k])
          THEN NoChar
          ELSE <<length, Point(s, i, length - 1, first)[length - 1]>>
  BY CharIs
<1>3. length \in 0..4 /\ first \in Nat
  BY <1>1, FirstByteIs
<1> HIDE DEF c, length, first
<1>4. ASSUME NEW n \in 0..3, length = n + 1
      PROVE  c = IF More(s, i, n) THEN <<length, Point(s, i, n, first)[n]>>
                 ELSE NoChar
  <2>1. /\ length # 0 /\ length - 1 = n
        /\ i + length - 1 > Len(s) <=> ~(i + n <= Len(s))
    BY <1>3, <1>4
  <2> QED
    BY <1>2, <2>1, Zenon DEF More
<1>5. ASSUME Between(s[i], 0, 127) PROVE c = <<1, s[i]>>
  <2>1. length = 1 /\ first = s[i]
    BY <1>1, <1>5, FirstByteIs DEF length, first
  <2>2. c = IF More(s, i, 0) THEN <<length, Point(s, i, 0, first)[0]>>
            ELSE NoChar
    BY <1>4, <2>1
  <2>3. More(s, i, 0)
    BY DEF More
  <2>4. Point(s, i, 0, first)[0] = first
    BY <1>3, PointOf
  <2> QED
    BY <2>1, <2>2, <2>3, <2>4
<1>6. ASSUME Between(s[i], 192, 223)
      PROVE  c = IF More(s, i, 1)
                 THEN <<2, (s[i] - 192) * 64 + (s[i + 1] - 128)>> ELSE NoChar
  <2>1. length = 2 /\ first = s[i] - 192
    BY <1>1, <1>6, FirstByteIs DEF length, first
  <2>2. c = IF More(s, i, 1) THEN <<length, Point(s, i, 1, first)[1]>>
            ELSE NoChar
    BY <1>4, <2>1
  <2>3. More(s, i, 1) =>
          Point(s, i, 1, first)[1] = first * 64 + (s[i + 1] - 128)
    BY <1>3, PointOf DEF More
  <2> QED
    BY <2>1, <2>2, <2>3
<1>7. ASSUME Between(s[i], 224, 239)
      PROVE  c = IF More(s, i, 2)
                 THEN <<3, ((s[i] - 224) * 64 + (s[i + 1] - 128)) * 64
                             + (s[i + 2] - 128)>> ELSE NoChar
  <2>1. length = 3 /\ first = s[i] - 224
    BY <1>1, <1>7, FirstByteIs DEF length, first
  <2>2. c = IF More(s, i, 2) THEN <<length, Point(s, i, 2, first)[2]>>
            ELSE NoChar
    BY <1>4, <2>1
  <2>3. More(s, i, 2) => Point(s, i, 2, first)[2] =
                     (first * 64 + (s[i + 1] - 128)) * 64 + (s[i + 2] - 128)
    BY <1>3, PointOf DEF More
  <2> QED
    BY <2>1, <2>2, <2>3
<1>8. ASSUME Between(s[i], 240, 247)
      PROVE  c = IF More(s, i, 3)
                 THEN <<4, (((s[i] - 240) * 64 + (s[i + 1] - 128)) * 64
                              + (s[i + 2] - 128)) * 64
                             + (s[i + 3] - 128)>> ELSE NoChar
  <2>1. length = 4 /\ first = s[i] - 240
    BY <1>1, <1>8, FirstByteIs DEF length, first
  <2>2. c = IF More(s, i, 3) THEN <<length, Point(s, i, 3, first)[3]>>
            ELSE NoChar
    BY <1>4, <2>1
  <2>3. More(s, i, 3) => Point(s, i, 3, first)[3] =
                     ((first * 64 + (s[i + 1] - 128)) * 64
                        + (s[i + 2] - 128)) * 64 + (s[i + 3] - 128)
    BY <1>3, PointOf DEF More
  <2> QED
    BY <2>1, <2>2, <2>3
<1>9. ASSUME Between(s[i], 128, 191) \/ Between(s[i], 248, 255)
      PROVE  c = NoChar
  <2>1. length = 0
    BY <1>1, <1>9, FirstByteIs DEF length, first
  <2> QED
    BY <1>2, <2>1
<1> QED
  BY <1>5, <1>6, <1>7, <1>8, <1>9 DEF c

(* Whether the point p is XML's and takes m bytes.                         *)
Takes(p, m) ==
  \/ m = 1 /\ (p \in {9, 10, 13} \/ Between(p, 32, 127))
  \/ m = 2 /\ Between(p, 128, 2047)
  \/ m = 3 /\ (Between(p, 2048, 55295) \/ Between(p, 57344, 65533))
  \/ m = 4 /\ Between(p, 65536, 1114111)

(* Those characters are accepted.                                          *)
LEMMA NoneIsAccepted == ~Accepted(NoChar)
  BY DEF Accepted, NoChar, isUtf8OverlongSequence, Between

LEMMA AcceptedIs ==
  ASSUME NEW c, c[1] \in 1..4, c[2] \in Nat
  PROVE  Accepted(c) <=> Takes(c[2], c[1])
<1> DEFINE m == c[1]
           p == c[2]
<1>1. ~isUtf8OverlongSequence(c) <=>
        \/ Between(p, 0, 127) /\ m = 1
        \/ Between(p, 128, 2047) /\ m = 2
        \/ Between(p, 2048, 65535) /\ m = 3
        \/ Between(p, 65536, 1114111) /\ m = 4
  BY DEF isUtf8OverlongSequence, Between
<1>2. Accepted(c) <=>
        /\ ~isUtf8OverlongSequence(c)
        /\ \/ p \in {9, 10, 13} \/ Between(p, 32, 55295)
           \/ Between(p, 57344, 65533) \/ Between(p, 65536, 1114111)
  BY DEF Accepted, isValidXmlUtf8
<1> HIDE DEF m, p
<1>3. m \in 1..4 /\ p \in Nat
  BY DEF m, p
<1>4. Accepted(c) <=> Takes(p, m)
  BY <1>1, <1>2, <1>3 DEF Takes, Between
<1> QED
  BY <1>4 DEF m, p

(* The m bytes from i on.                                                  *)
Window(s, i, m) == SubSeq(s, i, i + m - 1)

LEMMA WindowIs ==
  ASSUME NEW s \in Seq(Byte), NEW i \in 1..Len(s), NEW m \in 1..4,
         i + m - 1 <= Len(s)
  PROVE  Len(Window(s, i, m)) = m
         /\ \A j \in 1..m : Window(s, i, m)[j] = s[i + j - 1]
  BY DEF Window

(* The table of RFC 3629, by a character's length and bytes.               *)
OneByte(b1) == b1 \in {9, 10, 13} \/ Between(b1, 32, 127)
TwoBytes(b1, b2) == Between(b1, 194, 223) /\ Between(b2, 128, 191)
ThreeBytes(b1, b2, b3) ==
  /\ \/ b1 = 224 /\ Between(b2, 160, 191)
     \/ Between(b1, 225, 236)
     \/ b1 = 237 /\ Between(b2, 128, 159)
     \/ Between(b1, 238, 239)
  /\ Between(b2, 128, 191) /\ Between(b3, 128, 191)
  /\ ~(b1 = 239 /\ b2 = 191 /\ Between(b3, 190, 191))
FourBytes(b1, b2, b3, b4) ==
  /\ \/ b1 = 240 /\ Between(b2, 144, 191)
     \/ Between(b1, 241, 243)
     \/ b1 = 244 /\ Between(b2, 128, 143)
  /\ Between(b2, 128, 191) /\ Between(b3, 128, 191) /\ Between(b4, 128, 191)

LEMMA XmlCharIs ==
  ASSUME NEW s \in Seq(Byte), NEW i \in 1..Len(s), NEW m \in 1..4,
         i + m - 1 <= Len(s)
  PROVE  IsXmlChar(Window(s, i, m)) <=>
           \/ m = 1 /\ OneByte(s[i])
           \/ m = 2 /\ TwoBytes(s[i], s[i + 1])
           \/ m = 3 /\ ThreeBytes(s[i], s[i + 1], s[i + 2])
           \/ m = 4 /\ FourBytes(s[i], s[i + 1], s[i + 2], s[i + 3])
<1> DEFINE w == Window(s, i, m)
<1>1. Len(w) = m /\ \A j \in 1..m : w[j] = s[i + j - 1]
  BY WindowIs
<1>2. w \in Seq(Byte)
  <2>1. i \in 1..Len(s) /\ i + m - 1 \in 1..Len(s)
    OBVIOUS
  <2> QED
    BY <2>1 DEF Window
<1> HIDE DEF w
<1>3. w[1] = s[i]
  BY <1>1
<1>4. CASE m = 1
  BY <1>1, <1>3, <1>4 DEF IsXmlChar, w, OneByte
<1>5. CASE m = 2
  <2>1. w[2] = s[i + 1]
    BY <1>1, <1>5
  <2> QED
    BY <1>1, <1>3, <1>5, <2>1 DEF IsXmlChar, w, TwoBytes
<1>6. CASE m = 3
  <2>1. w[2] = s[i + 1] /\ w[3] = s[i + 2]
    BY <1>1, <1>6
  <2>2. \A x, y, z : w = <<x, y, z>> <=> w[1] = x /\ w[2] = y /\ w[3] = z
    BY <1>1, <1>2, <1>6
  <2>3. w \notin {<<239, 191, 190>>, <<239, 191, 191>>} <=>
          ~(w[1] = 239 /\ w[2] = 191 /\ Between(w[3], 190, 191))
    <3>1. w \notin {<<239, 191, 190>>, <<239, 191, 191>>} <=>
            ~(w[1] = 239 /\ w[2] = 191 /\ (w[3] = 190 \/ w[3] = 191))
      <4> DEFINE x == 239
                 y == 191
                 z == 190
                 a == <<x, y, z>>
                 b == <<x, y, y>>
      <4> HIDE DEF x, y, z
      <4>1. w = a <=> w[1] = x /\ w[2] = y /\ w[3] = z
        BY <2>2
      <4>2. w = b <=> w[1] = x /\ w[2] = y /\ w[3] = y
        BY <2>2
      <4> HIDE DEF a, b
      <4>3. w \notin {a, b} <=> ~(w = a \/ w = b)
        OBVIOUS
      <4>4. w \notin {a, b} <=>
              ~(w[1] = x /\ w[2] = y /\ (w[3] = z \/ w[3] = y))
        BY <4>1, <4>2, <4>3, Zenon
      <4> QED
        BY <4>4, PTL DEF a, b, x, y, z
    <3>2. w[3] \in Nat
      <4>1. w[3] \in Byte
        BY <1>1, <1>2, <1>6
      <4>2. \A b \in Byte : b \in Nat
        BY DEF Byte
      <4> QED
        BY <4>1, <4>2
    <3>3. Between(w[3], 190, 191) <=> w[3] = 190 \/ w[3] = 191
      BY <3>2 DEF Between
    <3> QED
      BY <3>1, <3>3, Zenon
  <2>4. (\A j \in 2..Len(w) : Between(w[j], 128, 191)) <=>
          Between(w[2], 128, 191) /\ Between(w[3], 128, 191)
    BY <1>1, <1>6
  <2>5. IsXmlChar(w) <=>
          /\ \/ w[1] = 224 /\ Between(w[2], 160, 191)
             \/ Between(w[1], 225, 236)
             \/ w[1] = 237 /\ Between(w[2], 128, 159)
             \/ Between(w[1], 238, 239)
          /\ \A j \in 2..Len(w) : Between(w[j], 128, 191)
          /\ w \notin {<<239, 191, 190>>, <<239, 191, 191>>}
    BY <1>1, <1>6 DEF IsXmlChar
  <2> QED
    BY <1>3, <1>6, <2>1, <2>3, <2>4, <2>5 DEF w, ThreeBytes
<1>7. CASE m = 4
  <2>1. w[2] = s[i + 1] /\ w[3] = s[i + 2] /\ w[4] = s[i + 3]
    BY <1>1, <1>7
  <2>2. (\A j \in 2..Len(w) : Between(w[j], 128, 191)) <=>
          /\ Between(w[2], 128, 191) /\ Between(w[3], 128, 191)
          /\ Between(w[4], 128, 191)
    BY <1>1, <1>7
  <2>3. IsXmlChar(w) <=>
          /\ \/ w[1] = 240 /\ Between(w[2], 144, 191)
             \/ Between(w[1], 241, 243)
             \/ w[1] = 244 /\ Between(w[2], 128, 143)
          /\ \A j \in 2..Len(w) : Between(w[j], 128, 191)
    BY <1>1, <1>7 DEF IsXmlChar
  <2> QED
    BY <1>3, <1>7, <2>1, <2>2, <2>3 DEF w, FourBytes
<1> QED
  BY <1>4, <1>5, <1>6, <1>7

(* The characters of a length are accepted that the table has.             *)
LEMMA TwoAreAccepted ==
  ASSUME NEW b1 \in Nat, NEW b2 \in Nat, NEW c,
         Between(b1, 192, 223), Between(b2, 128, 191),
         c = <<2, (b1 - 192) * 64 + (b2 - 128)>>
  PROVE  Accepted(c) <=> TwoBytes(b1, b2)
<1> DEFINE p == (b1 - 192) * 64 + (b2 - 128)
<1>1. p \in Nat
  BY DEF Between
<1>2. Takes(p, 2) <=> TwoBytes(b1, b2)
  BY DEF Takes, TwoBytes, Between
<1>3. c[1] = 2 /\ c[2] = p
  OBVIOUS
<1> HIDE DEF p
<1>4. c[1] \in 1..4 /\ c[2] \in Nat
  BY <1>1, <1>3
<1>5. Accepted(c) <=> Takes(p, 2)
  BY <1>3, <1>4, AcceptedIs
<1> QED
  BY <1>2, <1>5

LEMMA ThreeAreAccepted ==
  ASSUME NEW b1 \in Nat, NEW b2 \in Nat, NEW b3 \in Nat, NEW c,
         Between(b1, 224, 239), Between(b2, 128, 191), Between(b3, 128, 191),
         c = <<3, ((b1 - 224) * 64 + (b2 - 128)) * 64 + (b3 - 128)>>
  PROVE  Accepted(c) <=> ThreeBytes(b1, b2, b3)
<1> DEFINE p == ((b1 - 224) * 64 + (b2 - 128)) * 64 + (b3 - 128)
<1>1. p \in Nat
  BY DEF Between
<1>2. Takes(p, 3) <=> ThreeBytes(b1, b2, b3)
  BY DEF Takes, ThreeBytes, Between
<1>3. c[1] = 3 /\ c[2] = p
  OBVIOUS
<1> HIDE DEF p
<1>4. c[1] \in 1..4 /\ c[2] \in Nat
  BY <1>1, <1>3
<1>5. Accepted(c) <=> Takes(p, 3)
  BY <1>3, <1>4, AcceptedIs
<1> QED
  BY <1>2, <1>5

LEMMA FourAreAccepted ==
  ASSUME NEW b1 \in Nat, NEW b2 \in Nat, NEW b3 \in Nat, NEW b4 \in Nat, NEW c,
         Between(b1, 240, 247), Between(b2, 128, 191), Between(b3, 128, 191),
         Between(b4, 128, 191),
         c = <<4, (((b1 - 240) * 64 + (b2 - 128)) * 64
                     + (b3 - 128)) * 64 + (b4 - 128)>>
  PROVE  Accepted(c) <=> FourBytes(b1, b2, b3, b4)
<1> DEFINE p == (((b1 - 240) * 64 + (b2 - 128)) * 64
                   + (b3 - 128)) * 64 + (b4 - 128)
<1>1. p \in Nat
  BY DEF Between
<1>2. Takes(p, 4) <=> FourBytes(b1, b2, b3, b4)
  BY DEF Takes, FourBytes, Between
<1>3. c[1] = 4 /\ c[2] = p
  OBVIOUS
<1> HIDE DEF p
<1>4. c[1] \in 1..4 /\ c[2] \in Nat
  BY <1>1, <1>3
<1>5. Accepted(c) <=> Takes(p, 4)
  BY <1>3, <1>4, AcceptedIs
<1> QED
  BY <1>2, <1>5

(* The table at i, for a character of m bytes.                             *)
InTable(s, i, m) ==
  \/ m = 1 /\ OneByte(s[i])
  \/ m = 2 /\ TwoBytes(s[i], s[i + 1])
  \/ m = 3 /\ ThreeBytes(s[i], s[i + 1], s[i + 2])
  \/ m = 4 /\ FourBytes(s[i], s[i + 1], s[i + 2], s[i + 3])

(* It tells apart lengths by the first byte, and has continuation bytes.   *)
LEMMA TableIs ==
  ASSUME NEW s, NEW i, s[i] \in Nat
  PROVE  /\ OneByte(s[i]) => Between(s[i], 0, 127)
         /\ TwoBytes(s[i], s[i + 1]) =>
              Between(s[i], 192, 223) /\ Between(s[i + 1], 128, 191)
         /\ ThreeBytes(s[i], s[i + 1], s[i + 2]) =>
              /\ Between(s[i], 224, 239) /\ Between(s[i + 1], 128, 191)
              /\ Between(s[i + 2], 128, 191)
         /\ FourBytes(s[i], s[i + 1], s[i + 2], s[i + 3]) =>
              /\ Between(s[i], 240, 247) /\ Between(s[i + 1], 128, 191)
              /\ Between(s[i + 2], 128, 191) /\ Between(s[i + 3], 128, 191)
<1>1. OneByte(s[i]) => Between(s[i], 0, 127)
  BY DEF OneByte, Between
<1>2. TwoBytes(s[i], s[i + 1]) =>
        Between(s[i], 192, 223) /\ Between(s[i + 1], 128, 191)
  BY DEF TwoBytes, Between
<1>3. ThreeBytes(s[i], s[i + 1], s[i + 2]) =>
        /\ Between(s[i], 224, 239) /\ Between(s[i + 1], 128, 191)
        /\ Between(s[i + 2], 128, 191)
  BY DEF ThreeBytes, Between
<1>4. FourBytes(s[i], s[i + 1], s[i + 2], s[i + 3]) =>
        /\ Between(s[i], 240, 247) /\ Between(s[i + 1], 128, 191)
        /\ Between(s[i + 2], 128, 191) /\ Between(s[i + 3], 128, 191)
  BY DEF FourBytes, Between
<1> QED
  BY <1>1, <1>2, <1>3, <1>4

(* The ranges of first bytes are apart, and are all there are.             *)
LEMMA FirstBytes ==
  ASSUME NEW b \in Nat, b <= 255
  PROVE  /\ \/ Between(b, 0, 127) \/ Between(b, 192, 223)
            \/ Between(b, 224, 239) \/ Between(b, 240, 247)
            \/ Between(b, 128, 191) \/ Between(b, 248, 255)
         /\ Between(b, 0, 127) => /\ ~Between(b, 192, 223)
                                  /\ ~Between(b, 224, 239)
                                  /\ ~Between(b, 240, 247)
         /\ Between(b, 192, 223) => /\ ~Between(b, 224, 239)
                                    /\ ~Between(b, 240, 247)
         /\ Between(b, 224, 239) => ~Between(b, 240, 247)
         /\ Between(b, 128, 191) \/ Between(b, 248, 255) =>
              /\ ~Between(b, 0, 127) /\ ~Between(b, 192, 223)
              /\ ~Between(b, 224, 239) /\ ~Between(b, 240, 247)
  BY DEF Between

(* A character is accepted if the table has it, of the length it has.      *)
LEMMA AcceptedIsInTable ==
  ASSUME NEW s \in Seq(Byte), NEW i \in 1..Len(s)
  PROVE  LET c == decodeUtf8Char(s, i)
         IN /\ Accepted(c) => /\ c[1] \in 1..4 /\ i + c[1] - 1 <= Len(s)
                              /\ InTable(s, i, c[1])
            /\ \A m \in 1..4 : i + m - 1 <= Len(s) /\ InTable(s, i, m) =>
                                 Accepted(c) /\ c[1] = m
<1> DEFINE c == decodeUtf8Char(s, i)
           n == Len(s)
           Holds ==
             /\ Accepted(c) => /\ c[1] \in 1..4 /\ i + c[1] - 1 <= n
                               /\ InTable(s, i, c[1])
             /\ \A m \in 1..4 : i + m - 1 <= n /\ InTable(s, i, m) =>
                                  Accepted(c) /\ c[1] = m
<1>1. i \in Nat /\ n \in Nat /\ i <= n /\ s[i] \in Nat
  BY BytesAre
<1>2. \A b \in Byte : b \in Nat /\ b <= 255
  BY DEF Byte
<1>3. \A k \in 0..3 : i + k <= n => s[i + k] \in Nat
  BY <1>2, BytesAre
<1>4. s[i] <= 255
  BY <1>2, BytesAre
<1>5. /\ More(s, i, 1) <=> i + 1 <= n /\ Between(s[i + 1], 128, 191)
      /\ More(s, i, 2) <=> /\ i + 2 <= n /\ Between(s[i + 1], 128, 191)
                           /\ Between(s[i + 2], 128, 191)
      /\ More(s, i, 3) <=> /\ i + 3 <= n /\ Between(s[i + 1], 128, 191)
                           /\ Between(s[i + 2], 128, 191)
                           /\ Between(s[i + 3], 128, 191)
  BY DEF More, IsContinuation
<1>6. /\ Between(s[i], 0, 127) => c = <<1, s[i]>>
      /\ Between(s[i], 128, 191) \/ Between(s[i], 248, 255) => c = NoChar
  BY CharOfBytes
<1>7. Between(s[i], 192, 223) =>
        c = IF More(s, i, 1)
            THEN <<2, (s[i] - 192) * 64 + (s[i + 1] - 128)>> ELSE NoChar
  BY CharOfBytes
<1>8. Between(s[i], 224, 239) =>
        c = IF More(s, i, 2)
            THEN <<3, ((s[i] - 224) * 64 + (s[i + 1] - 128)) * 64
                        + (s[i + 2] - 128)>> ELSE NoChar
  BY CharOfBytes
<1>9. Between(s[i], 240, 247) =>
        c = IF More(s, i, 3)
            THEN <<4, (((s[i] - 240) * 64 + (s[i + 1] - 128)) * 64
                         + (s[i + 2] - 128)) * 64
                        + (s[i + 3] - 128)>> ELSE NoChar
  BY CharOfBytes
<1>10. ASSUME c = NoChar, \A m \in 1..4 : i + m - 1 <= n => ~InTable(s, i, m)
       PROVE  Holds
  BY <1>10, NoneIsAccepted
<1>11. ASSUME NEW k \in 1..4, c[1] = k, i + k - 1 <= n,
              Accepted(c) <=> InTable(s, i, k),
              \A m \in 1..4 : m # k => ~InTable(s, i, m)
       PROVE  Holds
  BY <1>11
<1> HIDE DEF c, n, Holds
<1> SUFFICES Holds
  BY DEF Holds, c, n
<1> DEFINE Ranges ==
             /\ OneByte(s[i]) => Between(s[i], 0, 127)
             /\ TwoBytes(s[i], s[i + 1]) => Between(s[i], 192, 223)
             /\ ThreeBytes(s[i], s[i + 1], s[i + 2]) => Between(s[i], 224, 239)
             /\ FourBytes(s[i], s[i + 1], s[i + 2], s[i + 3]) =>
                  Between(s[i], 240, 247)
<1>12. Ranges
  BY <1>1, TableIs
<1>13. /\ \/ Between(s[i], 0, 127) \/ Between(s[i], 192, 223)
          \/ Between(s[i], 224, 239) \/ Between(s[i], 240, 247)
          \/ Between(s[i], 128, 191) \/ Between(s[i], 248, 255)
       /\ Between(s[i], 0, 127) => /\ ~Between(s[i], 192, 223)
                                   /\ ~Between(s[i], 224, 239)
                                   /\ ~Between(s[i], 240, 247)
       /\ Between(s[i], 192, 223) => /\ ~Between(s[i], 224, 239)
                                     /\ ~Between(s[i], 240, 247)
       /\ Between(s[i], 224, 239) => ~Between(s[i], 240, 247)
       /\ Between(s[i], 128, 191) \/ Between(s[i], 248, 255) =>
            /\ ~Between(s[i], 0, 127) /\ ~Between(s[i], 192, 223)
            /\ ~Between(s[i], 224, 239) /\ ~Between(s[i], 240, 247)
  BY <1>1, <1>4, FirstBytes
<1>14. CASE Between(s[i], 0, 127)
  <2>1. /\ ~TwoBytes(s[i], s[i + 1])
        /\ ~ThreeBytes(s[i], s[i + 1], s[i + 2])
        /\ ~FourBytes(s[i], s[i + 1], s[i + 2], s[i + 3])
    BY <1>14, <1>12, <1>13, PTL
  <2>2. \A m \in 1..4 :
          InTable(s, i, m) <=> m = 1 /\ OneByte(s[i])
    BY <2>1 DEF InTable
  <2>3. /\ InTable(s, i, 1) <=> OneByte(s[i])
        /\ \A m \in 1..4 : m # 1 => ~InTable(s, i, m)
    BY <2>2
  <2>4. c[1] = 1 /\ c[2] = s[i]
    BY <1>6, <1>14
  <2>5. Accepted(c) <=> Takes(s[i], 1)
    BY <1>1, <2>4, AcceptedIs
  <2>6. Takes(s[i], 1) <=> OneByte(s[i])
    BY DEF Takes, OneByte
  <2>7. Accepted(c) <=> InTable(s, i, 1)
    BY <2>3, <2>5, <2>6
  <2>8. i + 1 - 1 <= n
    BY <1>1
  <2> QED
    BY <1>11, <2>3, <2>4, <2>7, <2>8
<1>15. CASE Between(s[i], 192, 223)
  <2>1. /\ ~OneByte(s[i])
        /\ ~ThreeBytes(s[i], s[i + 1], s[i + 2])
        /\ ~FourBytes(s[i], s[i + 1], s[i + 2], s[i + 3])
    BY <1>15, <1>12, <1>13, PTL
  <2>2. \A m \in 1..4 :
          InTable(s, i, m) <=> m = 2 /\ TwoBytes(s[i], s[i + 1])
    BY <2>1 DEF InTable
  <2>3. /\ InTable(s, i, 2) <=> TwoBytes(s[i], s[i + 1])
        /\ \A m \in 1..4 : m # 2 => ~InTable(s, i, m)
    BY <2>2
  <2>4. CASE ~More(s, i, 1)
    <3>1. c = NoChar
      BY <1>7, <1>15, <2>4
    <3>2. i + 2 - 1 <= n => ~InTable(s, i, 2)
      BY <1>1, <1>5, <2>3, <2>4, TableIs
    <3>3. \A m \in 1..4 : i + m - 1 <= n => ~InTable(s, i, m)
      BY <2>3, <3>2
    <3> QED
      BY <1>10, <3>1, <3>3
  <2>5. CASE More(s, i, 1)
    <3>1. c = <<2, (s[i] - 192) * 64 + (s[i + 1] - 128)>>
      BY <1>7, <1>15, <2>5
    <3>2. /\ i + 2 - 1 <= n
          /\ s[i + 1] \in Nat /\ Between(s[i + 1], 128, 191)
      BY <1>1, <1>3, <1>5, <2>5
    <3>3. Accepted(c) <=> TwoBytes(s[i], s[i + 1])
      BY <1>1, <1>15, <3>1, <3>2, TwoAreAccepted
    <3>4. c[1] = 2
      BY <3>1
    <3>5. Accepted(c) <=> InTable(s, i, 2)
      BY <2>3, <3>3
    <3> QED
      BY <1>11, <2>3, <3>2, <3>4, <3>5
  <2> QED
    BY <2>4, <2>5
<1>16. CASE Between(s[i], 224, 239)
  <2>1. /\ ~OneByte(s[i])
        /\ ~TwoBytes(s[i], s[i + 1])
        /\ ~FourBytes(s[i], s[i + 1], s[i + 2], s[i + 3])
    BY <1>16, <1>12, <1>13, PTL
  <2>2. \A m \in 1..4 :
          InTable(s, i, m) <=> m = 3 /\ ThreeBytes(s[i], s[i + 1], s[i + 2])
    BY <2>1 DEF InTable
  <2>3. /\ InTable(s, i, 3) <=> ThreeBytes(s[i], s[i + 1], s[i + 2])
        /\ \A m \in 1..4 : m # 3 => ~InTable(s, i, m)
    BY <2>2
  <2>4. CASE ~More(s, i, 2)
    <3>1. c = NoChar
      BY <1>8, <1>16, <2>4
    <3>2. i + 3 - 1 <= n => ~InTable(s, i, 3)
      BY <1>1, <1>5, <2>3, <2>4, TableIs
    <3>3. \A m \in 1..4 : i + m - 1 <= n => ~InTable(s, i, m)
      BY <2>3, <3>2
    <3> QED
      BY <1>10, <3>1, <3>3
  <2>5. CASE More(s, i, 2)
    <3>1. c = <<3, ((s[i] - 224) * 64 + (s[i + 1] - 128)) * 64
                     + (s[i + 2] - 128)>>
      BY <1>8, <1>16, <2>5
    <3>2. /\ i + 3 - 1 <= n
          /\ s[i + 1] \in Nat /\ Between(s[i + 1], 128, 191)
          /\ s[i + 2] \in Nat /\ Between(s[i + 2], 128, 191)
      BY <1>1, <1>3, <1>5, <2>5
    <3>3. Accepted(c) <=> ThreeBytes(s[i], s[i + 1], s[i + 2])
      <4> DEFINE b1 == s[i]
               b2 == s[i + 1]
               b3 == s[i + 2]
      <4>1. c = <<3, ((b1 - 224) * 64 + (b2 - 128)) * 64 + (b3 - 128)>>
        BY <3>1
      <4>2. /\ b1 \in Nat /\ b2 \in Nat /\ b3 \in Nat
            /\ Between(b1, 224, 239)
            /\ Between(b2, 128, 191)
            /\ Between(b3, 128, 191)
        BY <1>1, <1>16, <3>2
      <4> HIDE DEF b1, b2, b3
      <4>3. Accepted(c) <=> ThreeBytes(b1, b2, b3)
        BY <4>1, <4>2, ThreeAreAccepted
      <4> QED
        BY <4>3 DEF b1, b2, b3
    <3>4. c[1] = 3
      BY <3>1
    <3>5. Accepted(c) <=> InTable(s, i, 3)
      BY <2>3, <3>3
    <3> QED
      BY <1>11, <2>3, <3>2, <3>4, <3>5
  <2> QED
    BY <2>4, <2>5
<1>17. CASE Between(s[i], 240, 247)
  <2>1. /\ ~OneByte(s[i])
        /\ ~TwoBytes(s[i], s[i + 1])
        /\ ~ThreeBytes(s[i], s[i + 1], s[i + 2])
    BY <1>17, <1>12, <1>13, PTL
  <2>2. \A m \in 1..4 :
          InTable(s, i, m) <=>
            m = 4 /\ FourBytes(s[i], s[i + 1], s[i + 2], s[i + 3])
    BY <2>1 DEF InTable
  <2>3. /\ InTable(s, i, 4) <=> FourBytes(s[i], s[i + 1], s[i + 2], s[i + 3])
        /\ \A m \in 1..4 : m # 4 => ~InTable(s, i, m)
    BY <2>2
  <2>4. CASE ~More(s, i, 3)
    <3>1. c = NoChar
      BY <1>9, <1>17, <2>4
    <3>2. i + 4 - 1 <= n => ~InTable(s, i, 4)
      <4>1. i + 4 - 1 <= n <=> i + 3 <= n
        BY <1>1
      <4>2. i + 3 <= n =>
              ~FourBytes(s[i], s[i + 1], s[i + 2], s[i + 3])
        BY <1>1, <1>5, <2>4, TableIs
      <4> QED
        BY <2>3, <4>1, <4>2
    <3>3. \A m \in 1..4 : i + m - 1 <= n => ~InTable(s, i, m)
      BY <2>3, <3>2
    <3> QED
      BY <1>10, <3>1, <3>3
  <2>5. CASE More(s, i, 3)
    <3>1. c = <<4, (((s[i] - 240) * 64 + (s[i + 1] - 128)) * 64
                      + (s[i + 2] - 128)) * 64 + (s[i + 3] - 128)>>
      BY <1>9, <1>17, <2>5
    <3>2. /\ i + 4 - 1 <= n
          /\ s[i + 1] \in Nat /\ Between(s[i + 1], 128, 191)
          /\ s[i + 2] \in Nat /\ Between(s[i + 2], 128, 191)
          /\ s[i + 3] \in Nat /\ Between(s[i + 3], 128, 191)
      BY <1>1, <1>3, <1>5, <2>5
    <3>3. Accepted(c) <=> FourBytes(s[i], s[i + 1], s[i + 2], s[i + 3])
      <4> DEFINE b1 == s[i]
               b2 == s[i + 1]
               b3 == s[i + 2]
               b4 == s[i + 3]
      <4>1. c = <<4, (((b1 - 240) * 64 + (b2 - 128)) * 64 + (b3 - 128)) * 64
                     + (b4 - 128)>>
        BY <3>1
      <4>2. /\ b1 \in Nat /\ b2 \in Nat /\ b3 \in Nat /\ b4 \in Nat
            /\ Between(b1, 240, 247)
            /\ Between(b2, 128, 191)
            /\ Between(b3, 128, 191)
            /\ Between(b4, 128, 191)
        BY <1>1, <1>17, <3>2
      <4> HIDE DEF b1, b2, b3, b4
      <4>3. Accepted(c) <=> FourBytes(b1, b2, b3, b4)
        BY <4>1, <4>2, FourAreAccepted, SMTT(30)
      <4> QED
        BY <4>3 DEF b1, b2, b3, b4
    <3>4. c[1] = 4
      BY <3>1
    <3>5. Accepted(c) <=> InTable(s, i, 4)
      BY <2>3, <3>3
    <3> QED
      BY <1>11, <2>3, <3>2, <3>4, <3>5
  <2> QED
    BY <2>4, <2>5
<1>18. CASE Between(s[i], 128, 191) \/ Between(s[i], 248, 255)
  <2>1. /\ ~OneByte(s[i])
        /\ ~TwoBytes(s[i], s[i + 1])
        /\ ~ThreeBytes(s[i], s[i + 1], s[i + 2])
        /\ ~FourBytes(s[i], s[i + 1], s[i + 2], s[i + 3])
    BY <1>18, <1>12, <1>13, PTL
  <2>2. \A m \in 1..4 : ~InTable(s, i, m)
    BY <2>1 DEF InTable
  <2>3. c = NoChar
    BY <1>6, <1>18
  <2> QED
    BY <1>10, <2>2, <2>3
<1> QED
  BY <1>14, <1>15, <1>16, <1>17, <1>18, <1>13

(* What xmlUtf8Test and IsXmlText say from each place on.                  *)
TestFrom(s, from) ==
  [i \in 1..(Len(s) + 1) |->
     IF i > Len(s) THEN TRUE
     ELSE LET c == decodeUtf8Char(s, i)
          IN /\ ~isUtf8OverlongSequence(c)
             /\ isValidXmlUtf8(c[2])
             /\ from[i + c[1]]]

TextFrom(s, from) ==
  [i \in 1..(Len(s) + 1) |->
     \/ i > Len(s)
     \/ \E n \in 1..4 : /\ i + n - 1 <= Len(s)
                        /\ IsXmlChar(SubSeq(s, i, i + n - 1))
                        /\ from[i + n]]

LEMMA TestFromIs ==
  ASSUME NEW s \in Seq(Byte), NEW f
  PROVE  /\ DOMAIN TestFrom(s, f) = 1..(Len(s) + 1)
         /\ TestFrom(s, f) \in [1..(Len(s) + 1) -> BOOLEAN]
         /\ \A i \in 1..(Len(s) + 1) :
              TestFrom(s, f)[i] <=>
                \/ i > Len(s)
                \/ /\ Accepted(decodeUtf8Char(s, i))
                   /\ f[i + decodeUtf8Char(s, i)[1]]
<1> DEFINE D == 1..(Len(s) + 1)
           Value(i) == IF i > Len(s) THEN TRUE
                       ELSE LET c == decodeUtf8Char(s, i)
                            IN /\ ~isUtf8OverlongSequence(c)
                               /\ isValidXmlUtf8(c[2])
                               /\ f[i + c[1]]
<1>1. TestFrom(s, f) = [i \in D |-> Value(i)]
  BY Zenon DEF TestFrom
<1>2. ASSUME NEW i \in D
      PROVE  /\ Value(i) \in BOOLEAN
             /\ Value(i) <=> \/ i > Len(s)
                             \/ /\ Accepted(decodeUtf8Char(s, i))
                                /\ f[i + decodeUtf8Char(s, i)[1]]
  BY Zenon DEF Accepted
<1> HIDE DEF D, Value
<1>3. /\ DOMAIN TestFrom(s, f) = D /\ TestFrom(s, f) \in [D -> BOOLEAN]
      /\ \A i \in D : TestFrom(s, f)[i] = Value(i)
  BY <1>1, <1>2, Zenon
<1> QED
  BY <1>2, <1>3, Zenon DEF D

LEMMA TextFromIs ==
  ASSUME NEW s \in Seq(Byte), NEW f
  PROVE  /\ DOMAIN TextFrom(s, f) = 1..(Len(s) + 1)
         /\ TextFrom(s, f) \in [1..(Len(s) + 1) -> BOOLEAN]
         /\ \A i \in 1..(Len(s) + 1) :
              TextFrom(s, f)[i] <=>
                \/ i > Len(s)
                \/ \E n \in 1..4 : /\ i + n - 1 <= Len(s)
                                   /\ IsXmlChar(Window(s, i, n))
                                   /\ f[i + n]
<1> DEFINE D == 1..(Len(s) + 1)
           Value(i) == \/ i > Len(s)
                       \/ \E n \in 1..4 : /\ i + n - 1 <= Len(s)
                                          /\ IsXmlChar(SubSeq(s, i, i + n - 1))
                                          /\ f[i + n]
<1>1. TextFrom(s, f) = [i \in D |-> Value(i)]
  BY Zenon DEF TextFrom
<1>2. ASSUME NEW i \in D
      PROVE  /\ Value(i) \in BOOLEAN
             /\ Value(i) <=> \/ i > Len(s)
                             \/ \E n \in 1..4 :
                                  /\ i + n - 1 <= Len(s)
                                  /\ IsXmlChar(Window(s, i, n))
                                  /\ f[i + n]
  BY Zenon DEF Window
<1> HIDE DEF D, Value
<1>3. /\ DOMAIN TextFrom(s, f) = D /\ TextFrom(s, f) \in [D -> BOOLEAN]
      /\ \A i \in D : TextFrom(s, f)[i] = Value(i)
  BY <1>1, <1>2, Zenon
<1> QED
  BY <1>2, <1>3, Zenon DEF D

(* Of a character, what stands at each place is made of later places.      *)
LEMMA TestRecurs ==
  ASSUME NEW s \in Seq(Byte)
  PROVE  \E f \in [1..(Len(s) + 1) -> BOOLEAN] : f = TestFrom(s, f)
<1> DEFINE D == 1..(Len(s) + 1)
           step == [f \in [D -> BOOLEAN] |-> TestFrom(s, f)]
<1>1. \A f \in [D -> BOOLEAN] : step[f] = TestFrom(s, f)
  OBVIOUS
<1>2. step \in [[D -> BOOLEAN] -> [D -> BOOLEAN]]
  BY TestFromIs
<1> HIDE DEF step
<1>3. ASSUME NEW f \in [D -> BOOLEAN], NEW g \in [D -> BOOLEAN], NEW i \in D,
             \A j \in D : i < j => f[j] = g[j]
      PROVE  step[f][i] = step[g][i]
  <2> DEFINE c == decodeUtf8Char(s, i)
  <2>1. step[f][i] \in BOOLEAN /\ step[g][i] \in BOOLEAN
    BY <1>2
  <2>2. CASE i > Len(s)
    <3>1. step[f][i] /\ step[g][i]
      BY <1>1, <2>2, TestFromIs
    <3> QED
      BY <2>1, <3>1
  <2>3. CASE i \in 1..Len(s)
    <3>1. Accepted(c) => c[1] \in 1..4 /\ i + c[1] - 1 <= Len(s)
      BY <2>3, AcceptedIsInTable
    <3> DEFINE m == c[1]
    <3>2. ~(i > Len(s))
      BY <2>3
    <3>3. /\ step[f][i] <=> Accepted(c) /\ f[i + m]
          /\ step[g][i] <=> Accepted(c) /\ g[i + m]
      <4>1. /\ TestFrom(s, f)[i] <=> i > Len(s) \/ (Accepted(c) /\ f[i + m])
            /\ TestFrom(s, g)[i] <=> i > Len(s) \/ (Accepted(c) /\ g[i + m])
        BY TestFromIs, Zenon
      <4>2. step[f] = TestFrom(s, f) /\ step[g] = TestFrom(s, g)
        BY <1>1, Zenon
      <4> QED
        BY <3>2, <4>1, <4>2, Zenon
    <3> HIDE DEF c, m
    <3>4. Accepted(c) => m \in 1..4 /\ i + m - 1 <= Len(s)
      BY <3>1 DEF m
    <3>5. Accepted(c) => i + m \in D /\ i < i + m
      BY <2>3, <3>4
    <3>6. Accepted(c) => f[i + m] = g[i + m]
      BY <1>3, <3>5
    <3> QED
      BY <2>1, <3>3, <3>6
  <2> QED
    BY <2>2, <2>3
<1>4. RecursDown(Len(s), BOOLEAN, step)
  <2>1. TRUE \in BOOLEAN
    OBVIOUS
  <2>2. Len(s) \in Nat
    OBVIOUS
  <2> QED
    BY <1>2, <1>3, <2>1, <2>2, Zenon DEF RecursDown
<1> QED
  BY <1>1, <1>4, RecursionDown

LEMMA TextRecurs ==
  ASSUME NEW s \in Seq(Byte)
  PROVE  \E f \in [1..(Len(s) + 1) -> BOOLEAN] : f = TextFrom(s, f)
<1> DEFINE D == 1..(Len(s) + 1)
           step == [f \in [D -> BOOLEAN] |-> TextFrom(s, f)]
<1>1. \A f \in [D -> BOOLEAN] : step[f] = TextFrom(s, f)
  OBVIOUS
<1>2. step \in [[D -> BOOLEAN] -> [D -> BOOLEAN]]
  BY TextFromIs
<1> HIDE DEF step
<1>3. ASSUME NEW f \in [D -> BOOLEAN], NEW g \in [D -> BOOLEAN], NEW i \in D,
             \A j \in D : i < j => f[j] = g[j]
      PROVE  step[f][i] = step[g][i]
  <2>1. step[f][i] \in BOOLEAN /\ step[g][i] \in BOOLEAN
    BY <1>2
  <2> DEFINE At(h) == \/ i > Len(s)
                      \/ \E n \in 1..4 : /\ i + n - 1 <= Len(s)
                                         /\ IsXmlChar(Window(s, i, n))
                                         /\ h[i + n]
  <2>2. (step[f][i] <=> At(f)) /\ (step[g][i] <=> At(g))
    <3>1. (TextFrom(s, f)[i] <=> At(f)) /\ (TextFrom(s, g)[i] <=> At(g))
      BY TextFromIs, Zenon
    <3>2. step[f] = TextFrom(s, f) /\ step[g] = TextFrom(s, g)
      BY <1>1, Zenon
    <3> QED
      BY <3>1, <3>2, Zenon
  <2>3. \A n \in 1..4 : i + n - 1 <= Len(s) => f[i + n] = g[i + n]
    <3> SUFFICES ASSUME NEW n \in 1..4, i + n - 1 <= Len(s)
                 PROVE  f[i + n] = g[i + n]
      OBVIOUS
    <3>1. i + n \in D /\ i < i + n
      OBVIOUS
    <3> QED
      BY <1>3, <3>1
  <2>4. At(f) <=> At(g)
    BY <2>3, Zenon
  <2> QED
    BY <2>1, <2>2, <2>4
<1>4. RecursDown(Len(s), BOOLEAN, step)
  <2>1. TRUE \in BOOLEAN
    OBVIOUS
  <2>2. Len(s) \in Nat
    OBVIOUS
  <2> QED
    BY <1>2, <1>3, <2>1, <2>2, Zenon DEF RecursDown
<1> QED
  BY <1>1, <1>4, RecursionDown

(* What the two say of a name.                                             *)
TestOf(s) == CHOOSE f : f = TestFrom(s, f)
TextOf(s) == CHOOSE f : f = TextFrom(s, f)

LEMMA TestOfIs ==
  ASSUME NEW s \in Seq(Byte)
  PROVE  /\ xmlUtf8Test(s) = TestOf(s)[1] /\ TestOf(s) = TestFrom(s, TestOf(s))
         /\ IsXmlText(s) = TextOf(s)[1] /\ TextOf(s) = TextFrom(s, TextOf(s))
<1>1. xmlUtf8Test(s) = TestOf(s)[1]
  BY Zenon DEF xmlUtf8Test, TestOf, TestFrom
<1>2. IsXmlText(s) = TextOf(s)[1]
  BY Zenon DEF IsXmlText, TextOf, TextFrom
<1>3. TestOf(s) = TestFrom(s, TestOf(s))
  <2>1. \E f : f = TestFrom(s, f)
    BY TestRecurs
  <2> QED
    BY <2>1, Zenon DEF TestOf
<1>4. TextOf(s) = TextFrom(s, TextOf(s))
  <2>1. \E f : f = TextFrom(s, f)
    BY TextRecurs
  <2> QED
    BY <2>1, Zenon DEF TextOf
<1> QED
  BY <1>1, <1>2, <1>3, <1>4

(* xmlUtf8Test accepts a name exactly if it is XML text in UTF-8: neither  *)
(* an overlong or a cut-off sequence nor a surrogate or another character  *)
(* that XML 1.0 leaves out gets through it, and it refuses nothing else.   *)
THEOREM TestIsExact ==
  ASSUME NEW s \in Seq(Byte)
  PROVE  xmlUtf8Test(s) <=> IsXmlText(s)
<1> DEFINE n == Len(s)
           f == TestOf(s)
           g == TextOf(s)
           Differs == {k \in Nat : k <= n /\ ~(f[n + 1 - k] <=> g[n + 1 - k])}
<1>1. n \in Nat
  OBVIOUS
<1>2. \A i \in 1..(n + 1) :
        /\ f[i] <=> \/ i > n
                    \/ /\ Accepted(decodeUtf8Char(s, i))
                       /\ f[i + decodeUtf8Char(s, i)[1]]
        /\ g[i] <=> \/ i > n
                    \/ \E m \in 1..4 : /\ i + m - 1 <= n
                                       /\ IsXmlChar(Window(s, i, m))
                                       /\ g[i + m]
  <2>1. f = TestFrom(s, f) /\ g = TextFrom(s, g)
    BY TestOfIs
  <2>2. \A i \in 1..(n + 1) :
          TestFrom(s, f)[i] <=> \/ i > n
                   \/ /\ Accepted(decodeUtf8Char(s, i))
                      /\ f[i + decodeUtf8Char(s, i)[1]]
    BY TestFromIs, Zenon
  <2>3. \A i \in 1..(n + 1) :
          TextFrom(s, g)[i] <=> \/ i > n
                   \/ \E m \in 1..4 : /\ i + m - 1 <= n
                                      /\ IsXmlChar(Window(s, i, m))
                                      /\ g[i + m]
    BY TextFromIs, Zenon
  <2> DEFINE fs == TestFrom(s, f)
             gs == TextFrom(s, g)
  <2> HIDE DEF f, g, fs, gs
  <2>4. f = fs /\ g = gs
    BY <2>1 DEF fs, gs
  <2>5. \A i \in 1..(n + 1) :
          fs[i] <=> \/ i > n
                    \/ /\ Accepted(decodeUtf8Char(s, i))
                       /\ f[i + decodeUtf8Char(s, i)[1]]
    BY <2>2 DEF fs
  <2>6. \A i \in 1..(n + 1) :
          gs[i] <=> \/ i > n
                    \/ \E m \in 1..4 : /\ i + m - 1 <= n
                                       /\ IsXmlChar(Window(s, i, m))
                                       /\ g[i + m]
    BY <2>3 DEF gs
  <2> QED
    BY <2>4, <2>5, <2>6
<1> HIDE DEF f, g
<1>3. ASSUME NEW i \in 1..n,
             \A j \in 1..(n + 1) : i < j => (f[j] <=> g[j])
      PROVE  f[i] <=> g[i]
  <2> DEFINE c == decodeUtf8Char(s, i)
             m == c[1]
  <2>1. i \in 1..(n + 1) /\ ~(i > n)
    BY <1>1
  <2>2. /\ f[i] <=> Accepted(c) /\ f[i + m]
        /\ g[i] <=> \E k \in 1..4 : /\ i + k - 1 <= n
                                    /\ IsXmlChar(Window(s, i, k))
                                    /\ g[i + k]
    BY <1>2, <2>1, Zenon
  <2>3. \A k \in 1..4 : i + k - 1 <= n =>
          (IsXmlChar(Window(s, i, k)) <=> InTable(s, i, k))
    BY XmlCharIs DEF InTable
  <2>4. /\ Accepted(c) => /\ m \in 1..4 /\ i + m - 1 <= n
                          /\ InTable(s, i, m)
        /\ \A k \in 1..4 : i + k - 1 <= n /\ InTable(s, i, k) =>
                             Accepted(c) /\ m = k
    BY AcceptedIsInTable
  <2> HIDE DEF c, m
  <2>5. \A k \in 1..4 : i + k - 1 <= n => (f[i + k] <=> g[i + k])
    <3> SUFFICES ASSUME NEW k \in 1..4, i + k - 1 <= n
                 PROVE  f[i + k] <=> g[i + k]
      OBVIOUS
    <3>1. i + k \in 1..(n + 1) /\ i < i + k
      BY <1>1
    <3> QED
      BY <1>3, <3>1, Zenon
  <2> QED
    BY <2>2, <2>3, <2>4, <2>5, Zenon
<1>4. Differs = {}
  <2> SUFFICES ASSUME Differs # {} PROVE FALSE
    OBVIOUS
  <2> DEFINE k == Min(Differs)
             i == n + 1 - k
  <2>1. Differs \in SUBSET Nat
    OBVIOUS
  <2>2. k \in Differs /\ \A j \in Differs : k <= j
    <3> HIDE DEF Differs
    <3> QED
      BY <2>1, Least
  <2>3. k \in Nat /\ k <= n /\ ~(f[i] <=> g[i])
    BY <2>2, Zenon
  <2> HIDE DEF k
  <2>4. i \in 1..(n + 1)
    BY <1>1, <2>3
  <2>5. i # n + 1
    <3> SUFFICES ASSUME i = n + 1 PROVE FALSE
      OBVIOUS
    <3>1. i > n
      BY <1>1
    <3> HIDE DEF i, n
    <3> QED
      BY <1>2, <2>3, <2>4, <3>1, Zenon
  <2>6. i \in 1..n
    BY <1>1, <2>4, <2>5
  <2>7. ASSUME NEW j \in 1..(n + 1), i < j PROVE f[j] <=> g[j]
    <3>1. /\ n + 1 - j \in Nat /\ n + 1 - j <= n
          /\ ~(k <= n + 1 - j) /\ n + 1 - (n + 1 - j) = j
      BY <1>1, <2>3, <2>7
    <3> QED
      BY <2>2, <3>1
  <2> QED
    BY <1>3, <2>3, <2>6, <2>7, Zenon
<1>5. f[1] <=> g[1]
  <2>1. n \in Nat /\ n <= n /\ n + 1 - n = 1
    BY <1>1
  <2> HIDE DEF n
  <2>2. n \notin Differs
    BY <1>4
  <2> QED
    BY <2>1, <2>2
<1> QED
  BY <1>5, TestOfIs DEF f, g

-----------------------------------------------------------------------------
(* The escaping of a name, and how it is read.                             *)

(* What a character is escaped to, with the bytes that tell it apart.      *)
LEMMA EscapedIs ==
  ASSUME NEW b \in Byte
  PROVE  /\ Escaped(b) \in Seq(Byte) /\ Len(Escaped(b)) \in 1..6
         /\ b \notin Entities => Escaped(b) = <<b>>
         /\ b \in Entities => Len(Escaped(b)) >= 4 /\ Escaped(b)[1] = 38
         /\ b = 38 => Escaped(b)[2] = 97 /\ Escaped(b)[3] = 109
         /\ b = 60 => Escaped(b)[2] = 108
         /\ b = 62 => Escaped(b)[2] = 103
         /\ b = 34 => Escaped(b)[2] = 113
         /\ b = 39 => Escaped(b)[2] = 97 /\ Escaped(b)[3] = 112
<1>1. \A k \in Nat : k <= 255 => k \in Byte
  BY DEF Byte
<1>2. CASE b \notin Entities
  <2>1. Escaped(b) = <<b>>
    BY <1>2 DEF Escaped, Entities
  <2> QED
    BY <1>2, <2>1 DEF Entities
<1>3. CASE b = 38
  <2>1. Escaped(b) = <<38, 97, 109, 112, 59>>
    BY <1>3 DEF Escaped
  <2>2. /\ 38 \in Byte /\ 97 \in Byte /\ 109 \in Byte
        /\ 112 \in Byte /\ 59 \in Byte
    BY <1>1
  <2>3. Escaped(b) \in Seq(Byte) /\ Len(Escaped(b)) = 5
    BY <2>1, <2>2
  <2>4. /\ Escaped(b)[1] = 38 /\ Escaped(b)[2] = 97
        /\ Escaped(b)[3] = 109
    BY <2>1
  <2>5. b \in Entities
    BY <1>3 DEF Entities
  <2>6. b # 60 /\ b # 62 /\ b # 34 /\ b # 39
    BY <1>3
  <2> QED
    BY <2>3, <2>4, <2>5, <2>6
<1>4. CASE b = 60
  <2>1. Escaped(b) = <<38, 108, 116, 59>>
    BY <1>4 DEF Escaped
  <2>2. /\ 38 \in Byte /\ 108 \in Byte /\ 116 \in Byte
        /\ 59 \in Byte
    BY <1>1
  <2>3. Escaped(b) \in Seq(Byte) /\ Len(Escaped(b)) = 4
    BY <2>1, <2>2
  <2>4. /\ Escaped(b)[1] = 38 /\ Escaped(b)[2] = 108
        /\ Escaped(b)[3] = 116
    BY <2>1
  <2>5. b \in Entities
    BY <1>4 DEF Entities
  <2>6. b # 38 /\ b # 62 /\ b # 34 /\ b # 39
    BY <1>4
  <2> QED
    BY <2>3, <2>4, <2>5, <2>6
<1>5. CASE b = 62
  <2>1. Escaped(b) = <<38, 103, 116, 59>>
    BY <1>5 DEF Escaped
  <2>2. /\ 38 \in Byte /\ 103 \in Byte /\ 116 \in Byte
        /\ 59 \in Byte
    BY <1>1
  <2>3. Escaped(b) \in Seq(Byte) /\ Len(Escaped(b)) = 4
    BY <2>1, <2>2
  <2>4. /\ Escaped(b)[1] = 38 /\ Escaped(b)[2] = 103
        /\ Escaped(b)[3] = 116
    BY <2>1
  <2>5. b \in Entities
    BY <1>5 DEF Entities
  <2>6. b # 38 /\ b # 60 /\ b # 34 /\ b # 39
    BY <1>5
  <2> QED
    BY <2>3, <2>4, <2>5, <2>6
<1>6. CASE b = 34
  <2>1. Escaped(b) = <<38, 113, 117, 111, 116, 59>>
    BY <1>6 DEF Escaped
  <2>2. /\ 38 \in Byte /\ 113 \in Byte /\ 117 \in Byte
        /\ 111 \in Byte /\ 116 \in Byte /\ 59 \in Byte
    BY <1>1
  <2>3. Escaped(b) \in Seq(Byte) /\ Len(Escaped(b)) = 6
    BY <2>1, <2>2
  <2>4. /\ Escaped(b)[1] = 38 /\ Escaped(b)[2] = 113
        /\ Escaped(b)[3] = 117
    BY <2>1
  <2>5. b \in Entities
    BY <1>6 DEF Entities
  <2>6. b # 38 /\ b # 60 /\ b # 62 /\ b # 39
    BY <1>6
  <2> QED
    BY <2>3, <2>4, <2>5, <2>6
<1>7. CASE b = 39
  <2>1. Escaped(b) = <<38, 97, 112, 111, 115, 59>>
    BY <1>7 DEF Escaped
  <2>2. /\ 38 \in Byte /\ 97 \in Byte /\ 112 \in Byte
        /\ 111 \in Byte /\ 115 \in Byte /\ 59 \in Byte
    BY <1>1
  <2>3. Escaped(b) \in Seq(Byte) /\ Len(Escaped(b)) = 6
    BY <2>1, <2>2
  <2>4. /\ Escaped(b)[1] = 38 /\ Escaped(b)[2] = 97
        /\ Escaped(b)[3] = 112
    BY <2>1
  <2>5. b \in Entities
    BY <1>7 DEF Entities
  <2>6. b # 38 /\ b # 60 /\ b # 62 /\ b # 34
    BY <1>7
  <2> QED
    BY <2>3, <2>4, <2>5, <2>6
<1> QED
  BY <1>2, <1>3, <1>4, <1>5, <1>6, <1>7 DEF Entities

(* The escaped name after each of its bytes.                               *)
EscapedUpto(s, result) ==
  [i \in 0..Len(s) |->
     IF i = 0 THEN <<>> ELSE result[i - 1] \o Escaped(s[i])]

EscapeOf(s) == CHOOSE e : e = EscapedUpto(s, e)

LEMMA EscapeOfIs ==
  ASSUME NEW s \in Seq(Byte)
  PROVE  LET e == EscapeOf(s)
         IN /\ xmlEscape(s) = e[Len(s)] /\ e \in [0..Len(s) -> Seq(Byte)]
            /\ e[0] = <<>>
            /\ \A i \in 1..Len(s) : e[i] = e[i - 1] \o Escaped(s[i])
<1> DEFINE n == Len(s)
           step == [f \in [0..n -> Seq(Byte)] |-> EscapedUpto(s, f)]
<1>1. \A f \in [0..n -> Seq(Byte)] : step[f] = EscapedUpto(s, f)
  OBVIOUS
<1>2. ASSUME NEW f \in [0..n -> Seq(Byte)]
      PROVE  EscapedUpto(s, f) \in [0..n -> Seq(Byte)]
  <2>1. ASSUME NEW i \in 0..n
        PROVE  (IF i = 0 THEN <<>> ELSE f[i - 1] \o Escaped(s[i]))
                 \in Seq(Byte)
    <3>1. CASE i = 0
      BY <3>1
    <3>2. CASE i # 0
      <4>1. i \in 1..n /\ i - 1 \in 0..n
        BY <3>2
      <4>2. s[i] \in Byte
        BY <4>1, BytesAre
      <4> DEFINE a == f[i - 1]
                 b == Escaped(s[i])
      <4>3. a \in Seq(Byte) /\ b \in Seq(Byte)
        BY <4>1, <4>2, EscapedIs
      <4> HIDE DEF a, b
      <4>4. a \o b \in Seq(Byte)
        BY <4>3
      <4> QED
        BY <3>2, <4>4 DEF a, b
    <3> QED
      BY <3>1, <3>2
  <2> QED
    BY <2>1 DEF EscapedUpto
<1>3. step \in [[0..n -> Seq(Byte)] -> [0..n -> Seq(Byte)]]
  BY <1>2
<1>4. \A f, g \in [0..n -> Seq(Byte)] : \A i \in 0..n :
        (\A j \in 0..n : j < i => f[j] = g[j]) => step[f][i] = step[g][i]
  <2> SUFFICES ASSUME NEW f \in [0..n -> Seq(Byte)],
                      NEW g \in [0..n -> Seq(Byte)], NEW i \in 0..n,
                      \A j \in 0..n : j < i => f[j] = g[j]
               PROVE  step[f][i] = step[g][i]
    OBVIOUS
  <2>1. i # 0 => i - 1 \in 0..n /\ i - 1 < i
    OBVIOUS
  <2>2. i # 0 => f[i - 1] = g[i - 1]
    BY <2>1
  <2> QED
    BY <1>1, <2>2 DEF EscapedUpto
<1> HIDE DEF step
<1>5. RecursUp(n, Seq(Byte), step)
  <2>1. Seq(Byte) # {} /\ n \in Nat
    OBVIOUS
  <2> QED
    BY <1>3, <1>4, <2>1, Zenon DEF RecursUp
<1>6. PICK f \in [0..n -> Seq(Byte)] : f = EscapedUpto(s, f)
  BY <1>1, <1>5, RecursionUp
<1>7. EscapeOf(s) = EscapedUpto(s, EscapeOf(s))
  BY <1>6, Zenon DEF EscapeOf
<1> DEFINE e == EscapeOf(s)
<1>8. xmlEscape(s) = e[n]
  BY Zenon DEF xmlEscape, EscapeOf, EscapedUpto
<1> HIDE DEF e
<1>9. e = EscapedUpto(s, e)
  BY <1>7 DEF e
<1>10. /\ DOMAIN e = 0..n /\ e = [i \in 0..n |-> e[i]] /\ e[0] = <<>>
       /\ \A i \in 1..n : e[i] = e[i - 1] \o Escaped(s[i])
  <2>1. /\ DOMAIN EscapedUpto(s, e) = 0..n
        /\ EscapedUpto(s, e) = [i \in 0..n |-> EscapedUpto(s, e)[i]]
        /\ EscapedUpto(s, e)[0] = <<>>
        /\ \A i \in 1..n : EscapedUpto(s, e)[i] = e[i - 1] \o Escaped(s[i])
    BY DEF EscapedUpto
  <2> QED
    BY <1>9, <2>1, Zenon
<1>11. \A i \in 0..n : e[i] \in Seq(Byte)
  <2> DEFINE Odd == {i \in Nat : i <= n /\ e[i] \notin Seq(Byte)}
  <2> SUFFICES ASSUME Odd # {} PROVE FALSE
    OBVIOUS
  <2>1. Odd \in SUBSET Nat
    OBVIOUS
  <2> DEFINE k == Min(Odd)
  <2>2. k \in Odd /\ \A j \in Odd : k <= j
    <3> HIDE DEF Odd
    <3> QED
      BY <2>1, Least
  <2>3. k \in Nat /\ k <= n /\ e[k] \notin Seq(Byte)
    BY <2>2, Zenon
  <2> HIDE DEF k
  <2>4. k # 0
    <3>1. <<>> \in Seq(Byte)
      OBVIOUS
    <3> QED
      BY <1>10, <2>3, <3>1, Zenon
  <2>5. k \in 1..n /\ k - 1 \in Nat /\ ~(k <= k - 1) /\ k - 1 <= n
    BY <2>3, <2>4
  <2>6. e[k - 1] \in Seq(Byte)
    BY <2>2, <2>5
  <2>7. Escaped(s[k]) \in Seq(Byte)
    BY <2>5, BytesAre, EscapedIs
  <2>8. e[k - 1] \o Escaped(s[k]) \in Seq(Byte)
    <3> DEFINE a == e[k - 1]
               b == Escaped(s[k])
    <3> HIDE DEF a, b
    <3>1. a \in Seq(Byte) /\ b \in Seq(Byte)
      BY <2>6, <2>7 DEF a, b
    <3>2. a \o b \in Seq(Byte)
      BY <3>1
    <3> QED
      BY <3>2 DEF a, b
  <2> QED
    BY <1>10, <2>3, <2>5, <2>8
<1>12. e \in [0..n -> Seq(Byte)]
  BY <1>10, <1>11, Zenon
<1> QED
  BY <1>8, <1>10, <1>12 DEF e

(* What each byte is escaped to is found in the whole, at its place.       *)
LEMMA EscapedAt ==
  ASSUME NEW s \in Seq(Byte), NEW i \in 1..Len(s)
  PROVE  LET e == EscapeOf(s)
             t == e[Len(s)]
             b == Escaped(s[i])
         IN /\ Len(e[i]) = Len(e[i - 1]) + Len(b)
            /\ Len(e[i]) <= Len(t)
            /\ \A j \in 1..Len(b) : t[Len(e[i - 1]) + j] = b[j]
<1> DEFINE n == Len(s)
           e == EscapeOf(s)
           b == Escaped(s[i])
           Whole(m) == Len(e[i]) <= Len(e[m])
                       /\ \A j \in 1..Len(e[i]) : e[m][j] = e[i][j]
           Odd == {m \in Nat : i <= m /\ m <= n /\ ~Whole(m)}
<1>1. /\ e \in [0..n -> Seq(Byte)]
      /\ \A m \in 1..n : e[m] = e[m - 1] \o Escaped(s[m])
  BY EscapeOfIs
<1>2. \A m \in 1..n : Escaped(s[m]) \in Seq(Byte)
  BY BytesAre, EscapedIs
<1> HIDE DEF e
<1>3. ASSUME NEW m \in 1..n
      PROVE  LET a == e[m - 1]
                 c == Escaped(s[m])
             IN /\ Len(a) \in Nat /\ Len(c) \in Nat
                /\ Len(e[m]) = Len(a) + Len(c)
                /\ \A j \in 1..Len(a) : e[m][j] = a[j]
                /\ \A j \in 1..Len(c) : e[m][Len(a) + j] = c[j]
  <2> DEFINE a == e[m - 1]
             c == Escaped(s[m])
  <2>1. a \in Seq(Byte) /\ c \in Seq(Byte) /\ e[m] = a \o c
    <3>1. m - 1 \in 0..n
      OBVIOUS
    <3> QED
      BY <1>1, <1>2, <3>1
  <2> HIDE DEF a, c
  <2>2. /\ Len(a) \in Nat /\ Len(c) \in Nat
        /\ Len(a \o c) = Len(a) + Len(c)
        /\ \A j \in 1..Len(a) : (a \o c)[j] = a[j]
        /\ \A j \in 1..Len(c) : (a \o c)[Len(a) + j] = c[j]
    BY <2>1
  <2> QED
    BY <2>1, <2>2 DEF a, c
<1>4. Odd = {}
  <2> SUFFICES ASSUME Odd # {} PROVE FALSE
    OBVIOUS
  <2>1. Odd \in SUBSET Nat
    OBVIOUS
  <2> DEFINE k == Min(Odd)
  <2>2. k \in Odd /\ \A m \in Odd : k <= m
    <3> HIDE DEF Odd
    <3> QED
      BY <2>1, Least
  <2>3. k \in Nat /\ i <= k /\ k <= n /\ ~Whole(k)
    BY <2>2, Zenon
  <2> HIDE DEF k
  <2>4. Whole(i)
    <3>1. Len(e[i]) \in Nat
      BY <1>1
    <3> QED
      BY <3>1
  <2>5. k # i
    BY <2>3, <2>4
  <2>6. k \in 1..n /\ k - 1 \in Nat /\ i <= k - 1 /\ k - 1 <= n
        /\ ~(k <= k - 1)
    BY <2>3, <2>5
  <2>7. k - 1 \notin Odd
    BY <2>2, <2>6
  <2>8. Whole(k - 1)
    <3> HIDE DEF Whole
    <3> QED
      BY <2>6, <2>7
  <2>9. Whole(k)
    <3> DEFINE a == e[k - 1]
               l == Len(e[i])
    <3>1. /\ Len(a) \in Nat /\ l \in Nat /\ l <= Len(a)
          /\ Len(a) <= Len(e[k])
          /\ \A j \in 1..Len(a) : e[k][j] = a[j]
          /\ \A j \in 1..l : a[j] = e[i][j]
      <4>1. l \in Nat
        BY <1>1
      <4>2. l <= Len(a) /\ \A j \in 1..l : a[j] = e[i][j]
        BY <2>8
      <4>3. /\ Len(a) \in Nat /\ Len(Escaped(s[k])) \in Nat
            /\ Len(e[k]) = Len(a) + Len(Escaped(s[k]))
            /\ \A j \in 1..Len(a) : e[k][j] = a[j]
        BY <1>3, <2>6
      <4> HIDE DEF a, l
      <4>4. Len(a) <= Len(e[k])
        BY <4>3
      <4> QED
        BY <4>1, <4>2, <4>3, <4>4
    <3>2. Len(e[k]) \in Nat
      BY <1>1, <2>6
    <3> HIDE DEF a
    <3> SUFFICES l <= Len(e[k]) /\ \A j \in 1..l : e[k][j] = e[i][j]
      OBVIOUS
    <3> HIDE DEF l
    <3> QED
      BY <3>1, <3>2
  <2> QED
    BY <2>3, <2>9
<1>5. Whole(n)
  <2>1. n \in Nat /\ i <= n /\ n <= n
    OBVIOUS
  <2> HIDE DEF Whole, n
  <2> QED
    BY <1>4, <2>1
<1> DEFINE t == e[n]
           a == e[i - 1]
<1>6. /\ Len(a) \in Nat /\ Len(b) \in Nat /\ Len(e[i]) = Len(a) + Len(b)
      /\ \A j \in 1..Len(b) : e[i][Len(a) + j] = b[j]
  BY <1>3
<1>7. \A j \in 1..Len(b) : t[Len(a) + j] = b[j]
  <2> DEFINE q == e[i]
  <2>1. \A j \in 1..Len(q) : t[j] = q[j]
    BY <1>5
  <2>2. /\ Len(a) \in Nat /\ Len(b) \in Nat /\ Len(q) = Len(a) + Len(b)
        /\ \A j \in 1..Len(b) : q[Len(a) + j] = b[j]
    BY <1>6
  <2> HIDE DEF t, a, b, q
  <2> QED
    BY <2>1, <2>2
<1> QED
  BY <1>5, <1>6, <1>7 DEF e

-----------------------------------------------------------------------------
(* Line ends.                                                              *)

(* What holds at the end and, if after a place, at it, holds everywhere.   *)
LEMMA Downward ==
  ASSUME NEW n \in Nat, NEW P \in SUBSET (1..(n + 1)), n + 1 \in P,
         \A i \in 1..n : i + 1 \in P => i \in P
  PROVE  \A i \in 1..(n + 1) : i \in P
<1> DEFINE Odd == {k \in Nat : k <= n /\ n + 1 - k \notin P}
<1>1. Odd = {}
  <2> SUFFICES ASSUME Odd # {} PROVE FALSE
    OBVIOUS
  <2>1. Odd \in SUBSET Nat
    OBVIOUS
  <2> DEFINE k == Min(Odd)
  <2>2. k \in Odd /\ \A j \in Odd : k <= j
    <3> HIDE DEF Odd
    <3> QED
      BY <2>1, Least
  <2>3. k \in Nat /\ k <= n /\ n + 1 - k \notin P
    BY <2>2, Zenon
  <2> HIDE DEF k
  <2>4. k # 0
    <3>1. n + 1 - 0 = n + 1
      OBVIOUS
    <3> QED
      BY <2>3, <3>1
  <2>5. /\ k - 1 \in Nat /\ k - 1 <= n /\ ~(k <= k - 1)
        /\ n + 1 - k \in 1..n /\ n + 1 - (k - 1) = n + 1 - k + 1
    BY <2>3, <2>4
  <2>6. n + 1 - (k - 1) \in P
    BY <2>2, <2>5
  <2> QED
    BY <2>3, <2>5, <2>6
<1>2. ASSUME NEW i \in 1..(n + 1) PROVE i \in P
  <2>1. n + 1 - i \in Nat /\ n + 1 - i <= n /\ n + 1 - (n + 1 - i) = i
    OBVIOUS
  <2>2. n + 1 - i \notin Odd
    BY <1>1
  <2> QED
    BY <2>1, <2>2
<1> QED
  BY <1>2

(* The bytes that are no carriage returns.                                 *)
Plain == Byte \ {13}

LEMMA LineEndIs ==
  ASSUME NEW s \in Seq(Byte), NEW i \in 1..Len(s)
  PROVE  /\ LineEnd(s, i) \in Seq(Plain) /\ LineEnd(s, i) \in Seq(Byte)
         /\ s[i] # 13 => LineEnd(s, i) = <<s[i]>>
<1>1. s[i] \in Byte /\ 10 \in Byte
  BY BytesAre DEF Byte
<1>2. CASE s[i] # 13
  <2> DEFINE c == s[i]
  <2>1. LineEnd(s, i) = <<c>>
    BY <1>2 DEF LineEnd
  <2>2. c \in Byte /\ c \in Plain
    BY <1>1, <1>2 DEF Plain
  <2> HIDE DEF c
  <2>3. <<c>> \in Seq(Byte) /\ <<c>> \in Seq(Plain)
    BY <2>2
  <2> QED
    BY <2>1, <2>3 DEF c
<1>3. CASE s[i] = 13
  <2>1. LineEnd(s, i) = <<>> \/ LineEnd(s, i) = <<10>>
    BY <1>3 DEF LineEnd
  <2>2. 10 \in Plain
    BY <1>1 DEF Plain
  <2>3. /\ <<>> \in Seq(Byte) /\ <<10>> \in Seq(Byte)
        /\ <<>> \in Seq(Plain) /\ <<10>> \in Seq(Plain)
    BY <1>1, <2>2
  <2> QED
    BY <1>3, <2>1, <2>3
<1> QED
  BY <1>2, <1>3

(* What is read from each place on.                                        *)
LineEndsFrom(s, from) ==
  [i \in 1..(Len(s) + 1) |->
     IF i > Len(s) THEN <<>> ELSE LineEnd(s, i) \o from[i + 1]]

LineEndsOf(s) == CHOOSE g : g = LineEndsFrom(s, g)

LEMMA LineEndsOfIs ==
  ASSUME NEW s \in Seq(Byte)
  PROVE  LET g == LineEndsOf(s)
         IN /\ LineEnds(s) = g[1] /\ g[Len(s) + 1] = <<>>
            /\ \A i \in 1..Len(s) : g[i] = LineEnd(s, i) \o g[i + 1]
<1> DEFINE n == Len(s)
           D == 1..(n + 1)
           step == [f \in [D -> Seq(Byte)] |-> LineEndsFrom(s, f)]
           Value(f, i) == IF i > n THEN <<>> ELSE LineEnd(s, i) \o f[i + 1]
<1>1. \A f \in [D -> Seq(Byte)] : step[f] = LineEndsFrom(s, f)
  OBVIOUS
<1>2. \A f : /\ LineEndsFrom(s, f) = [i \in D |-> Value(f, i)]
             /\ \A i \in D : LineEndsFrom(s, f)[i] = Value(f, i)
  BY Zenon DEF LineEndsFrom
<1>3. \A i \in D : ~(i > n) => i \in 1..n /\ i + 1 \in D /\ i < i + 1
  OBVIOUS
<1>4. ASSUME NEW f \in [D -> Seq(Byte)], NEW i \in D
      PROVE  Value(f, i) \in Seq(Byte)
  <2>1. CASE i > n
    <3>1. <<>> \in Seq(Byte)
      OBVIOUS
    <3> QED
      BY <2>1, <3>1, Zenon
  <2>2. CASE ~(i > n)
    <3> DEFINE a == LineEnd(s, i)
               b == f[i + 1]
    <3>1. a \in Seq(Byte) /\ b \in Seq(Byte)
      BY <1>3, <2>2, LineEndIs
    <3> HIDE DEF a, b
    <3>2. a \o b \in Seq(Byte)
      BY <3>1
    <3> QED
      BY <2>2, <3>2, Zenon DEF a, b
  <2> QED
    BY <2>1, <2>2
<1>5. step \in [[D -> Seq(Byte)] -> [D -> Seq(Byte)]]
  <2>1. ASSUME NEW f \in [D -> Seq(Byte)]
        PROVE  LineEndsFrom(s, f) \in [D -> Seq(Byte)]
    <3> HIDE DEF D, Value
    <3> QED
      BY <1>2, <1>4, Zenon
  <2> QED
    BY <2>1, Zenon
<1>6. ASSUME NEW f \in [D -> Seq(Byte)], NEW g \in [D -> Seq(Byte)],
             NEW i \in D, \A j \in D : i < j => f[j] = g[j]
      PROVE  step[f][i] = step[g][i]
  <2>1. step[f][i] = Value(f, i) /\ step[g][i] = Value(g, i)
    <3> HIDE DEF D, Value, step
    <3> QED
      BY <1>1, <1>2, Zenon
  <2>2. Value(f, i) = Value(g, i)
    BY <1>3, <1>6, Zenon
  <2> QED
    BY <2>1, <2>2, Zenon
<1> HIDE DEF step
<1>7. RecursDown(n, Seq(Byte), step)
  <2>1. <<>> \in Seq(Byte) /\ n \in Nat
    OBVIOUS
  <2> QED
    BY <1>5, <1>6, <2>1, Zenon DEF RecursDown
<1>8. \E f \in [D -> Seq(Byte)] : f = LineEndsFrom(s, f)
  BY <1>1, <1>7, RecursionDown
<1> DEFINE g == LineEndsOf(s)
<1>9. g = LineEndsFrom(s, g)
  BY <1>8, Zenon DEF LineEndsOf
<1>10. LineEnds(s) = g[1]
  BY Zenon DEF LineEnds, LineEndsOf, LineEndsFrom
<1> HIDE DEF g
<1>11. \A i \in D : g[i] = Value(g, i)
  <2> DEFINE r == LineEndsFrom(s, g)
  <2>1. \A i \in D : r[i] = Value(g, i)
    BY <1>2, Zenon
  <2>2. g = r
    BY <1>9
  <2> HIDE DEF r
  <2> QED
    BY <2>1, <2>2
<1>12. g[n + 1] = <<>>
  <2>1. n + 1 \in D /\ n + 1 > n
    OBVIOUS
  <2> QED
    BY <1>11, <2>1, Zenon
<1>13. \A i \in 1..n : g[i] = LineEnd(s, i) \o g[i + 1]
  <2>1. \A i \in 1..n : i \in D /\ ~(i > n)
    OBVIOUS
  <2> QED
    BY <1>11, <2>1, Zenon
<1> QED
  BY <1>10, <1>12, <1>13, Zenon DEF g

(* Reading takes all carriage returns out and changes nothing else.        *)
LEMMA LineEndsAre ==
  ASSUME NEW s \in Seq(Byte)
  PROVE  LineEnds(s) = s <=> \A i \in 1..Len(s) : s[i] # 13
<1> DEFINE n == Len(s)
           g == LineEndsOf(s)
<1>1. /\ LineEnds(s) = g[1] /\ g[n + 1] = <<>>
      /\ \A i \in 1..n : g[i] = LineEnd(s, i) \o g[i + 1]
  BY LineEndsOfIs
<1>2. n \in Nat /\ 1 \in 1..(n + 1)
  OBVIOUS
<1> HIDE DEF g
<1>3. g[1] \in Seq(Plain)
  <2> DEFINE P == {i \in 1..(n + 1) : g[i] \in Seq(Plain)}
  <2>1. n + 1 \in P
    <3>1. <<>> \in Seq(Plain) /\ n + 1 \in 1..(n + 1)
      OBVIOUS
    <3> QED
      BY <1>1, <3>1
  <2>2. ASSUME NEW i \in 1..n, i + 1 \in P PROVE i \in P
    <3> DEFINE a == LineEnd(s, i)
               b == g[i + 1]
    <3>1. a \in Seq(Plain) /\ b \in Seq(Plain)
      BY <2>2, LineEndIs
    <3>2. g[i] = a \o b
      BY <1>1, Zenon
    <3> HIDE DEF a, b
    <3>3. a \o b \in Seq(Plain)
      BY <3>1
    <3>4. i \in 1..(n + 1)
      BY <1>2
    <3> QED
      BY <3>2, <3>3, <3>4
  <2>3. P \in SUBSET (1..(n + 1))
    OBVIOUS
  <2> HIDE DEF P
  <2>4. 1 \in P
    BY <1>2, <2>1, <2>2, <2>3, Downward
  <2> QED
    BY <2>4 DEF P
<1>4. ASSUME \A i \in 1..n : s[i] # 13 PROVE g[1] = s
  <2> DEFINE P == {i \in 1..(n + 1) : g[i] = SubSeq(s, i, n)}
  <2>1. n + 1 \in P
    <3>1. SubSeq(s, n + 1, n) = <<>> /\ n + 1 \in 1..(n + 1)
      OBVIOUS
    <3> QED
      BY <1>1, <3>1
  <2>2. ASSUME NEW i \in 1..n, i + 1 \in P PROVE i \in P
    <3>1. LineEnd(s, i) = <<s[i]>>
      BY <1>4, LineEndIs
    <3>2. g[i + 1] = SubSeq(s, i + 1, n)
      BY <2>2
    <3>3. g[i] = <<s[i]>> \o SubSeq(s, i + 1, n)
      BY <1>1, <3>1, <3>2, Zenon
    <3>4. <<s[i]>> \o SubSeq(s, i + 1, n) = SubSeq(s, i, n)
      OBVIOUS
    <3>5. i \in 1..(n + 1)
      BY <1>2
    <3> QED
      BY <3>3, <3>4, <3>5
  <2>3. P \in SUBSET (1..(n + 1))
    OBVIOUS
  <2>4. 1 \in P
    <3> HIDE DEF P
    <3> QED
      BY <1>2, <2>1, <2>2, <2>3, Downward
  <2>5. SubSeq(s, 1, n) = s
    OBVIOUS
  <2> QED
    BY <2>4, <2>5
<1>5. ASSUME g[1] = s, NEW i \in 1..n PROVE s[i] # 13
  <2>1. s \in Seq(Plain)
    BY <1>3, <1>5
  <2> HIDE DEF n
  <2>2. \A j \in 1..Len(s) : s[j] \in Plain
    BY <2>1
  <2> QED
    BY <2>2 DEF Plain, n
<1> QED
  BY <1>1, <1>4, <1>5, Zenon

-----------------------------------------------------------------------------
(* Reading the escaped name.                                               *)

(* Whether what e is escaped to stands in the text at i.                   *)
StartsAt(text, i, e) ==
  /\ i + Len(Escaped(e)) - 1 <= Len(text)
  /\ SubSeq(text, i, i + Len(Escaped(e)) - 1) = Escaped(e)

(* What a parser reads from each place on.                                 *)
ReadFrom(text, from) ==
  [i \in 1..(Len(text) + 1) |->
     IF i > Len(text) THEN <<>>
     ELSE IF \E e \in Entities : StartsAt(text, i, e)
     THEN LET e == CHOOSE e \in Entities : StartsAt(text, i, e)
          IN <<e>> \o from[i + Len(Escaped(e))]
     ELSE LineEnd(text, i) \o from[i + 1]]

ReadOf(text) == CHOOSE f : f = ReadFrom(text, f)

LEMMA EntitiesAreBytes == \A e \in Entities : e \in Byte
  BY DEF Entities, Byte

LEMMA StartsIs ==
  ASSUME NEW t \in Seq(Byte), NEW i \in 1..Len(t), NEW b \in Byte
  PROVE  StartsAt(t, i, b) <=>
           /\ i + Len(Escaped(b)) - 1 <= Len(t)
           /\ \A j \in 1..Len(Escaped(b)) : t[i + j - 1] = Escaped(b)[j]
<1> DEFINE x == Escaped(b)
           m == Len(x)
           w == SubSeq(t, i, i + m - 1)
<1>1. x \in Seq(Byte) /\ m \in 1..6
  BY EscapedIs
<1> HIDE DEF x
<1> SUFFICES ASSUME i + m - 1 <= Len(t)
             PROVE  w = x <=> \A j \in 1..m : t[i + j - 1] = x[j]
  BY DEF StartsAt, x
<1> HIDE DEF m
<1>2. /\ w \in Seq(Byte) /\ Len(w) = m
      /\ \A j \in 1..m : w[j] = t[i + j - 1]
  <2>1. i \in 1..Len(t) /\ i + m - 1 \in 1..Len(t)
    BY <1>1
  <2> QED
    BY <1>1, <2>1
<1> HIDE DEF w
<1>3. Len(x) = m
  BY DEF m
<1>4. w = x <=> \A j \in 1..m : w[j] = x[j]
  BY <1>1, <1>2, <1>3
<1> QED
  BY <1>2, <1>4

(* At most one entity stands at a place, and none where no & does.         *)
LEMMA OneStarts ==
  ASSUME NEW t \in Seq(Byte), NEW i \in 1..Len(t),
         NEW d \in Entities, StartsAt(t, i, d)
  PROVE  /\ t[i] = 38
         /\ \A e \in Entities : StartsAt(t, i, e) => e = d
<1>1. ASSUME NEW e \in Entities, StartsAt(t, i, e)
      PROVE  /\ t[i] = 38
             /\ e = 38 => t[i + 1] = 97 /\ t[i + 2] = 109
             /\ e = 60 => t[i + 1] = 108
             /\ e = 62 => t[i + 1] = 103
             /\ e = 34 => t[i + 1] = 113
             /\ e = 39 => t[i + 1] = 97 /\ t[i + 2] = 112
  <2> DEFINE x == Escaped(e)
  <2>1. e \in Byte
    BY EntitiesAreBytes
  <2>2. /\ Len(x) \in 1..6 /\ Len(x) >= 4 /\ x[1] = 38
        /\ e = 38 => x[2] = 97 /\ x[3] = 109
        /\ e = 60 => x[2] = 108
        /\ e = 62 => x[2] = 103
        /\ e = 34 => x[2] = 113
        /\ e = 39 => x[2] = 97 /\ x[3] = 112
    BY <2>1, EscapedIs
  <2>3. \A j \in 1..Len(x) : t[i + j - 1] = x[j]
    BY <1>1, <2>1, StartsIs
  <2> HIDE DEF x
  <2>4. t[i] = x[1] /\ t[i + 1] = x[2] /\ t[i + 2] = x[3]
    <3>1. t[i + 1 - 1] = x[1] /\ t[i + 2 - 1] = x[2] /\ t[i + 3 - 1] = x[3]
      <4>1. 1 \in 1..Len(x) /\ 2 \in 1..Len(x) /\ 3 \in 1..Len(x)
        <5>1. Len(x) \in 1..6 /\ Len(x) >= 4
          BY <2>2
        <5> QED
          BY <5>1
      <4> QED
        BY <2>3, <4>1
    <3>2. i + 1 - 1 = i /\ i + 2 - 1 = i + 1 /\ i + 3 - 1 = i + 2
      OBVIOUS
    <3> QED
      BY <3>1, <3>2
  <2> QED
    BY <2>2, <2>4
<1>2. t[i] = 38
  BY <1>1
<1>3. ASSUME NEW e \in Entities, StartsAt(t, i, e) PROVE e = d
  <2> DEFINE y == t[i + 1]
             z == t[i + 2]
  <2>1. /\ d = 38 => y = 97 /\ z = 109
        /\ d = 60 => y = 108
        /\ d = 62 => y = 103
        /\ d = 34 => y = 113
        /\ d = 39 => y = 97 /\ z = 112
    BY <1>1
  <2>2. /\ e = 38 => y = 97 /\ z = 109
        /\ e = 60 => y = 108
        /\ e = 62 => y = 103
        /\ e = 34 => y = 113
        /\ e = 39 => y = 97 /\ z = 112
    BY <1>1, <1>3
  <2> HIDE DEF y, z
  <2>3. /\ d = 38 \/ d = 60 \/ d = 62 \/ d = 34 \/ d = 39
        /\ e = 38 \/ e = 60 \/ e = 62 \/ e = 34 \/ e = 39
    BY DEF Entities
  <2> QED
    BY <2>1, <2>2, <2>3
<1> QED
  BY <1>2, <1>3

(* What is read at a place, and the place to read on from.                 *)
NextOf(text, i) ==
  IF \E e \in Entities : StartsAt(text, i, e)
  THEN LET e == CHOOSE e \in Entities : StartsAt(text, i, e)
       IN << <<e>>, i + Len(Escaped(e)) >>
  ELSE <<LineEnd(text, i), i + 1>>

LEMMA NextOfIs ==
  ASSUME NEW t \in Seq(Byte), NEW i \in 1..Len(t)
  PROVE  LET next == NextOf(t, i)
         IN /\ next[1] \in Seq(Byte) /\ next[2] \in 1..(Len(t) + 1)
            /\ i < next[2]
            /\ \A d \in Entities :
                 StartsAt(t, i, d) => next = << <<d>>, i + Len(Escaped(d)) >>
            /\ (\A d \in Entities : ~StartsAt(t, i, d)) =>
                 next = <<LineEnd(t, i), i + 1>>
<1> DEFINE next == NextOf(t, i)
<1>1. ASSUME NEW d \in Entities, StartsAt(t, i, d)
      PROVE  next = << <<d>>, i + Len(Escaped(d)) >>
  <2> DEFINE e == CHOOSE e \in Entities : StartsAt(t, i, e)
  <2>1. e = d
    BY <1>1, OneStarts
  <2>2. next = << <<e>>, i + Len(Escaped(e)) >>
    BY <1>1, Zenon DEF NextOf
  <2> HIDE DEF e
  <2> QED
    BY <2>1, <2>2
<1>2. ASSUME \A d \in Entities : ~StartsAt(t, i, d)
      PROVE  next = <<LineEnd(t, i), i + 1>>
  BY <1>2, Zenon DEF NextOf
<1> HIDE DEF next
<1>3. next[1] \in Seq(Byte) /\ next[2] \in 1..(Len(t) + 1) /\ i < next[2]
  <2>1. ASSUME NEW d \in Entities, StartsAt(t, i, d)
        PROVE  next[1] \in Seq(Byte) /\ next[2] \in 1..(Len(t) + 1) /\ i < next[2]
    <3>1. d \in Byte
      BY EntitiesAreBytes
    <3> DEFINE m == Len(Escaped(d))
    <3>2. m \in 1..6 /\ i + m - 1 <= Len(t)
      BY <2>1, <3>1, EscapedIs, StartsIs
    <3>3. next[1] = <<d>> /\ next[2] = i + m
      BY <1>1, <2>1
    <3>4. <<d>> \in Seq(Byte)
      BY <3>1
    <3> HIDE DEF m
    <3> QED
      BY <3>2, <3>3, <3>4
  <2>2. ASSUME \A d \in Entities : ~StartsAt(t, i, d)
        PROVE  next[1] \in Seq(Byte) /\ next[2] \in 1..(Len(t) + 1) /\ i < next[2]
    <3>1. next[1] = LineEnd(t, i) /\ next[2] = i + 1
      BY <1>2, <2>2
    <3> QED
      BY <3>1, LineEndIs
  <2> QED
    BY <2>1, <2>2, Zenon
<1> QED
  BY <1>1, <1>2, <1>3 DEF next

LEMMA ReadFromIs ==
  ASSUME NEW t \in Seq(Byte), NEW f
  PROVE  /\ DOMAIN ReadFrom(t, f) = 1..(Len(t) + 1)
         /\ \A i \in 1..(Len(t) + 1) :
              ReadFrom(t, f)[i] =
                IF i > Len(t) THEN <<>>
                ELSE NextOf(t, i)[1] \o f[NextOf(t, i)[2]]
<1> DEFINE D == 1..(Len(t) + 1)
           Value(i) ==
             IF i > Len(t) THEN <<>>
             ELSE IF \E e \in Entities : StartsAt(t, i, e)
             THEN LET e == CHOOSE e \in Entities : StartsAt(t, i, e)
                  IN <<e>> \o f[i + Len(Escaped(e))]
             ELSE LineEnd(t, i) \o f[i + 1]
<1>1. ReadFrom(t, f) = [i \in D |-> Value(i)]
  BY Zenon DEF ReadFrom
<1>2. ASSUME NEW i \in D
      PROVE  Value(i) = IF i > Len(t) THEN <<>>
                        ELSE NextOf(t, i)[1] \o f[NextOf(t, i)[2]]
  <2> DEFINE next == NextOf(t, i)
             e == CHOOSE e \in Entities : StartsAt(t, i, e)
  <2>1. CASE \E d \in Entities : StartsAt(t, i, d)
    <3>1. next = << <<e>>, i + Len(Escaped(e)) >>
      BY <2>1, Zenon DEF NextOf
    <3>2. Value(i) = IF i > Len(t) THEN <<>>
                     ELSE <<e>> \o f[i + Len(Escaped(e))]
      BY <2>1, Zenon
    <3> HIDE DEF e, next, Value
    <3>3. next[1] = <<e>> /\ next[2] = i + Len(Escaped(e))
      BY <3>1
    <3> QED
      BY <3>2, <3>3, Zenon DEF next
  <2>2. CASE ~\E d \in Entities : StartsAt(t, i, d)
    <3>1. next = <<LineEnd(t, i), i + 1>>
      BY <2>2, Zenon DEF NextOf
    <3>2. Value(i) = IF i > Len(t) THEN <<>> ELSE LineEnd(t, i) \o f[i + 1]
      BY <2>2, Zenon
    <3> HIDE DEF e, next, Value
    <3>3. next[1] = LineEnd(t, i) /\ next[2] = i + 1
      BY <3>1
    <3> QED
      BY <3>2, <3>3, Zenon DEF next
  <2> QED
    BY <2>1, <2>2, Zenon
<1> HIDE DEF D, Value
<1>3. /\ DOMAIN ReadFrom(t, f) = D
      /\ \A i \in D : ReadFrom(t, f)[i] = Value(i)
  BY <1>1, Zenon
<1> QED
  BY <1>2, <1>3, Zenon DEF D

LEMMA ReadOfIs ==
  ASSUME NEW t \in Seq(Byte)
  PROVE  LET f == ReadOf(t)
         IN /\ AsRead(t) = f[1] /\ f[Len(t) + 1] = <<>>
            /\ \A i \in 1..Len(t) :
                 f[i] = NextOf(t, i)[1] \o f[NextOf(t, i)[2]]
<1> DEFINE D == 1..(Len(t) + 1)
           step == [f \in [D -> Seq(Byte)] |-> ReadFrom(t, f)]
           Value(f, i) == IF i > Len(t) THEN <<>>
                          ELSE NextOf(t, i)[1] \o f[NextOf(t, i)[2]]
<1>1. \A f \in [D -> Seq(Byte)] : step[f] = ReadFrom(t, f)
  OBVIOUS
<1>2. \A f : /\ DOMAIN ReadFrom(t, f) = D
             /\ \A i \in D : ReadFrom(t, f)[i] = Value(f, i)
  BY ReadFromIs, Zenon
<1>3. \A i \in D : ~(i > Len(t)) =>
        /\ NextOf(t, i)[1] \in Seq(Byte) /\ NextOf(t, i)[2] \in D
        /\ i < NextOf(t, i)[2]
  <2> SUFFICES ASSUME NEW i \in D, ~(i > Len(t))
               PROVE  /\ NextOf(t, i)[1] \in Seq(Byte) /\ NextOf(t, i)[2] \in D
                      /\ i < NextOf(t, i)[2]
    BY Zenon
  <2>1. i \in 1..Len(t)
    OBVIOUS
  <2> QED
    BY <2>1, NextOfIs, Zenon
<1>4. ASSUME NEW f \in [D -> Seq(Byte)]
      PROVE  ReadFrom(t, f) \in [D -> Seq(Byte)]
  <2>1. ASSUME NEW i \in D PROVE Value(f, i) \in Seq(Byte)
    <3>1. CASE i > Len(t)
      <4>1. <<>> \in Seq(Byte)
        OBVIOUS
      <4> QED
        BY <3>1, <4>1, Zenon
    <3>2. CASE ~(i > Len(t))
      <4> DEFINE a == NextOf(t, i)[1]
                 b == f[NextOf(t, i)[2]]
      <4>1. a \in Seq(Byte) /\ b \in Seq(Byte)
        BY <1>3, <3>2, Zenon
      <4> HIDE DEF a, b
      <4>2. a \o b \in Seq(Byte)
        BY <4>1
      <4> QED
        BY <3>2, <4>2, Zenon DEF a, b
    <3> QED
      BY <3>1, <3>2
  <2> DEFINE r == ReadFrom(t, f)
  <2>2. DOMAIN r = D /\ \A i \in D : r[i] = Value(f, i)
    BY <1>2
  <2>3. r = [i \in D |-> r[i]]
    BY Zenon DEF ReadFrom
  <2> HIDE DEF r, D, Value
  <2>4. \A i \in D : r[i] \in Seq(Byte)
    BY <2>1, <2>2, Zenon
  <2> QED
    BY <2>3, <2>4, Zenon DEF r
<1>5. step \in [[D -> Seq(Byte)] -> [D -> Seq(Byte)]]
  BY <1>4, Zenon
<1>6. ASSUME NEW f \in [D -> Seq(Byte)], NEW g \in [D -> Seq(Byte)],
             NEW i \in D, \A j \in D : i < j => f[j] = g[j]
      PROVE  step[f][i] = step[g][i]
  <2>1. step[f][i] = Value(f, i) /\ step[g][i] = Value(g, i)
    <3> HIDE DEF D, Value, step
    <3>1. step[f] = ReadFrom(t, f) /\ step[g] = ReadFrom(t, g)
      BY <1>1, Zenon
    <3> QED
      BY <1>2, <3>1, Zenon
  <2>2. Value(f, i) = Value(g, i)
    BY <1>3, <1>6, Zenon
  <2> QED
    BY <2>1, <2>2, Zenon
<1> HIDE DEF step
<1>7. RecursDown(Len(t), Seq(Byte), step)
  <2>1. <<>> \in Seq(Byte)
    OBVIOUS
  <2>2. Len(t) \in Nat
    OBVIOUS
  <2> QED
    BY <1>5, <1>6, <2>1, <2>2, Zenon DEF RecursDown
<1>8. \E f \in [D -> Seq(Byte)] : f = ReadFrom(t, f)
  BY <1>1, <1>7, RecursionDown
<1> DEFINE f == ReadOf(t)
<1>9. f = ReadFrom(t, f)
  BY <1>8, Zenon DEF ReadOf
<1>10. AsRead(t) = f[1]
  BY Zenon DEF AsRead, ReadOf, ReadFrom, StartsAt
<1> HIDE DEF f
<1>11. \A i \in D : f[i] = Value(f, i)
  <2> DEFINE r == ReadFrom(t, f)
  <2>1. \A i \in D : r[i] = Value(f, i)
    BY <1>2, Zenon
  <2>2. f = r
    BY <1>9
  <2> HIDE DEF r
  <2> QED
    BY <2>1, <2>2
<1>12. f[Len(t) + 1] = <<>>
  <2>1. Len(t) + 1 \in D /\ Len(t) + 1 > Len(t)
    OBVIOUS
  <2> QED
    BY <1>11, <2>1, Zenon
<1>13. \A i \in 1..Len(t) :
         f[i] = NextOf(t, i)[1] \o f[NextOf(t, i)[2]]
  <2>1. \A i \in 1..Len(t) : i \in D /\ ~(i > Len(t))
    OBVIOUS
  <2> QED
    BY <1>11, <2>1, Zenon
<1> QED
  BY <1>10, <1>12, <1>13, Zenon DEF f

(* A parser reads an escaped name, whatever bytes it is of, as the name    *)
(* with its line ends as XML has them, and as the name itself exactly if no*)
(* carriage return is in it: xmlEscape leaves no markup in a name, but     *)
(* leaves its carriage returns to the parser.                              *)
THEOREM EscapedIsRead ==
  ASSUME NEW s \in Seq(Byte)
  PROVE  /\ AsRead(xmlEscape(s)) = LineEnds(s)
         /\ AsRead(xmlEscape(s)) = s <=> \A i \in 1..Len(s) : s[i] # 13
<1> DEFINE n == Len(s)
           e == EscapeOf(s)
           t == e[n]
           f == ReadOf(t)
           g == LineEndsOf(s)
<1>1. n \in Nat
  OBVIOUS
<1>2. xmlEscape(s) = t /\ e \in [0..n -> Seq(Byte)] /\ e[0] = <<>>
  BY EscapeOfIs
<1>3. t \in Seq(Byte)
  BY <1>1, <1>2
<1>4. AsRead(t) = f[1] /\ f[Len(t) + 1] = <<>>
  BY <1>3, ReadOfIs
<1>5. \A i \in 1..Len(t) : f[i] = NextOf(t, i)[1] \o f[NextOf(t, i)[2]]
  BY <1>3, ReadOfIs
<1>6. ASSUME NEW i \in 1..n
      PROVE  f[Len(e[i - 1]) + 1] = LineEnd(s, i) \o f[Len(e[i]) + 1]
  <2> DEFINE b == s[i]
             x == Escaped(b)
             p == Len(e[i - 1]) + 1
             q == Len(e[i]) + 1
  <2>1. b \in Byte
    BY BytesAre
  <2>2. x \in Seq(Byte) /\ Len(x) \in 1..6
    BY <2>1, EscapedIs
  <2>3. Len(e[i - 1]) \in Nat
    BY <1>2
  <2>4. /\ Len(e[i]) = Len(e[i - 1]) + Len(x) /\ Len(e[i]) <= Len(t)
        /\ \A j \in 1..Len(x) : t[Len(e[i - 1]) + j] = x[j]
    BY EscapedAt
  <2>5. Len(t) \in Nat
    BY <1>3
  <2> HIDE DEF t, e, x
  <2>6. /\ p \in 1..Len(t) /\ q = p + Len(x) /\ p + Len(x) - 1 <= Len(t)
        /\ \A j \in 1..Len(x) : t[p + j - 1] = x[j]
    <3>1. p \in 1..Len(t) /\ q = p + Len(x) /\ p + Len(x) - 1 <= Len(t)
      <4> DEFINE a == Len(e[i - 1])
                 c == Len(e[i])
                 m == Len(x)
                 l == Len(t)
      <4>1. /\ a \in Nat /\ m \in 1..6 /\ l \in Nat /\ c = a + m /\ c <= l
            /\ p = a + 1 /\ q = c + 1
        BY <2>2, <2>3, <2>4, <2>5
      <4> HIDE DEF a, c, m, l, p, q
      <4>2. p \in 1..l /\ q = p + m /\ p + m - 1 <= l
        BY <4>1
      <4> QED
        BY <4>2 DEF l, m
    <3>2. \A j \in 1..Len(x) : p + j - 1 = Len(e[i - 1]) + j
      BY <2>2, <2>3
    <3> HIDE DEF p, q
    <3> QED
      BY <2>4, <3>1, <3>2
  <2> HIDE DEF p, q, b
  <2>7. StartsAt(t, p, b)
    BY <1>3, <2>1, <2>6, StartsIs DEF x
  <2>8. NextOf(t, p) = <<LineEnd(s, i), q>>
    <3>1. CASE b \in Entities
      <4>1. NextOf(t, p) = << <<b>>, q >>
        BY <1>3, <2>6, <2>7, <3>1, NextOfIs DEF x
      <4>2. b # 13
        BY <3>1 DEF Entities
      <4> QED
        BY <4>1, <4>2, LineEndIs DEF b
    <3>2. CASE b \notin Entities
      <4>1. x = <<b>>
        BY <2>1, <3>2, EscapedIs DEF x
      <4>2. Len(x) = 1 /\ x[1] = b
        BY <4>1
      <4>3. t[p] = b /\ q = p + 1
        <5>1. p + 1 - 1 = p /\ 1 \in 1..Len(x)
          BY <2>6, <4>2
        <5> QED
          BY <2>6, <4>2, <5>1
      <4>4. b # 38
        BY <3>2 DEF Entities
      <4>5. \A d \in Entities : ~StartsAt(t, p, d)
        BY <1>3, <2>6, <4>3, <4>4, OneStarts
      <4>6. NextOf(t, p) = <<LineEnd(t, p), q>>
        BY <1>3, <2>6, <4>3, <4>5, NextOfIs
      <4>7. (p < Len(t) /\ t[p + 1] = 10) <=> (i < n /\ s[i + 1] = 10)
        <5>1. CASE i < n
          <6> DEFINE c == s[i + 1]
                     y == Escaped(c)
          <6>1. i + 1 \in 1..n /\ (i + 1) - 1 = i
            BY <1>1, <5>1
          <6>2. c \in Byte
            BY <6>1, BytesAre
          <6>3. /\ Len(e[i + 1]) = Len(e[i]) + Len(y)
                /\ Len(e[i + 1]) <= Len(t)
                /\ \A j \in 1..Len(y) : t[Len(e[i]) + j] = y[j]
            <7> DEFINE k == i + 1
            <7>1. k \in 1..n /\ k - 1 = i
              BY <6>1
            <7> HIDE DEF k
            <7> DEFINE z == Escaped(s[k])
            <7>2. /\ Len(e[k]) = Len(e[k - 1]) + Len(z)
                  /\ Len(e[k]) <= Len(t)
                  /\ \A j \in 1..Len(z) : t[Len(e[k - 1]) + j] = z[j]
              BY <7>1, EscapedAt, Zenon DEF t, e
            <7> HIDE DEF z
            <7>3. /\ Len(e[k]) = Len(e[i]) + Len(z)
                  /\ Len(e[k]) <= Len(t)
                  /\ \A j \in 1..Len(z) : t[Len(e[i]) + j] = z[j]
              BY <7>1, <7>2, Zenon
            <7> QED
              BY <7>3, Zenon DEF k, z
          <6> HIDE DEF c
          <6>4. Len(y) \in 1..6 /\ (y[1] = 10 <=> c = 10)
            <7>1. Len(y) \in 1..6
              BY <6>2, EscapedIs
            <7>2. CASE c \in Entities
              <8>1. y[1] = 38
                BY <6>2, <7>2, EscapedIs, Zenon
              <8>2. c # 10
                BY <7>2 DEF Entities
              <8> QED
                BY <7>1, <8>1, <8>2
            <7>3. CASE c \notin Entities
              <8>1. y = <<c>>
                BY <6>2, <7>3, EscapedIs
              <8> QED
                BY <7>1, <8>1
            <7> QED
              BY <7>2, <7>3
          <6> HIDE DEF y
          <6>5. 1 \in 1..Len(y)
            BY <6>4
          <6>6. t[Len(e[i]) + 1] = y[1]
            BY <6>3, <6>5
          <6>7. Len(e[i]) + 1 = p + 1
            BY <4>3 DEF q
          <6>8. p < Len(t)
            <7>1. Len(e[i]) \in Nat
              BY <1>2
            <7> QED
              BY <2>5, <2>6, <4>3, <6>3, <6>4, <6>7, <7>1
          <6> QED
            BY <5>1, <6>4, <6>6, <6>7, <6>8 DEF c
        <5>2. CASE ~(i < n)
          <6>1. i = n
            BY <1>1, <5>2
          <6>2. q = Len(t) + 1
            BY <6>1 DEF q, t
          <6> QED
            BY <2>5, <2>6, <4>3, <5>2, <6>2
        <5> QED
          BY <5>1, <5>2
      <4>8. LineEnd(t, p) = LineEnd(s, i)
        <5>1. t[p] = s[i]
          BY <4>3 DEF b
        <5>2. CASE s[i] # 13
          BY <5>1, <5>2 DEF LineEnd
        <5>3. CASE s[i] = 13
          BY <4>7, <5>1, <5>3 DEF LineEnd
        <5> QED
          BY <5>2, <5>3
      <4> QED
        BY <4>6, <4>8
    <3> QED
      BY <3>1, <3>2
  <2>9. NextOf(t, p)[1] = LineEnd(s, i) /\ NextOf(t, p)[2] = q
    BY <2>8
  <2>10. f[p] = LineEnd(s, i) \o f[q]
    BY <1>5, <2>6, <2>9
  <2> QED
    BY <2>10 DEF p, q
<1>7. /\ LineEnds(s) = g[1] /\ g[n + 1] = <<>>
      /\ \A i \in 1..n : g[i] = LineEnd(s, i) \o g[i + 1]
  BY LineEndsOfIs
<1> HIDE DEF f, t, e, g
<1> DEFINE P == {i \in 1..(n + 1) : f[Len(e[i - 1]) + 1] = g[i]}
<1>8. n + 1 \in P
  <2>1. n + 1 \in 1..(n + 1) /\ (n + 1) - 1 = n
    BY <1>1
  <2>2. f[Len(e[n]) + 1] = g[n + 1]
    BY <1>4, <1>7 DEF t
  <2> QED
    BY <2>1, <2>2
<1>9. ASSUME NEW i \in 1..n, i + 1 \in P PROVE i \in P
  <2>1. (i + 1) - 1 = i /\ i \in 1..(n + 1)
    BY <1>1
  <2>2. f[Len(e[i]) + 1] = g[i + 1]
    BY <1>9, <2>1
  <2>3. f[Len(e[i - 1]) + 1] = g[i]
    BY <1>6, <1>7, <2>2
  <2> QED
    BY <2>1, <2>3
<1>10. 1 \in P
  <2>1. P \in SUBSET (1..(n + 1)) /\ 1 \in 1..(n + 1)
    BY <1>1
  <2> HIDE DEF P, n
  <2> QED
    BY <1>1, <1>8, <1>9, <2>1, Downward
<1>11. f[1] = g[1]
  <2>1. Len(e[1 - 1]) + 1 = 1
    <3>1. 1 - 1 = 0
      OBVIOUS
    <3> QED
      BY <1>2, <3>1
  <2> QED
    BY <1>10, <2>1
<1>12. AsRead(xmlEscape(s)) = LineEnds(s)
  BY <1>2, <1>4, <1>7, <1>11
<1> QED
  BY <1>12, LineEndsAre
=============================================================================
