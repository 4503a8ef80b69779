--------------------------- MODULE EtaBandsProofs ---------------------------
(***************************************************************************)
(* What the arithmetic of EtaBands returns, for all legs, speeds, ages and *)
(* typical ranges: bands in order, and none that comes earlier for a       *)
(* longer leg.                                                             *)
(***************************************************************************)
EXTENDS EtaBands, TLAPS

\* A band in the order every tier keeps, and one whose middle time is inside it.
InOrder(b) == b.med <= b.p90 /\ b.p10 <= b.p90
Holding(b) == InOrder(b) /\ b.p10 <= b.med

\* No time of a is later than that of b.
NoLater(a, b) == a.p10 <= b.p10 /\ a.med <= b.med /\ a.p90 <= b.p90

----------------------------------------------------------------------------
(* Rounded fractions                                                       *)

LEMMA DivisionBounds ==
  ASSUME NEW n \in Int, NEW d \in Nat \ {0}
  PROVE  n \div d \in Int /\ (n \div d) * d <= n /\ n < (n \div d + 1) * d
  OBVIOUS

\* Rounding down keeps the order of fractions.
LEMMA FractionOrder ==
  ASSUME NEW m \in Int, NEW n \in Int, NEW c \in Nat \ {0}, NEW d \in Nat \ {0}, m * d <= n * c
  PROVE  m \div c <= n \div d
  <1> DEFINE p == m \div c
             q == n \div d
  <1>1. p \in Int /\ p * c <= m
    BY DivisionBounds
  <1>2. q \in Int /\ n < (q + 1) * d
    BY DivisionBounds
  <1> HIDE DEF p, q
  <1>3. SUFFICES ASSUME q + 1 <= p PROVE FALSE
    BY <1>1, <1>2 DEF p, q
  <1>4. (q + 1) * (c * d) <= p * (c * d)
    <2> DEFINE k == c * d
    <2>1. k \in Nat
      OBVIOUS
    <2> HIDE DEF k
    <2> QED
      BY <1>1, <1>2, <1>3, <2>1 DEF k
  <1>5. p * (c * d) <= m * d
    <2>1. (p * c) * d <= m * d
      <3> DEFINE x == p * c
      <3>1. x \in Int /\ x <= m
        BY <1>1
      <3> HIDE DEF x
      <3> QED
        BY <3>1 DEF x
    <2> QED
      BY <1>1, <2>1
  <1>6. n * c < (q + 1) * (c * d)
    <2> DEFINE y == (q + 1) * d
    <2>1. y \in Int /\ n < y
      BY <1>2
    <2>2. n * c < y * c
      <3> HIDE DEF y
      <3> QED
        BY <2>1
    <2> QED
      BY <1>2, <2>2
  <1> QED
    BY <1>1, <1>2, <1>4, <1>5, <1>6

LEMMA DivisionIsMonotone ==
  ASSUME NEW a \in Int, NEW b \in Int, NEW c \in Nat \ {0}, a <= b
  PROVE  a \div c <= b \div c
  OBVIOUS

----------------------------------------------------------------------------
(* A time at one speed                                                     *)

LEMMA TimeType ==
  ASSUME NEW leg \in Nat, NEW speed \in Nat \ {0}
  PROVE  TimeFor(leg, speed) \in Nat
  <1>1. 120 * leg \in Nat
    OBVIOUS
  <1> QED
    BY <1>1 DEF TimeFor

\* Times are ordered as legs over speeds are.
LEMMA TimeOrder ==
  ASSUME NEW a \in Nat, NEW b \in Nat, NEW s \in Nat \ {0}, NEW t \in Nat \ {0}, a * t <= b * s
  PROVE  TimeFor(a, s) <= TimeFor(b, t)
  <1>1. (120 * a) * t <= (120 * b) * s
    <2>1. (120 * a) * t = 120 * (a * t) /\ (120 * b) * s = 120 * (b * s)
      OBVIOUS
    <2>2. a * t \in Nat /\ b * s \in Nat
      OBVIOUS
    <2>3. \A x, y \in Nat : x <= y => 120 * x <= 120 * y
      OBVIOUS
    <2> QED
      BY <2>1, <2>2, <2>3
  <1>2. 120 * a \in Int /\ 120 * b \in Int
    OBVIOUS
  <1> QED
    BY <1>1, <1>2, FractionOrder DEF TimeFor

\* A tenth less and a tenth more than the time at her own speed.
LEMMA TenthAround ==
  ASSUME NEW leg \in Nat, NEW speed \in Nat \ {0}
  PROVE  /\ TimeFor(9 * leg, 10 * speed) \in Nat /\ TimeFor(11 * leg, 10 * speed) \in Nat
         /\ TimeFor(9 * leg, 10 * speed) <= TimeFor(leg, speed)
         /\ TimeFor(leg, speed) <= TimeFor(11 * leg, 10 * speed)
  <1>1. 9 * leg \in Nat /\ 11 * leg \in Nat /\ 10 * speed \in Nat \ {0}
    OBVIOUS
  <1>2. leg * speed \in Nat
    OBVIOUS
  <1>3. (9 * leg) * speed <= leg * (10 * speed)
    <2>1. (9 * leg) * speed = 9 * (leg * speed) /\ leg * (10 * speed) = 10 * (leg * speed)
      OBVIOUS
    <2> QED
      BY <1>2, <2>1
  <1>4. leg * (10 * speed) <= (11 * leg) * speed
    <2>1. (11 * leg) * speed = 11 * (leg * speed) /\ leg * (10 * speed) = 10 * (leg * speed)
      OBVIOUS
    <2> QED
      BY <1>2, <2>1
  <1> QED
    BY <1>1, <1>3, <1>4, TimeType, TimeOrder

\* Who goes faster is there earlier.
LEMMA FasterIsEarlier ==
  ASSUME NEW leg \in Nat, NEW slow \in Nat \ {0}, NEW fast \in Nat \ {0}, slow <= fast
  PROVE  TimeFor(leg, fast) <= TimeFor(leg, slow)
  <1>1. leg * slow <= leg * fast
    OBVIOUS
  <1> QED
    BY <1>1, TimeOrder

\* Who has farther to go is there later.
LEMMA FartherIsLater ==
  ASSUME NEW near \in Nat, NEW far \in Nat, near <= far, NEW speed \in Nat \ {0}
  PROVE  TimeFor(near, speed) <= TimeFor(far, speed)
  <1>1. near * speed <= far * speed
    OBVIOUS
  <1> QED
    BY <1>1, TimeOrder

----------------------------------------------------------------------------
(* The widened sides of a reckoned band                                    *)

\* A widened time is a fraction with the leg as a factor.
Side(speed, bound, age) == (2 * PerHour + age) * speed - age * bound
Whole(speed) == 2 * PerHour * speed

LEMMA WidenedParts ==
  ASSUME NEW leg \in Nat, NEW speed \in Nat \ {0}, NEW bound \in Nat \ {0}, NEW age \in Nat
  PROVE  /\ 120 * leg \in Nat /\ Side(speed, bound, age) \in Int
         /\ Whole(speed) \in Nat \ {0} /\ Whole(speed) * bound \in Nat \ {0}
         /\ (120 * leg) * Side(speed, bound, age) \in Int
         /\ Widened(leg, speed, bound, age)
              = ((120 * leg) * Side(speed, bound, age)) \div (Whole(speed) * bound)
         /\ Widened(leg, speed, bound, age) \in Int
  <1> DEFINE top == (120 * leg) * Side(speed, bound, age)
             bottom == Whole(speed) * bound
  <1>1. Side(speed, bound, age) \in Int /\ Whole(speed) \in Nat \ {0} /\ 120 * leg \in Nat
    BY HourAssumption DEF Side, Whole
  <1>2. top \in Int
    BY <1>1
  <1>3. bottom \in Nat \ {0}
    BY <1>1
  <1>4. Widened(leg, speed, bound, age) = top \div bottom
    BY DEF Widened, Side, Whole
  <1>5. top \div bottom \in Int
    <2> HIDE DEF top, bottom
    <2> QED
      BY <1>2, <1>3
  <1> QED
    BY <1>1, <1>2, <1>3, <1>4, <1>5

\* The side of the slower bound is the later one.
LEMMA WidenedOrder ==
  ASSUME NEW leg \in Nat, NEW speed \in Nat \ {0}, NEW slow \in Nat \ {0}, NEW fast \in Nat \ {0},
         slow <= fast, NEW age \in Nat
  PROVE  Widened(leg, speed, fast, age) <= Widened(leg, speed, slow, age)
  <1> DEFINE x == (2 * PerHour + age) * speed
             whole == Whole(speed)
             k == 120 * leg
             f == Side(speed, fast, age)
             s == Side(speed, slow, age)
  <1>1. x \in Nat /\ f = x - age * fast /\ s = x - age * slow
    BY HourAssumption DEF Side
  <1>2. /\ Widened(leg, speed, fast, age) = (k * f) \div (whole * fast)
        /\ Widened(leg, speed, slow, age) = (k * s) \div (whole * slow)
        /\ k \in Nat /\ f \in Int /\ s \in Int /\ whole \in Nat \ {0}
        /\ k * f \in Int /\ k * s \in Int /\ whole * fast \in Nat \ {0} /\ whole * slow \in Nat \ {0}
    <2>1. /\ Widened(leg, speed, fast, age) = (k * f) \div (whole * fast)
          /\ f \in Int /\ k * f \in Int /\ whole * fast \in Nat \ {0}
      BY WidenedParts
    <2>2. /\ Widened(leg, speed, slow, age) = (k * s) \div (whole * slow)
          /\ s \in Int /\ k * s \in Int /\ whole * slow \in Nat \ {0}
      BY WidenedParts
    <2>3. k \in Nat /\ whole \in Nat \ {0}
      BY HourAssumption DEF Whole
    <2> QED
      BY <2>1, <2>2, <2>3
  <1>3. f * slow <= s * fast
    <2>1. age * fast \in Nat /\ age * slow \in Nat /\ (age * fast) * slow = (age * slow) * fast
      OBVIOUS
    <2>2. x * slow <= x * fast
      <3> HIDE DEF x
      <3> QED
        BY <1>1
    <2>3. f * slow = x * slow - (age * fast) * slow /\ s * fast = x * fast - (age * slow) * fast
      <3> DEFINE y == age * fast
                 z == age * slow
      <3> HIDE DEF x, y, z
      <3>1. y \in Nat /\ z \in Nat
        BY <2>1 DEF y, z
      <3>2. (x - y) * slow = x * slow - y * slow /\ (x - z) * fast = x * fast - z * fast
        BY <1>1, <3>1
      <3>3. f = x - y /\ s = x - z
        BY <1>1 DEF y, z
      <3> HIDE DEF f, s
      <3>4. f * slow = x * slow - y * slow /\ s * fast = x * fast - z * fast
        BY <3>2, <3>3
      <3> QED
        BY <3>4 DEF y, z
    <2>4. x * slow \in Int /\ x * fast \in Int /\ (age * fast) * slow \in Int
      <3> DEFINE y == age * fast
      <3> HIDE DEF x, y
      <3> QED
        BY <1>1, <2>1 DEF y
    <2> HIDE DEF x
    <2> QED
      BY <2>1, <2>2, <2>3, <2>4
  <1>4. (k * f) * (whole * slow) <= (k * s) * (whole * fast)
    <2> DEFINE u == f * slow
               v == s * fast
               m == k * whole
    <2> HIDE DEF x, k, whole, f, s
    <2>1. u \in Int /\ v \in Int /\ m \in Nat /\ u <= v
      BY <1>2, <1>3
    <2>2. m * u <= m * v
      <3> HIDE DEF m, u, v
      <3> QED
        BY <2>1
    <2>3. (k * f) * (whole * slow) = m * u /\ (k * s) * (whole * fast) = m * v
      BY <1>2
    <2> QED
      BY <2>2, <2>3
  <1> HIDE DEF x, whole, k, f, s
  <1> QED
    BY <1>2, <1>4, FractionOrder

\* For a longer leg a widened time is later, unless it is before now for every leg.
LEMMA WidenedFarther ==
  ASSUME NEW near \in Nat, NEW far \in Nat, near <= far, NEW speed \in Nat \ {0},
         NEW bound \in Nat \ {0}, NEW age \in Nat
  PROVE  Widened(near, speed, bound, age) <= Widened(far, speed, bound, age)
         \/ Widened(near, speed, bound, age) <= 0
  <1> DEFINE side == Side(speed, bound, age)
             bottom == Whole(speed) * bound
             n == 120 * near
             f == 120 * far
  <1>1. /\ side \in Int /\ bottom \in Nat \ {0} /\ n * side \in Int /\ f * side \in Int
        /\ Widened(near, speed, bound, age) = (n * side) \div bottom
        /\ Widened(far, speed, bound, age) = (f * side) \div bottom
    <2>1. /\ side \in Int /\ bottom \in Nat \ {0} /\ n * side \in Int
          /\ Widened(near, speed, bound, age) = (n * side) \div bottom
      BY WidenedParts
    <2>2. f * side \in Int /\ Widened(far, speed, bound, age) = (f * side) \div bottom
      BY WidenedParts
    <2> QED
      BY <2>1, <2>2
  <1>2. n \in Nat /\ f \in Nat /\ n <= f
    OBVIOUS
  <1> HIDE DEF side, bottom, n, f
  <1>3. CASE side >= 0
    <2>1. n * side <= f * side
      BY <1>1, <1>2, <1>3
    <2> QED
      BY <1>1, <2>1, DivisionIsMonotone
  <1>4. CASE side < 0
    <2>1. n * side <= 0
      BY <1>1, <1>2, <1>4
    <2>2. (n * side) \div bottom <= 0 \div bottom
      <3> DEFINE y == n * side
      <3> HIDE DEF y
      <3> QED
        BY <1>1, <2>1, DivisionIsMonotone DEF y
    <2>3. 0 \div bottom = 0
      BY <1>1
    <2> QED
      BY <1>1, <2>2, <2>3
  <1> QED
    BY <1>1, <1>3, <1>4

----------------------------------------------------------------------------
(* The bands                                                               *)

LEMMA LiveBandHolds ==
  ASSUME NEW leg \in Nat, NEW speed \in Nat \ {0}, NEW range \in SpeedRange
  PROVE  LiveBand(leg, speed, range) \in Band /\ Holding(LiveBand(leg, speed, range))
         /\ LiveBand(leg, speed, range).p10 >= 0
  <1>1. range.hi \in Nat \ {0} /\ range.lo \in Nat \ {0}
    BY DEF SpeedRange
  <1>2. /\ TimeFor(leg, speed) \in Nat /\ TimeFor(leg, range.hi) \in Nat /\ TimeFor(leg, range.lo) \in Nat
        /\ speed <= range.hi => TimeFor(leg, range.hi) <= TimeFor(leg, speed)
        /\ range.lo <= speed => TimeFor(leg, speed) <= TimeFor(leg, range.lo)
    <2>1. TimeFor(leg, speed) \in Nat /\ TimeFor(leg, range.hi) \in Nat /\ TimeFor(leg, range.lo) \in Nat
      BY <1>1, TimeType
    <2>2. speed <= range.hi => TimeFor(leg, range.hi) <= TimeFor(leg, speed)
      BY <1>1, FasterIsEarlier
    <2>3. range.lo <= speed => TimeFor(leg, speed) <= TimeFor(leg, range.lo)
      BY <1>1, FasterIsEarlier
    <2> QED
      BY <2>1, <2>2, <2>3
  <1>3. /\ TimeFor(9 * leg, 10 * speed) \in Nat /\ TimeFor(11 * leg, 10 * speed) \in Nat
        /\ TimeFor(9 * leg, 10 * speed) <= TimeFor(leg, speed)
        /\ TimeFor(leg, speed) <= TimeFor(11 * leg, 10 * speed)
    BY TenthAround
  <1> DEFINE first == IF range.hi < speed THEN TimeFor(9 * leg, 10 * speed) ELSE TimeFor(leg, range.hi)
             last == IF speed < range.lo THEN TimeFor(11 * leg, 10 * speed) ELSE TimeFor(leg, range.lo)
             med == TimeFor(leg, speed)
  <1>4. first \in Nat /\ first <= med /\ med \in Nat
    BY <1>1, <1>2, <1>3
  <1>5. last \in Nat /\ med <= last
    BY <1>1, <1>2, <1>3
  <1>6. LiveBand(leg, speed, range) = [p10 |-> first, med |-> med, p90 |-> last]
    BY DEF LiveBand
  <1> HIDE DEF first, med, last
  <1> QED
    BY <1>4, <1>5, <1>6 DEF Band, Holding, InOrder

LEMMA ReckonedBandInOrder ==
  ASSUME NEW leg \in Nat, NEW speed \in Nat \ {0}, NEW range \in SpeedRange, range.lo <= range.hi,
         NEW age \in Nat
  PROVE  /\ ReckonedBand(leg, speed, range, age) \in Band /\ InOrder(ReckonedBand(leg, speed, range, age))
         /\ ReckonedBand(leg, speed, range, age).p10 >= 0
  <1> DEFINE early == Widened(leg, speed, range.hi, age)
             late == Widened(leg, speed, range.lo, age)
             med == TimeFor(leg, speed)
             cut == TimeFor(11 * leg, 10 * speed)
  <1>1. range.hi \in Nat \ {0} /\ range.lo \in Nat \ {0}
    BY DEF SpeedRange
  <1>2. early \in Int /\ late \in Int /\ early <= late
    BY <1>1, WidenedParts, WidenedOrder
  <1>3. med \in Nat /\ cut \in Nat /\ med <= cut
    BY TenthAround, TimeType
  <1>4. ReckonedBand(leg, speed, range, age) = [p10 |-> Larger(0, early), med |-> med, p90 |-> Larger(cut, late)]
    BY DEF ReckonedBand
  <1> HIDE DEF early, late, med, cut
  <1> QED
    BY <1>2, <1>3, <1>4 DEF Band, InOrder, Larger

LEMMA ScaledBandHolds ==
  ASSUME NEW base \in [p10 : Nat, med : Nat, p90 : Nat], base.p10 <= base.med, base.med <= base.p90,
         NEW measured \in Nat \ {0}, NEW leg \in Nat
  PROVE  ScaledBand(base, measured, leg) \in Band /\ Holding(ScaledBand(base, measured, leg))
  <1> DEFINE a == base.p10 * leg
             b == base.med * leg
             c == base.p90 * leg
  <1>1. base.p10 \in Nat /\ base.med \in Nat /\ base.p90 \in Nat
    OBVIOUS
  <1>2. a \in Nat /\ b \in Nat /\ c \in Nat /\ a <= b /\ b <= c
    BY <1>1
  <1>3. /\ a \div measured \in Int /\ b \div measured \in Int /\ c \div measured \in Int
        /\ a \div measured <= b \div measured /\ b \div measured <= c \div measured
    <2> HIDE DEF a, b, c
    <2> QED
      BY <1>2, DivisionIsMonotone
  <1>4. ScaledBand(base, measured, leg)
          = [p10 |-> a \div measured, med |-> b \div measured, p90 |-> c \div measured]
    BY DEF ScaledBand
  <1> HIDE DEF a, b, c
  <1> QED
    BY <1>3, <1>4 DEF Band, Holding, InOrder

----------------------------------------------------------------------------
(* A longer leg has no earlier band                                        *)

LEMMA LiveBandFarther ==
  ASSUME NEW near \in Nat, NEW far \in Nat, near <= far, NEW speed \in Nat \ {0}, NEW range \in SpeedRange
  PROVE  NoLater(LiveBand(near, speed, range), LiveBand(far, speed, range))
  <1>1. range.hi \in Nat \ {0} /\ range.lo \in Nat \ {0} /\ 10 * speed \in Nat \ {0}
    BY DEF SpeedRange
  <1>2. /\ 9 * near \in Nat /\ 9 * far \in Nat /\ 9 * near <= 9 * far
        /\ 11 * near \in Nat /\ 11 * far \in Nat /\ 11 * near <= 11 * far
    OBVIOUS
  <1> QED
    BY <1>1, <1>2, FartherIsLater DEF LiveBand, NoLater

LEMMA ReckonedBandFarther ==
  ASSUME NEW near \in Nat, NEW far \in Nat, near <= far, NEW speed \in Nat \ {0}, NEW range \in SpeedRange,
         NEW age \in Nat
  PROVE  NoLater(ReckonedBand(near, speed, range, age), ReckonedBand(far, speed, range, age))
  <1>1. range.hi \in Nat \ {0} /\ range.lo \in Nat \ {0} /\ 10 * speed \in Nat \ {0}
    BY DEF SpeedRange
  <1>2. 11 * near \in Nat /\ 11 * far \in Nat /\ 11 * near <= 11 * far
    OBVIOUS
  <1>3. /\ TimeFor(near, speed) <= TimeFor(far, speed)
        /\ TimeFor(11 * near, 10 * speed) <= TimeFor(11 * far, 10 * speed)
        /\ TimeFor(11 * near, 10 * speed) \in Nat /\ TimeFor(11 * far, 10 * speed) \in Nat
    BY <1>1, <1>2, FartherIsLater, TimeType
  <1>4. ASSUME NEW bound \in Nat \ {0}
        PROVE  /\ Widened(near, speed, bound, age) \in Int /\ Widened(far, speed, bound, age) \in Int
               /\ \/ Widened(near, speed, bound, age) <= Widened(far, speed, bound, age)
                  \/ Widened(near, speed, bound, age) <= 0
    <2>1. Widened(near, speed, bound, age) \in Int /\ Widened(far, speed, bound, age) \in Int
      BY WidenedParts
    <2> QED
      BY <2>1, WidenedFarther
  <1>5. Larger(0, Widened(near, speed, range.hi, age)) <= Larger(0, Widened(far, speed, range.hi, age))
    BY <1>1, <1>4 DEF Larger
  <1>6. Larger(TimeFor(11 * near, 10 * speed), Widened(near, speed, range.lo, age))
          <= Larger(TimeFor(11 * far, 10 * speed), Widened(far, speed, range.lo, age))
    BY <1>1, <1>3, <1>4 DEF Larger
  <1> QED
    BY <1>3, <1>5, <1>6 DEF ReckonedBand, NoLater

LEMMA ScaledBandFarther ==
  ASSUME NEW base \in [p10 : Nat, med : Nat, p90 : Nat], NEW measured \in Nat \ {0},
         NEW near \in Nat, NEW far \in Nat, near <= far
  PROVE  NoLater(ScaledBand(base, measured, near), ScaledBand(base, measured, far))
  <1>1. ASSUME NEW t \in Nat PROVE (t * near) \div measured <= (t * far) \div measured
    <2> DEFINE n == t * near
               f == t * far
    <2>1. n \in Nat /\ f \in Nat /\ n <= f
      OBVIOUS
    <2> HIDE DEF n, f
    <2>2. n \div measured <= f \div measured
      BY <2>1, DivisionIsMonotone
    <2> QED
      BY <2>2 DEF n, f
  <1>2. base.p10 \in Nat /\ base.med \in Nat /\ base.p90 \in Nat
    OBVIOUS
  <1> QED
    BY <1>1, <1>2 DEF ScaledBand, NoLater
=============================================================================
