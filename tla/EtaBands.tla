------------------------------ MODULE EtaBands ------------------------------
(***************************************************************************)
(* The arrival bands of api/vessel_eta.py: how long a leg takes, as an     *)
(* early, a middle and a late time.  Times are tenths of a minute, legs    *)
(* tenths of a mile, speeds half miles per hour, ages whole ticks of which *)
(* PerHour make an hour.  A time is rounded down once, at the end: what    *)
(* the code compares on the way, it compares unrounded.                    *)
(***************************************************************************)
EXTENDS Integers

CONSTANT PerHour

ASSUME HourAssumption == PerHour \in Nat \ {0}

\* lo and hi are the typical range of speeds one way along the river, SPEED_HINT.
SpeedRange == [lo : Nat \ {0}, hi : Nat \ {0}]
Band == [p10 : Int, med : Int, p90 : Int]

TimeFor(leg, speed) == (120 * leg) \div speed
Larger(a, b) == IF a >= b THEN a ELSE b

\* Deviation: the range of speeds as it is, whatever her own speed.
LiveBandUncut(leg, speed, range) ==
    [p10 |-> TimeFor(leg, range.hi), med |-> TimeFor(leg, speed), p90 |-> TimeFor(leg, range.lo)]

\* _try_live_anchor: her own speed in the middle; where it lies outside the typical
\* range the band is cut to a tenth on that side.
LiveBand(leg, speed, range) ==
    [p10 |-> IF range.hi < speed THEN TimeFor(9 * leg, 10 * speed) ELSE TimeFor(leg, range.hi),
     med |-> TimeFor(leg, speed),
     p90 |-> IF speed < range.lo THEN TimeFor(11 * leg, 10 * speed) ELSE TimeFor(leg, range.lo)]

\* The time at her own speed, moved away to that at the speed bound and, for every hour of
\* age, half as far again (DEAD_RECKON_WIDEN_PER_HOUR):
\* med + (bound's - med) * (2 * PerHour + age) / (2 * PerHour), as one fraction.
Widened(leg, speed, bound, age) ==
    (120 * leg * ((2 * PerHour + age) * speed - age * bound)) \div (2 * PerHour * speed * bound)

\* _try_dead_reckoned: both sides widened with her age and then only the late one cut.
ReckonedBand(leg, speed, range, age) ==
    [p10 |-> Larger(0, Widened(leg, speed, range.hi, age)),
     med |-> TimeFor(leg, speed),
     p90 |-> Larger(TimeFor(11 * leg, 10 * speed), Widened(leg, speed, range.lo, age))]

\* scale_transit: the times measured over the leg to the cabin, stretched to this one.
ScaledBand(base, measured, leg) ==
    [p10 |-> (base.p10 * leg) \div measured,
     med |-> (base.med * leg) \div measured,
     p90 |-> (base.p90 * leg) \div measured]

=============================================================================
