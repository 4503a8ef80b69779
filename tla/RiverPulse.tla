----------------------------- MODULE RiverPulse -----------------------------
(***************************************************************************)
(* GET /river-pulse: how busy the river is, the worse of the boats on the  *)
(* water and of the locks, and a line that gives the reason.  It counts    *)
(* the boats, then runs the handler of LockStatus, and goes on without the *)
(* locks if that fails.  One lock is followed; of what is said of the      *)
(* others the score takes the sum and the reason their names.              *)
(***************************************************************************)
EXTENDS LockStatus

CONSTANTS
    Fleets,   \* what may be on the water: commercial vessels and others
    NoFleet,
    Rests     \* what lock status may say of the other locks together

Fleet == [commercial : Nat, others : Nat]
\* Has one of them a tow in the chamber, has one of the rest a queue, and what do they score.
Rest == [tied : BOOLEAN, queued : BOOLEAN, points : Nat]

ASSUME FleetsAssumption == Fleets \subseteq Fleet /\ NoFleet \notin Fleet /\ Rests \subseteq Rest

VARIABLE surface  \* the count of a pulse under way

pulseVars == <<vars, surface>>

----------------------------------------------------------------------------
(* The scores and the reason                                               *)

AtMost(cap, n) == IF n > cap THEN cap ELSE n

\* surface_score, and the kinds of boats its reason counts.
SurfaceScore(f) == AtMost(130, f.commercial * 25 + f.others * 4)
SurfaceReason(f) ==
    LET out == {kind \in DOMAIN f : f[kind] > 0}
    IN  IF out = {} THEN {"none"} ELSE out

\* lock_pressure, the score: a flag counts, with or without a tow in the live row.
LockScore(a, rest) ==
    AtMost(130, a.line.locking * 30 + a.line.pending * 20 + rest.points
                + CASE a.flag = "jam" -> 20 [] a.flag = "delay" -> 10 [] OTHER -> 0)

\* lock_pressure, the reason: only live rows are looked at.
LockReason(a, rest) ==
    LET tied == a.line.locking > 0 \/ rest.tied
        queued == (a.line.locking = 0 /\ a.line.pending > 0) \/ rest.queued
    IN  IF ~tied /\ ~queued THEN {"clear"}
        ELSE {part \in {"tied up", "queue"} : IF part = "queue" THEN queued ELSE tied}

\* Deviation: the side behind is spoken of only where the two diverge.
SaysIfDiverging(f, l, why) ==
    LET s == SurfaceScore(f)
        diverge == s - l >= 20 \/ l - s >= 20
    IN  IF diverge /\ s > 5 /\ l > 5 THEN SurfaceReason(f) \cup why
        ELSE IF l >= s THEN why ELSE SurfaceReason(f)

\* compose_reason: the reason of the driver, that of the other side too if both are active,
\* and that no boat is to be seen where the lock drives alone.
Says(f, l, why) ==
    LET s == SurfaceScore(f)
        diverge == s - l >= 20 \/ l - s >= 20
    IN  IF s > 5 /\ l > 5 THEN SurfaceReason(f) \cup why
        ELSE IF l < s THEN SurfaceReason(f)
        ELSE IF diverge THEN why \cup {"none"} ELSE why

----------------------------------------------------------------------------
(* The handler                                                             *)

\* The vessels seen in the last three minutes are counted.
CountBoats ==
    /\ pc = "idle" /\ surface = NoFleet
    /\ surface' \in Fleets
    /\ UNCHANGED vars

\* With the answer for the lock, or without it, the pulse is answered; the lockage counts of
\* the week it reads last may fail it, and change nothing.
Answer == (Reply \/ Fail) /\ surface' = NoFleet

PulseInit == Init /\ surface = NoFleet

PulseNext ==
    \/ /\ \/ Tick \/ ObserveQueue \/ Ask \/ ReadLockages \/ ReadQueue
          \/ \E t \in Tows : Enter(t) \/ Leave(t) \/ ObserveLockage(t)
       /\ UNCHANGED surface
    \/ CountBoats
    \/ Answer

PulseSpec == PulseInit /\ [][PulseNext]_pulseVars

----------------------------------------------------------------------------
(* Properties                                                              *)

\* The types of the state.
PulseTypeOK == TypeOK /\ surface \in Fleets \cup {NoFleet}

\* Boats that score are in the reason, also when the locks could not be read.  A tow of the live
\* row, in the chamber or waiting, is in it and the locks are not called clear, however many
\* boats are out; a tow in two cuts that is known to be in the chamber brings in what is said
\* of the locks whatever the live row says - which is that they are clear if that row is empty.
\* And nothing is called busier than quiet for no boat and no tow named, unless the flags of
\* other locks alone score.
BusyIsExplained ==
    surface # NoFleet =>
    LET s == SurfaceScore(surface)
        boats == SurfaceReason(surface)
    IN  /\ s > 5 => Says(surface, 0, {"clear"}) = boats
        /\ pc = "reply" => \A a \in Answers, rest \in Rests :
             LET l == LockScore(a, rest)
                 why == LockReason(a, rest)
                 said == Says(surface, l, why)
             IN  /\ s > 5 => boats \subseteq said
                 /\ a.line.locking + a.line.pending > 0 =>
                      "clear" \notin said /\ said \cap {"tied up", "queue"} # {}
                 /\ (\E t \in KnownInside : Barges[t] >= 9) => why \subseteq said
                 /\ (s >= 40 \/ l >= 40) /\ rest.points < 20 => ~(said \subseteq {"clear", "none"})

=============================================================================
