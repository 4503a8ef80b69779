------------------------------- MODULE Replay -------------------------------
(***************************************************************************)
(* GET /replay for one vessel: her heard positions, thinned and capped,    *)
(* and the legs between locks she is drawn on where no antenna hears her,  *)
(* from the lockages as far as they are stored.  The handler looks at the  *)
(* clock, awaits the positions and then the lockages.                      *)
(***************************************************************************)
EXTENDS Lockages

CONSTANTS
    Tow,        \* the vessel
    SimLocks,   \* SIM_LOCKS
    Window,     \* window_hours
    Cadence,    \* CADENCE_S
    MaxPoints,  \* MAX_PTS_PER_VESSEL
    Dedup,      \* SIM_DEDUP_HOURS
    MaxLeg,     \* SIM_MAX_LEG_HOURS
    MaxFixes    \* bound on the positions heard

Fix == [at : Nat, named : BOOLEAN, commercial : BOOLEAN]

ASSUME TowAssumption ==
    /\ Tow \in Boats /\ SimLocks \subseteq Locks
    /\ \A k, m \in SimLocks : k .. m \subseteq SimLocks
ASSUME ReplayAssumption ==
    /\ {Window, Cadence, MaxPoints, Dedup, MaxLeg, MaxFixes} \subseteq Nat
    /\ Cadence >= 1 /\ MaxPoints >= 1

VARIABLES
    heard,   \* her rows of vessel_position
    awaits,  \* what the handler awaits
    clock,   \* its now
    seen,    \* what the first query returned
    known    \* the lockages that were stored when it asked for them

replay == <<awaits, clock, seen, known>>
replayVars == <<river, heard, replay>>

----------------------------------------------------------------------------
(* Her points                                                              *)

\* Deviation: a position is left out if any was heard less than Cadence before it.
KeptAfterSilence(F) == {f \in F : \A g \in F : g.at < f.at => f.at - g.at >= Cadence}

\* A position is kept unless the one kept last was heard less than Cadence before it.
KeptOf(F) ==
    LET last[t \in -1 .. MaxTime] ==
            IF t = -1 THEN -1 - Cadence
            ELSE LET before == last[t - 1]
                 IN  IF t - before >= Cadence /\ (\E f \in F : f.at = t) THEN t ELSE before
    IN  {f \in F : last[f.at] = f.at}

Thinned == KeptOf(seen)

\* With more than MaxPoints of them, as many evenly spread ones; the last is not among them.
Capped(kept) ==
    LET n == Cardinality(kept)
        rank(f) == Cardinality({g \in kept : g.at < f.at})
    IN  IF n <= MaxPoints THEN kept
        ELSE {f \in kept : \E i \in 0 .. MaxPoints - 1 : rank(f) = (i * n) \div MaxPoints}

\* Her name is that of the first position, or else of a later one that is kept.
Named == \E f \in seen : f.named /\ (f \in Thinned \/ \A g \in seen : f.at <= g.at)

\* Deviation: only positions that are kept tell.
CommercialIfKept == \E f \in Thinned : f.commercial

Commercial == \E f \in seen : f.commercial

----------------------------------------------------------------------------
(* Her legs                                                                *)

Hers(S) == {c \in S : NameOf[c.boat] = NameOf[Tow]}

\* Deviation: only the lockages of the window are read.
ClearancesOfWindow == {c \in Hers(known) : c.lock \in SimLocks /\ c.at <= clock /\ c.at >= clock - Window}

\* _load_lock_clearances: back to MaxLeg before the window.
Clearances ==
    {c \in Hers(known) : c.lock \in SimLocks /\ c.at <= clock /\ c.at >= clock - Window - MaxLeg}

\* The next of S after c, none or one.
After(S, c) == {x \in S : x.at > c.at /\ \A y \in S : y.at > c.at => x.at <= y.at}

\* Deviation: of several cuts the first one counts.
CollapseToFirst(S) == {c \in S : \A x \in S : c \in After(S, x) => x.lock # c.lock \/ c.at - x.at > Dedup}

\* The multi-cut collapse: lockages of one lock in a row, no two further apart than Dedup,
\* count as one that ended with the last.
Collapse(S) == {c \in S : \A x \in After(S, c) : x.lock # c.lock \/ x.at - c.at > Dedup}

\* _build_simulated_segments
Segments ==
    LET events == Collapse(Clearances)
    IN  IF Commercial /\ Named
        THEN {s \in events \X events : /\ s[2] \in After(events, s[1])
                                       /\ s[1].lock # s[2].lock
                                       /\ s[2].at >= clock - Window
                                       /\ s[2].at - s[1].at <= MaxLeg}
        ELSE {}

----------------------------------------------------------------------------
(* The antenna and the handler                                             *)

Hear ==
    /\ Cardinality(heard) < MaxFixes
    /\ \A f \in heard : f.at < now
    /\ \E n, c \in BOOLEAN : heard' = heard \cup {[at |-> now, named |-> n, commercial |-> c]}
    /\ UNCHANGED <<river, replay>>

AskReplay ==
    /\ awaits = "idle"
    /\ clock' = now
    /\ awaits' = "positions"
    /\ UNCHANGED <<river, heard, seen, known>>

ReadPositions ==
    /\ awaits = "positions"
    /\ seen' = {f \in heard : clock - Window < f.at /\ f.at <= clock}
    /\ awaits' = "lockages"
    /\ UNCHANGED <<river, heard, clock, known>>

ReadLockages ==
    /\ awaits = "lockages"
    /\ known' = rows
    /\ awaits' = "answer"
    /\ UNCHANGED <<river, heard, clock, seen>>

\* The answer is sent, or a query times out and there is none.
Finish ==
    /\ awaits # "idle"
    /\ awaits' = "idle" /\ clock' = 0 /\ seen' = {} /\ known' = {}
    /\ UNCHANGED <<river, heard>>

ReplayInit ==
    /\ RiverInit
    /\ heard = {}
    /\ awaits = "idle" /\ clock = 0 /\ seen = {} /\ known = {}

ReplayNext ==
    \/ RiverStep /\ UNCHANGED <<heard, replay>>
    \/ Hear \/ AskReplay \/ ReadPositions \/ ReadLockages \/ Finish

ReplaySpec == ReplayInit /\ [][ReplayNext]_replayVars

----------------------------------------------------------------------------
(* Properties                                                              *)

\* The types of the state; nothing is answered that happened after the request.
ReplayTypeOK ==
    /\ RiverTypeOK
    /\ heard \subseteq Fix /\ Cardinality(heard) <= MaxFixes
    /\ awaits \in {"idle", "positions", "lockages", "answer"} /\ clock \in 0 .. now
    /\ seen \subseteq heard /\ known \subseteq rows
    /\ \A x \in seen : x.at <= clock

\* However thick her positions come, the answer stays within the cap, no two points are
\* closer than the cadence, the first position is a point, and every position has one at most
\* a cadence older, but for as many points in a row as the cap leaves out.
PointsKeepUp ==
    awaits = "answer" =>
    LET kept == Thinned
        points == Capped(kept)
        skip == IF kept = {} THEN 0 ELSE (Cardinality(kept) - 1) \div MaxPoints
    IN  /\ Cardinality(points) <= MaxPoints
        /\ \A p, q \in points : p.at < q.at => q.at - p.at >= Cadence
        /\ \A f \in seen :
             /\ \E k \in kept : k.at <= f.at /\ f.at - k.at < Cadence
             /\ \E p \in points :
                  p.at <= f.at /\ Cardinality({k \in kept : p.at < k.at /\ k.at <= f.at}) <= skip

\* What happened at the locks from MaxLeg before the window up to the request was all stored
\* when it was read.
NothingMissing ==
    \A c \in made : c.lock \in SimLocks /\ c.at \in clock - Window - MaxLeg .. clock => c \in known

\* No other boat has her name: with a namesake, the rows of two boats are read as one history.
NameIsHers == \A b \in Boats : NameOf[b] = NameOf[Tow] => b = Tow

\* She was never back from beyond the last lock of SimLocks as soon as its next cut could have
\* been: what she did out there is not read, and the two visits would count as one.
NeverSoonBack ==
    \A a, b, c \in Hers(made) :
        /\ a.at < b.at /\ b.at < c.at
        /\ a.lock \in SimLocks /\ b.lock \notin SimLocks /\ c.lock = a.lock
        => c.at - a.at > Dedup

Passed(a, b) == {x \in Hers(made) : a.at < x.at /\ x.at <= b.at}

\* Every leg she is drawn on is one she really went, from her last cut at one lock to the next
\* lock, with no other lock in between, whatever she did before and wherever she turned back.
LegsAreReal ==
    awaits = "answer" /\ NothingMissing /\ NameIsHers /\ NeverSoonBack =>
        \A s \in Segments : /\ s[2].lock \in {s[1].lock - 1, s[1].lock + 1}
                            /\ \A x \in Passed(s[1], s[2]) : x.lock = s[2].lock

\* Positions that tell her name: the first one and those after a silence of Cadence.
Telling == {f \in seen : \A g \in seen : g.at >= f.at \/ f.at - g.at >= Cadence
                                         \/ \A h \in seen : h.at >= f.at}

\* What of hers at the locks of SimLocks was over at the request.
Over == {x \in Hers(made) : x.lock \in SimLocks /\ x.at <= clock}

\* Her stay at the lock of b ended with z: from b on she was at no other lock and no pause was
\* longer than Dedup, and after z there was a longer one, or another lock, if anything.
StaysUntil(b, z) ==
    /\ z.lock = b.lock /\ b.at <= z.at
    /\ \A x \in Over : x.at \in b.at .. z.at => x.lock = b.lock
    /\ \A x \in Over : x.at \in b.at .. z.at - 1 => \E y \in Over : y.at \in x.at + 1 .. x.at + Dedup
    /\ \A x \in Over : x.lock = b.lock /\ x.at \in z.at + 1 .. z.at + Dedup =>
         \E y \in Over : y.lock # b.lock /\ y.at \in z.at + 1 .. x.at

\* Each time she went from one lock to another a leg is drawn, from her last cut at the one to
\* her last cut at the other, if it ended in the window and took MaxLeg at most, whenever it
\* began and whatever she did before and afterwards: as long as she was heard as a commercial
\* vessel once, and by name at first or after a silence.
LegsAreShown ==
    awaits = "answer" /\ NothingMissing /\ NameIsHers
      /\ (\E f \in seen : f.commercial) /\ (\E f \in Telling : f.named) =>
        LET legs == Segments
        IN  \A a, b, z \in Over :
            /\ a.lock # b.lock /\ Successive(a, b) /\ StaysUntil(b, z)
            /\ z.at >= clock - Window /\ z.at - a.at <= MaxLeg
            => <<a, z>> \in legs

=============================================================================
