---------------------------- MODULE MCNextVessel ----------------------------
(***************************************************************************)
(* A small instance of NextVessel and ArrivalBlocks: the user is at mile 5 *)
(* between l1 at 0 and l3 at 15, with l2 at 10 in between; each run takes  *)
(* some of the locks.  A tow takes 1 to 2 units of time from the near      *)
(* locks, a big one and one from l3 takes 2 to 3.  The speeds are those of *)
(* a slow river: tows are faster than the typical range down it.           *)
(***************************************************************************)
EXTENDS ArrivalBlocks, TLC

CONSTANTS l1, l2, l3, v1, v2

MCLockMile == [k \in Locks |-> CASE k = l1 -> 0 [] k = l2 -> 10 [] k = l3 -> 15]
MCMed == [leg \in Locks \X BOOLEAN |-> IF leg[1] = l3 \/ leg[2] THEN 2 ELSE 1]
MCLate == [leg \in Locks \X BOOLEAN |-> IF leg[1] = l3 \/ leg[2] THEN 3 ELSE 1]
MCEarly == [leg \in Locks \X BOOLEAN |-> MCMed[leg] - 1]
MCTypical == [w \in Ways |-> IF w = 1 THEN [lo |-> 8, hi |-> 11] ELSE [lo |-> 3, hi |-> 5]]
Fleet == Permutations(Tows)

\* What she is heard at: nearer and nearer to the user, or else with no or the wrong course,
\* or past him.
Signals == {<<9, -1>>, <<7, -1>>, <<9, 0>>, <<9, 1>>, <<1, -1>>}

\* Bound on the run: requests come down the river, at a time at which a small tow from l2 may
\* be too late to wait for; big tows and turns are seen at l2 only, and three lockages are of
\* one tow at one lock.  Nothing keeps when a row was stored, so what is stored before the
\* request is stored at that time.
RequestAt == 2
Scope ==
    /\ pc = "idle" => now <= RequestAt
    /\ pc # "idle" => asked = RequestAt /\ way = -1
    /\ now < RequestAt => lockages = {} /\ reports = 0
    /\ \A r \in lockages : /\ r.lock = l3 => r.barges = 0 /\ r.way = -1
                           /\ r.way = 1 => r.barges = 0
    /\ Cardinality(lockages) = 3 => \A q, r \in lockages : q.tow = r.tow /\ q.lock = r.lock
    /\ \A v \in Tows : LET p == position[v] IN p # Unknown => <<p.mile, p.course>> \in Signals

\* Left out besides is what changes no answer: positions of a tow that has no lockage, and a
\* clock that goes on although nothing comes in any more.
Relevant ==
    /\ reports = 2 => \E v \in Tows : position[v] = Unknown
    /\ Cardinality(lockages) + reports = MaxStored =>
         /\ \A v \in Tows : position[v] # Unknown => \E r \in lockages : r.tow = v
         /\ now > RequestAt => \/ \E r \in lockages : r.end = now
                              \/ \E v \in Tows : position[v] # Unknown /\ position[v].at = now

Bound == Scope /\ Relevant
=============================================================================
