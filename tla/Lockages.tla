------------------------------ MODULE Lockages ------------------------------
(***************************************************************************)
(* A chain of locks, the boats that lock through it, and the lockages as   *)
(* they are stored: late, out of order, or never.                          *)
(*                                                                         *)
(* The locks are numbered upstream.  Place 2*k - 1 is in lock k, the even  *)
(* places are the pools between them.  A boat goes up (1) or down (-1); a  *)
(* tow too long for the chamber goes in two cuts with a row for each, and  *)
(* is in the lock in between.                                              *)
(***************************************************************************)
EXTENDS Integers, FiniteSets

CONSTANTS
    Boats,
    Double,      \* boats that lock through in two cuts
    NameOf,      \* the name her lockages are stored under; pleasure craft share one
    LockCount,
    Home,        \* the pool each boat is in at first
    MaxTime,     \* bound on the clock
    MaxLockages  \* bound on the lockages of the whole fleet

Locks == 1 .. LockCount
Places == 0 .. 2 * LockCount
Ways == {1, -1}
Lockage == [boat : Boats, lock : Locks, way : Ways, at : Nat]

ASSUME FleetAssumption ==
    /\ Double \subseteq Boats /\ DOMAIN NameOf = Boats
    /\ Home \in [Boats -> Places] /\ \A b \in Boats : Home[b] % 2 = 0
ASSUME BoundsAssumption == {LockCount, MaxTime, MaxLockages} \subseteq Nat

VARIABLES
    now,
    place,  \* where each boat is
    made,   \* the lockages that happened
    rows    \* those of them in lock_status_observation

river == <<now, place, made, rows>>

\* A boat locks through, or a cut of her; no two of one name at the same time.
LockThrough(b, w) ==
    /\ Cardinality(made) < MaxLockages
    /\ place[b] + w \in Places
    /\ \A c \in made : NameOf[c.boat] = NameOf[b] => c.at < now
    /\ made' = made \cup {[boat |-> b, lock |-> (place[b] + IF w = 1 THEN 2 ELSE 1) \div 2,
                           way |-> w, at |-> now]}
    /\ place' = [place EXCEPT ![b] = @ + IF b \in Double THEN w ELSE 2 * w]
    /\ UNCHANGED <<now, rows>>

Store(c) ==
    /\ rows' = rows \cup {c}
    /\ UNCHANGED <<now, place, made>>

Tick ==
    /\ now < MaxTime
    /\ now' = now + 1
    /\ UNCHANGED <<place, made, rows>>

RiverInit == now = 0 /\ place = Home /\ made = {} /\ rows = {}

RiverStep ==
    \/ Tick
    \/ \E b \in Boats, w \in Ways : LockThrough(b, w)
    \/ \E c \in made \ rows : Store(c)

\* The types of the river; only what happened is stored.
RiverTypeOK ==
    /\ now \in 0 .. MaxTime /\ place \in [Boats -> Places]
    /\ made \subseteq Lockage /\ rows \subseteq made
    /\ \A c \in made : c.at <= now

\* The lockages of a boat in a row, as they happened.
Successive(a, b) ==
    /\ a.boat = b.boat /\ a.at < b.at
    /\ \A x \in made : x.boat = a.boat => x.at \notin a.at + 1 .. b.at - 1

=============================================================================
