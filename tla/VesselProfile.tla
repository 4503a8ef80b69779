---------------------------- MODULE VesselProfile ----------------------------
(***************************************************************************)
(* GET /vessel-profile: which of the stored lockages of a vessel are local *)
(* shuttles, found with a window of two pointers over her rows, and how    *)
(* often she goes on to the next lock.  One query; the rest is computed.   *)
(***************************************************************************)
EXTENDS Lockages, Sequences, FiniteSetsExt

CONSTANTS
    Vessel,     \* the name asked for
    Covered,    \* the locks of LOCK_ORDER
    RoundTrip,  \* SHUTTLE_ROUNDTRIP_MAX_H
    Onward      \* 24 h

ASSUME ProfileAssumption == Covered \subseteq Locks /\ {RoundTrip, Onward} \subseteq Nat

\* The rows of the query, of the covered locks.
Stored == {c \in rows : NameOf[c.boat] = Vessel /\ c.lock \in Covered}

\* her_rows, in the order of their ends.
HerRows ==
    [i \in 1 .. Cardinality(Stored) |->
        CHOOSE c \in Stored : Cardinality({x \in Stored : x.at <= c.at}) = i]

\* left of _mark_shuttles at row i: from where it was on, the first row within RoundTrip.
Left(her) ==
    LET left[i \in 0 .. Len(her)] ==
            IF i = 0 THEN 1
            ELSE Min({x \in left[i - 1] .. Len(her) + 1 :
                        x = Len(her) + 1 \/ her[i].at - her[x].at <= RoundTrip})
    IN  left

\* right: from where it was on, but not before left, the first row beyond RoundTrip.
Right(her, left) ==
    LET right[i \in 0 .. Len(her)] ==
            IF i = 0 THEN 1
            ELSE Min({x \in Max({right[i - 1], left[i]}) .. Len(her) + 1 :
                        x = Len(her) + 1 \/ her[x].at - her[i].at > RoundTrip})
    IN  right

\* Deviation: as it was before 2026-08-07, at whichever lock.
ShuttlesAnywhere(her) ==
    LET left == Left(her)
        right == Right(her, left)
    IN  {i \in 1 .. Len(her) : \E j \in left[i] .. right[i] - 1 : her[j].way # her[i].way}

\* _mark_shuttles: the rows in the window of which another one is at her lock the other way.
Shuttles(her) ==
    LET left == Left(her)
        right == Right(her, left)
    IN  {i \in 1 .. Len(her) : \E j \in left[i] .. right[i] - 1 :
            j # i /\ her[j].lock = her[i].lock /\ her[j].way # her[i].way}

\* Her lockages but the shuttles.
Transits(her) == LET marked == Shuttles(her) IN {her[i] : i \in 1 .. Len(her) \ marked}

\* A leg has an entry if she began it at least twice.
Sampled(transits, k, w) ==
    k + w \in Covered /\ Cardinality({c \in transits : c.lock = k /\ c.way = w}) >= 2

\* How often she went on: bisect finds the first end at the next covered lock that is not
\* before hers, which must be within Onward.
Hits(transits, k, w) ==
    LET next == {c \in transits : c.lock = k + w /\ c.way = w}
        first(e) == {x \in next : x.at >= e.at /\ \A y \in next : y.at >= e.at => x.at <= y.at}
    IN  {e \in transits : e.lock = k /\ e.way = w /\ \E x \in first(e) : x.at - e.at <= Onward}

----------------------------------------------------------------------------
(* Property                                                                *)

\* The two pointers find every round trip that a comparison of all her rows with all others
\* finds, and no other, in whatever order they were stored; and she counts as having gone on
\* just when she is stored at the next lock, on the same way and staying, within Onward.
ProfileIsRight ==
    LET transits == Transits(HerRows)
        local(a) == \E b \in Stored : b.lock = a.lock /\ b.way # a.way /\ b.at - a.at \in -RoundTrip .. RoundTrip
    IN  /\ transits = {a \in Stored : ~local(a)}
        /\ \A k \in Covered, w \in Ways :
             Sampled(transits, k, w) =>
                Hits(transits, k, w) =
                    {a \in transits : /\ a.lock = k /\ a.way = w
                                      /\ \E b \in transits : /\ b.lock = k + w /\ b.way = w
                                                             /\ b.at - a.at \in 0 .. Onward}

=============================================================================
